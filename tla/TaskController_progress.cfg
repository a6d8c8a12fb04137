SPECIFICATION FairSpec
CONSTANTS
    Task = {t1, t2}
    Worker = {w1, w2, w3}
    NoWorker = NoWorker
    QueueSize <- MCQueueSize
    Policy = "even_load"
    Capable <- MCCapable
    Results = {"success"}
    Timers <- AllTimers
    Mortal = {w1}
    Limit <- MCLimit
    Capacity = 2
    SpecialTask = t1
    SpecialWorker = w1
    Timeouts = 0
    Cancels = 0
    Disconnects = 0
    Rounds = 1
    Faults = 0
INVARIANTS
    SlotsAgree
PROPERTIES
    Progress

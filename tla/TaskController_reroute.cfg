SPECIFICATION Spec
CONSTANTS
    Task = {t1, t2}
    Worker = {w1, w2}
    NoWorker = NoWorker
    QueueSize <- MCQueueSize
    Policy = "even_load"
    Capable <- MCCapable
    Results = {"success"}
    Timers <- NoBalancing
    Mortal = {w1, w2}
    Limit <- MCLimit
    Capacity = 1
    SpecialTask = t1
    SpecialWorker = w1
    Timeouts = 1
    Cancels = 0
    Disconnects = 1
    Rounds = 0
    Faults = 0
SYMMETRY Symmetry
INVARIANTS
    OutcomeOnce
    NoSlotLeak

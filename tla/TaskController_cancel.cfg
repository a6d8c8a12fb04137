SPECIFICATION Spec
CONSTANTS
    Task = {t1, t2, t3}
    Worker = {w1}
    NoWorker = NoWorker
    QueueSize <- MCQueueSize
    Policy = "even_load"
    Capable <- MCCapable
    Results = {"success"}
    Timers <- NoBalancing
    Mortal = {}
    Limit <- MCLimit
    Capacity = 1
    SpecialTask = t1
    SpecialWorker = w1
    Timeouts = 1
    Cancels = 1
    Disconnects = 1
    Rounds = 0
    Faults = 1
SYMMETRY Symmetry
INVARIANTS
    TypeOK
    LockAcyclic
    QueueSound
    WorkConserving

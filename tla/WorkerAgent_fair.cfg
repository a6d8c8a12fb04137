SPECIFICATION FairSpec
CONSTANTS
    Task = {t1, t2, t3}
    NoTask = NoTask
    Priority <- MCPriority
    MaxProcs = 5
    Fragile = {}
    Forcible = {t2}
    Limit <- MCLimit
    Urgent = {t2}
    Deaths = 0
    Duplicates = 0
    Gentle = 1
    Force = 1
INVARIANTS
    LockSound
    PriorityRespected
PROPERTIES
    ImplementsContract
    EveryTaskAnswered

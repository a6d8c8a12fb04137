SPECIFICATION Spec
CONSTANTS
    Task = {t1, t2, t3}
    NoTask = NoTask
    Priority <- MCPriority
    MaxProcs = 5
    Fragile = {"starting", "idle", "busy"}
    Forcible = {t1, t2, t3}
    Limit <- MCLimit
    Urgent = {t2}
    Deaths = 1
    Duplicates = 1
    Gentle = 1
    Force = 0
INVARIANTS
    ProcessorsSound
PROPERTIES
    ImplementsContract
CHECK_DEADLOCK FALSE

SPECIFICATION Spec
CONSTANTS
    Task = {t1, t2, t3}
    Worker = {w1, w2}
    NoWorker = NoWorker
    QueueSize <- MCQueueSize
    Policy = "capability"
    Capable <- MCOneCapable
    Results = {"success"}
    Timers = {"balanceTimer"}
    Mortal = {w1}
    Limit <- MCLimit
    Capacity = 2
    SpecialTask = t1
    SpecialWorker = w1
    Timeouts = 0
    Cancels = 1
    Disconnects = 0
    Rounds = 2
    Faults = 0
INVARIANTS
    BooksAgree
    HeldByOne

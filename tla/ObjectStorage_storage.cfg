SPECIFICATION Spec
CONSTANTS
    Client = {"p", "a", "s"}
    Sync = {"p"}
    store_r = store_r
    set_x = set_x
    set_z = set_z
    get_y = get_y
    get_y_again = get_y_again
    copy_x = copy_x
    delete_x = delete_x
    Job = {store_r, set_x, set_z, get_y, get_y_again, copy_x, delete_x}
    Work <- MCWork
    Content <- MCContent
    Size <- MCSize
    HeaderLen = 80
    IdLen = 48
    MaxAttempts = 2
    Events = {"cut", "die"}
    Budget = 1
SYMMETRY Symmetry
INVARIANTS
    CountsExact
    
    StoredWhenAnnounced
    NobodyStuck
CHECK_DEADLOCK FALSE

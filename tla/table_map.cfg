SPECIFICATION Spec
CONSTANTS
    Threads = {t1, t2}
    Registered = {t1}
    t1 = t1
    t2 = t2
    Ptrs = {p1, p2}
    p1 = p1
    p2 = p2
    NULL = NULL
    TABLE = TABLE
    Capacity = 2
    MaxGeneration = 1
    IndexMod = 16
    MaxCalls = 6
    RemoveOnce = TRUE
INVARIANT SlotNeverLost
PROPERTY LinearizableMap
PROPERTY EveryCallReturns
CHECK_DEADLOCK FALSE

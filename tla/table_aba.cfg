SPECIFICATION Spec
CONSTANTS
    Threads = {t1, t2}
    Registered = {}
    t1 = t1
    t2 = t2
    Ptrs = {p1, p2}
    p1 = p1
    p2 = p2
    NULL = NULL
    TABLE = TABLE
    Capacity = 1
    MaxGeneration = 2
    IndexMod = 16
    MaxCalls = 5
    RemoveOnce = FALSE
SYMMETRY Symmetry
INVARIANT RemoveTakesOwnObject
CHECK_DEADLOCK FALSE

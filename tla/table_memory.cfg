SPECIFICATION Spec
CONSTANTS
    Threads = {t1, t2, t3}
    Registered = {t1}
    t1 = t1
    t2 = t2
    t3 = t3
    Ptrs = {p1, p2, p3}
    p1 = p1
    p2 = p2
    p3 = p3
    NULL = NULL
    TABLE = TABLE
    Capacity = 2
    MaxGeneration = 2
    IndexMod = 16
    MaxCalls = 6
    RemoveOnce = FALSE
SYMMETRY Symmetry
INVARIANT TypeOK
INVARIANT NoUseAfterFree
INVARIANT ReferenceInOnePlace
INVARIANT SlotNeverShared
INVARIANT LiveCountExact
INVARIANT RetiredBounded
CHECK_DEADLOCK FALSE

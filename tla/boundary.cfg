SPECIFICATION Spec
CONSTANTS
    ca = ca
    cb = cb
    cc = cc
    g1 = g1
    g2 = g2
    Threads = {t1, t2}
    Classes = {ca, cb, cc}
    Tags = {g1, g2}
    TagOf <- TagsGiven
    MaxCalls = 3
    MaxDepth = 2
    ObjectSlots = 1
    BufferSlots = 1
    ErrorSlots = 1
    NONE = NONE
    GENERIC = GENERIC
SYMMETRY Symmetry
INVARIANT MethodHoldsItsObject
INVARIANT NothingLeaks
PROPERTY CallerSeesOwnError
CHECK_DEADLOCK FALSE

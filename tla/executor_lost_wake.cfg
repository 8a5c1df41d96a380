SPECIFICATION Spec
CONSTANTS
    Workers = {w1, w2}
    Callers = {c1}
    Tasks = {k1}
    TokioTasks = {}
    NulMessages = {}
    USIZE = 8
    w1 = w1
    w2 = w2
    c1 = c1
    k1 = k1
    NONE = NONE
PROPERTY WokenTaskEnds
CHECK_DEADLOCK FALSE

SPECIFICATION Spec
CONSTANTS
    Workers = {w1, w2}
    Callers = {c1}
    Tasks = {k1, k2}
    TokioTasks = {k2}
    NulMessages = {k2}
    USIZE = 8
    w1 = w1
    w2 = w2
    c1 = c1
    k1 = k1
    k2 = k2
    NONE = NONE
INVARIANT LiveTasksExact
INVARIANT FutureInOnePlace
INVARIANT SettledOnce
PROPERTY AttachedPromiseSettles
PROPERTY CancelAborts
PROPERTY TaskContract
CHECK_DEADLOCK FALSE

SPECIFICATION Spec
CONSTANTS
    Sleeps = {s1}
    Timeouts = {t1}
    Tasks = {k1, k2}
    Movable = {s1, t1}
    s1 = s1
    t1 = t1
    k1 = k1
    k2 = k2
    NONE = NONE
INVARIANT NeverSleepsOverADeadline
PROPERTY DeadlineServed
CHECK_DEADLOCK FALSE

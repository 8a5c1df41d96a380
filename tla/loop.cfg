SPECIFICATION Spec
CONSTANTS
    Threads = {i1, r1, r2}
    Isolates = {i1}
    Runners = {i1, r1}
    Jobs = {j1}
    SlotIds = {s1, s2}
    i1 = i1
    r1 = r1
    r2 = r2
    j1 = j1
    s1 = s1
    s2 = s2
    GLOBAL = GLOBAL
    NONE = NONE
    MaxSpurious = 1
INVARIANT JobInOnePlace
INVARIANT IsolateBoundary
PROPERTY TargetedJobsRun
PROPERTY PrimaryServesGlobal
PROPERTY StopEndsPlainRun
PROPERTY LoopContract
CHECK_DEADLOCK FALSE

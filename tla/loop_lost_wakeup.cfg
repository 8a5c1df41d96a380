SPECIFICATION Spec
CONSTANTS
    Threads = {i1, r1}
    Isolates = {i1}
    Runners = {i1}
    Jobs = {j1}
    SlotIds = {s1}
    i1 = i1
    r1 = r1
    j1 = j1
    s1 = s1
    GLOBAL = GLOBAL
    NONE = NONE
    MaxSpurious = 0
PROPERTY RegisteredRunnerServesGlobal
CHECK_DEADLOCK FALSE

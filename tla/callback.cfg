SPECIFICATION Spec
CONSTANTS
    Isolates = {i1, i2}
    Natives = {}
    Handles = {h1}
    Calls = {c1, c2}
    Misfits = {c2}
    i1 = i1
    i2 = i2
    h1 = h1
    c1 = c1
    c2 = c2
    UNBOUND = UNBOUND
    GLOBAL = GLOBAL
    NONE = NONE
INVARIANT AnswerTellsTheTruth
PROPERTY EveryCallReturns
PROPERTY TrampolineSafe
CHECK_DEADLOCK FALSE

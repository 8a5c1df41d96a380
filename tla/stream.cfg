CONSTANTS
    p1 = p1
    p2 = p2
    n1 = n1
    n2 = n2
    Producers = {p1, p2}
    MaxItems = 3
    PUSH_CAPACITY = 2
    INITIAL_MAX = 1
    MAX_BUDGET = 2
    ITERATOR = ITERATOR
    Timers = {n1, n2}
    NONE = NONE
SPECIFICATION Spec
INVARIANTS
    ItemsInOrder
    NoProducerSleepsBesideRoom
PROPERTIES
    ConsumerServed
    ProducersEnd
CHECK_DEADLOCK FALSE

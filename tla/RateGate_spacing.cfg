SPECIFICATION Spec
CONSTANTS
    Callers = {c1, c2, c3, c4}
    Keys = {k1}
    minInterval = 3
    maxQueue = 6
    cacheTTL = 2
    RetryAfter = 4
    Ceiling = 2
    Jitter = 1
    CacheCanFail = TRUE
    MaxNow = 10
    None = None
SYMMETRY Symmetry
CHECK_DEADLOCK FALSE
INVARIANTS
    RetryAfterSuffices
    QueueBounded
PROPERTIES
    DeparturesSpaced

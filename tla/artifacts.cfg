SPECIFICATION Spec
CONSTANTS
    e1 = e1
    d1 = d1
    d2 = d2
    c1 = c1
    m1 = m1
    NoRef = NoRef
    Sensed <- OneSensed
    Derived <- OneDerived
    Child <- None
    Memory <- None
    MaxRevision = 1
    MaxAttempts = 1
    MaxActiveRoots = 1
    MaxRestarts = 1
    MaxRetries = 0
    Artifacts = TRUE
INVARIANT ActiveWorkIsCurrent
CHECK_DEADLOCK FALSE

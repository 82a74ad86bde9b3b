SPECIFICATION Spec
CONSTANTS
    e1 = e1
    d1 = d1
    d2 = d2
    c1 = c1
    m1 = m1
    NoRef = NoRef
    Sensed <- OneSensed
    Derived <- TwoDerived
    Child <- None
    Memory <- OneMemory
    MaxRevision = 0
    MaxAttempts = 1
    MaxActiveRoots = 1
    MaxRestarts = 0
    MaxRetries = 0
    Artifacts = FALSE
PROPERTY RetentionKeepsActive
CHECK_DEADLOCK FALSE

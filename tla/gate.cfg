SPECIFICATION FairSpec
CONSTANTS
    e1 = e1
    d1 = d1
    d2 = d2
    c1 = c1
    m1 = m1
    NoRef = NoRef
    Sensed <- OneSensed
    Derived <- None
    Child <- None
    Memory <- None
    MaxRevision = 2
    MaxAttempts = 2
    MaxActiveRoots = 1
    MaxRestarts = 1
    MaxRetries = 1
    Artifacts = FALSE
INVARIANT RunningJobHasWorker
PROPERTIES VerdictIsFinal EveryJobSettles
CHECK_DEADLOCK FALSE

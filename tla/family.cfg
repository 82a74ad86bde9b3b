SPECIFICATION Spec
CONSTANTS
    r1 = r1
    r2 = r2
    c1 = c1
    c2 = c2
    None = None
    Root <- TwoRoots
    Child <- OneChild
    ParentOf <- FirstRoot
    Older <- CreatedBefore
    MaxRunning = 2
    MaxRoots = 1
    MaxSteps = 3
    MaxRestarts = 0
    MaxCancels = 0
INVARIANTS NoOrphans NothingUnreadWhileWaiting

SPECIFICATION FairSpec
CONSTANTS
    r1 = r1
    r2 = r2
    c1 = c1
    c2 = c2
    None = None
    Root <- OneRoot
    Child <- TwoChildren
    ParentOf <- FirstRoot
    Older <- CreatedBefore
    MaxRunning = 1
    MaxRoots = 1
    MaxSteps = 4
    MaxRestarts = 1
    MaxCancels = 0
PROPERTY EveryTaskEnds

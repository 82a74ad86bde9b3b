SPECIFICATION Spec
CONSTANTS
    r1 = r1
    r2 = r2
    c1 = c1
    c2 = c2
    None = None
    Root <- OneRoot
    Child <- OneChild
    ParentOf <- FirstRoot
    Older <- CreatedBefore
    MaxRunning = 2
    MaxRoots = 1
    MaxSteps = 4
    MaxRestarts = 2
    MaxCancels = 1
INVARIANTS TypeOK AtMostOnce RunningHasLoop WaitingCanBeWoken
PROPERTY VerdictStands

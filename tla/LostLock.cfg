\* Lock contention: a process that asks for a second lock while it holds one.
SPECIFICATION Spec
CONSTANTS
    Services = {0, 1}
    LockIds = {0, 1, 2}
    NumProcs = 2
    NumLocks = 2
    LockMode = TRUE
    SourceTypes <- LockingSource
    MaxBatch = 2
    HoldTimes = {1, 2}
    MaxRelease = 2
    Ticks = 4
    WarmupTicks = 1
    SwitchCost = 1
    StarvationThreshold = 2
    Window = 2
INVARIANT
    OwnerHoldsLock

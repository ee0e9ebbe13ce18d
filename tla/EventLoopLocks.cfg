\* Lock contention: two processes, two locks, sections of one or two CPU ticks.
SPECIFICATION Spec
CONSTANTS
    Services = {0, 1}
    LockIds = {0, 1, 2}
    NumProcs = 2
    NumLocks = 2
    LockMode = TRUE
    SourceTypes <- LockingSource
    MaxBatch = 1
    HoldTimes = {1, 2}
    MaxRelease = 2
    Ticks = 4
    WarmupTicks = 1
    SwitchCost = 1
    StarvationThreshold = 2
    Window = 2
INVARIANTS
    HolderOwnsLock
    DebtBounded
    Accounting
    NoWaiterOnFreeLock
PROPERTIES
    NoEarlyRelease
    ServesInOrder

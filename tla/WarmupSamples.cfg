\* Lock contention: are the waiting times of the warm-up ignored?
SPECIFICATION Spec
CONSTANTS
    Services = {0, 1}
    LockIds = {0, 1, 2}
    NumProcs = 2
    NumLocks = 2
    LockMode = TRUE
    SourceTypes <- LockingSource
    MaxBatch = 2
    HoldTimes = {1, 2}
    MaxRelease = 2
    Ticks = 4
    WarmupTicks = 2
    SwitchCost = 1
    StarvationThreshold = 2
    Window = 2
INVARIANT
    WarmupIgnored

\* Synthetic arrivals, two processes: is a context switch ever charged?
SPECIFICATION Spec
CONSTANTS
    Services = {0, 1}
    LockIds = {0}
    NumProcs = 2
    NumLocks = 1
    LockMode = FALSE
    SourceTypes <- SyntheticSource
    MaxBatch = 2
    HoldTimes = {1}
    MaxRelease = 1
    Ticks = 5
    WarmupTicks = 2
    SwitchCost = 1
    StarvationThreshold = 2
    Window = 2
PROPERTY
    ContextSwitchCharged

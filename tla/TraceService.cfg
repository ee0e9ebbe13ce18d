\* Trace replay with Service records: how many services in one tick?
SPECIFICATION Spec
CONSTANTS
    Services = {0, 1}
    LockIds = {0}
    NumProcs = 1
    NumLocks = 1
    LockMode = FALSE
    SourceTypes <- TraceSource
    MaxBatch = 2
    HoldTimes = {1}
    MaxRelease = 1
    Ticks = 4
    WarmupTicks = 1
    SwitchCost = 1
    StarvationThreshold = 2
    Window = 2
INVARIANT
    OneServicePerTick

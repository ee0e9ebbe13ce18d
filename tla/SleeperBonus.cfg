\* CFS with a bonus cap of one tick: a process that slept while another ran.
SPECIFICATION PolicySpec
CONSTANTS
    Services = {0, 1}
    LockIds = {0}
    NumProcs = 2
    NumLocks = 1
    LockMode = FALSE
    SourceTypes <- SyntheticSource
    MaxBatch = 2
    HoldTimes = {1}
    MaxRelease = 1
    Ticks = 5
    WarmupTicks = 9
    SwitchCost = 0
    StarvationThreshold = 9
    Window = 1
    Topologies <- ServiceGraphs
    Safety = 20
    BonusCap = 1
    Penalty = 6
    EpsilonTotal = 0
    TauBound = 1
    Policies = {"cfs"}
    MuHats = {1, 2}
    LambdaHats = {0, 1}
PROPERTY
    WakeupBonusCapped

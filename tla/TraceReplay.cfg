\* Traces of up to three lines, one configured process and one service registered
\* on demand, whose id is not its index; sampling limits shortened to seven ticks.
SPECIFICATION TraceSpec
CONSTANTS
    Services = {0, 5}
    LockIds = {0, 1}
    NumProcs = 1
    NumLocks = 1
    LockMode = FALSE
    SourceTypes <- TraceSource
    MaxBatch = 3
    HoldTimes = {1}
    MaxRelease = 1
    Ticks = 7
    WarmupTicks = 1
    SwitchCost = 1
    StarvationThreshold = 2
    Window = 2
    Files <- MCFiles
    Modes = {1, 2}
    Fan = 3
    SnapshotEvery = 2
    MaxSamples = 4
    VStride = 2
    SteadyWindow = 2
    NoMin = 1000000
INVARIANTS
    TypeOK
    RegistryConsistent
    Accounting
    OfflineAgrees
    OrphansReported
    CyclesAreReturns
    TopologiesAsRead
    ArrivalsOnTime
    QueueReportConsistent
    StreaksPartition
    SamplesExact
    WaitReportConsistent
    DefaultsHideNothing
PROPERTIES
    ReplaysThroughLoop

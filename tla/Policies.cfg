\* Every policy of the program, three processes, synthetic arrivals.
SPECIFICATION PolicySpec
CONSTANTS
    Services = {0, 1, 2}
    LockIds = {0}
    NumProcs = 3
    NumLocks = 1
    LockMode = FALSE
    SourceTypes <- SyntheticSource
    MaxBatch = 2
    HoldTimes = {1}
    MaxRelease = 1
    Ticks = 3
    WarmupTicks = 9
    SwitchCost = 0
    StarvationThreshold = 9
    Window = 1
    Topologies <- ServiceGraphs
    Safety = 20
    BonusCap = 2
    Penalty = 6
    EpsilonTotal = 0
    TauBound = 1
    Policies = {"rr", "fcfs", "cfs", "sjf", "gsq", "maxweight", "cmu", "embi", "embi_ablated", "embi_no_prediction", "embi_no_penalty", "hybrid_embi"}
    MuHats = {1, 2}
    LambdaHats = {0, 1}
INVARIANTS
    BoundedBypass
    GlobalFIFO
    NoStarvationByCFS
    OracleScoresSwaps
PROPERTIES
    HonoursContract

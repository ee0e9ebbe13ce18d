\* Arrivals, and lock events that are ignored because there is no lock manager:
\* two processes, five ticks of which two are warm-up.
SPECIFICATION FairSpec
CONSTANTS
    Services = {0, 1}
    LockIds = {0}
    NumProcs = 2
    NumLocks = 1
    LockMode = FALSE
    SourceTypes <- CallSource
    MaxBatch = 2
    HoldTimes = {1}
    MaxRelease = 1
    Ticks = 5
    WarmupTicks = 2
    SwitchCost = 1
    StarvationThreshold = 2
    Window = 2
INVARIANTS
    QueueConsistent
    CompletionsAgree
    OnlineAgrees
    IdleTimeExact
PROPERTIES
    ImplementsQueueingSystem
    RunCompletes

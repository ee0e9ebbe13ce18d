\* Command lines of up to two settings, each given twice, with two failures.
SPECIFICATION Spec
CONSTANTS
    NotANumber = NotANumber
    MaxWord = 1000
    DefaultTicks = 2
    DefaultProcesses = 2
    MinWarmup = 2
    LastDigit = 5
    ConfigFiles <- MCConfigFiles
    TraceFiles <- MCTraceFiles
    Menu <- MCMenu
    Lines <- MCLines
    MaxAttempts = 2
    MaxFaults = 2
    CSVBuffer = 3
    BinaryBuffer = 2
    JainIndexes = {0, 1}
INVARIANTS
    LastFlagWins
    OnlyValidRuns
    SweepCoversAxes
    LogIsPrefix
    EarlierRunsKept
    SuccessMeansWritten
    NoPartialComparison
CHECK_DEADLOCK FALSE

SPECIFICATION SystemSpec
CHECK_DEADLOCK FALSE
CONSTANTS
    Makers = {TRUE, FALSE}
    WaitBars = 4
    Closes = {10, 12, 13}
    BarsPerDay = 3
    Size = 50
    Drawdown = 150
    DayLoss = 120
    CoolLosses = 1
    MaxLosses = 2
    CoolBars = 2
    MaxBar = 3
    MaxSteps = 3
    Has = {0, 1, 2, 4, 5, 6, 7}
    Starts = {0, 2, 4}
    Batch = 2
    Checkpoint = 2
    FirstBar = 3
    LastBar = 7
    MaxFaults = 2
    Listed = 0
    Days = {2, 7}
    Full = 2
    CoverageMin = 60
    FirstRate = 8
    MaxRate = 11
    MaxUpsets = 2
    Workers = {"a", "b"}
    PerDay = 2
    RestDays = 1
    FullTrades = 2
    FlushEvery = 2
    FirstTrade = 3
    MaxTrade = 7
    MaxImports = 1
    MaxTroubles = 1
    Sweepers = {"p", "q"}
    Cells = {"c"}
    MaxEdits = 2
    ClassOf <- ClassSources
    MaxSnags = 2
    Recorders = {"r1", "r2"}
    MaxEvents = 4
    MaxMishaps = 1
    Researchers = {"x", "y"}
    MaxDay = 2
    Callers = {"c1", "c2"}
    Retries = 3
    LimitPause = 2
    NetPause = 1
    MaxClock = 4
INVARIANTS
    ComponentsTypeOK
    LedgerBalances
    DownloadCoversPeriod
    ReturnedIsCovered
    RestLeavesNoGap
    ReceivedIsKept
    OwnPauseIsKept
    PassedIsCurrent
    StoredIsCounted
    BurnedStaysBurned
    ExposureBounded
PROPERTIES
    BreakerStaysFlat
    LadderTakesProfit
    LostOnlyToRace
    CachesAreKept

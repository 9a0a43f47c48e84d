SPECIFICATION Spec
CHECK_DEADLOCK FALSE
CONSTANTS
    Savers = {"runner", "api"}
    Bots = {"bot"}
    Requests = {"kill", "noNew", "resume", "botPause", "botResume"}
    MaxRequests = 3
    Symbols = {1, 2}
    Limit = 2
    MaxTrades = 3
    MaxBreaks = 1
    MaxMisses = 1
    Interval = 3
    Life = 6
    MaxFailures = 3
INVARIANTS
    TypeOK
    SerialUpdatesHold
    LoggedOncePerBreak
    QuietKeysLive
PROPERTIES
    TornHeals
    TradesAreLogged
    ListensAgain

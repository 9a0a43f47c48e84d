SPECIFICATION FairSpec
CONSTANTS
    Size = 1
    WaitBars = 2
    MaxOrders = 2
    MaxUpsets = 1
    Faults = {"cancel", "fetch", "lost", "poll"}
    Operator = {"pause", "resume"}
    Signals <- OneWay
    Sync = TRUE
INVARIANTS TypeOK
PROPERTIES ImplementsBook DriftIsSettled NeverPaperOnLive OrdersDoNotRest
CHECK_DEADLOCK FALSE

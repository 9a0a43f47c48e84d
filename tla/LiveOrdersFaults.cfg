SPECIFICATION FairSpec
CONSTANTS
    MaxOrders = 2
    Size = 2
    MaxBars = 2
    Policy = "cancel"
    Faults = {"cancel", "fetch", "stream", "submit"}
    MaxRestarts = 1
    Breaker = FALSE
INVARIANTS TypeOK OneFittingOrder
PROPERTIES ImplementsLedger DriftIsSettled
CHECK_DEADLOCK FALSE

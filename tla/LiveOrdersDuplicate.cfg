SPECIFICATION Spec
CONSTANTS
    MaxOrders = 2
    Size = 2
    MaxBars = 1
    Policy = "cancel"
    Faults = {}
    MaxRestarts = 1
    Breaker = FALSE
INVARIANTS NoDuplicateOrder
CHECK_DEADLOCK FALSE

SPECIFICATION Spec
CONSTANTS
    PoolSize = 1
    MaxOrders = 2
    MaxEvents = 4
CHECK_DEADLOCK FALSE
INVARIANT
    DuplicateRepeatsItsOrder

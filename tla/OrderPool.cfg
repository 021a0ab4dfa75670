SPECIFICATION Spec
CONSTANTS
    PoolSize = 2
    MaxOrders = 4
    MaxEvents = 7
CHECK_DEADLOCK FALSE
INVARIANTS
    TypeOK
    ChainInOrder
    NothingAfterTheEnd
    FreshEventsAreUnique

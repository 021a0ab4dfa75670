SPECIFICATION FairSpec
CONSTANTS
    e1 = e1
    e2 = e2
    o1 = o1
    EventIds <- TwoEvents
    OrderOf <- TwoOrderOf
    Window = 0
    BatchLimit = 2
    ConnectAttempts = 2
    MaxTime = 1
    MaxFaults = 2
    MaxRestarts = 1
CHECK_DEADLOCK FALSE
INVARIANTS
    TypeOK
    MarkedImpliesOnTopic
    InMemoryAgrees
    BoundedDuplication
    CounterNeverOverstates
PROPERTIES
    ImplementsOutbox
    EventuallySettled

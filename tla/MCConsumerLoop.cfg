SPECIFICATION Spec
CONSTANTS
    c1 = c1
    c2 = c2
    p1 = p1
    p2 = p2
    k1 = k1
    Malformed = Malformed
    NoConsumer = NoConsumer
    NoMessage = NoMessage
    Consumers <- TwoReplicas
    Partitions <- TwoPartitions
    Keys <- OneKey
    MaxRetries = 2
    MaxLog = 2
    MaxDbFaults = 2
    MaxBrokerFaults = 1
    MaxRebalances = 1
    MaxRestarts = 1
CHECK_DEADLOCK FALSE
INVARIANTS
    TypeOK
    CommittedIsSettled
    HandledInOrder
    PositionsAccountedFor
    HandlingIsSound
    OneNotificationPerKey
    DeadLetterNeedsFailures
    CreatedCountsRows
PROPERTIES
    CommitNeverRewinds
    ImplementsLedger

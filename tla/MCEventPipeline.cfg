SPECIFICATION FairSpec
CONSTANTS
    e1 = e1
    e2 = e2
    o1 = o1
    c1 = c1
    c2 = c2
    EventIds <- OneEvent
    KeyOf <- SameKey
    Window = 0
    BatchLimit = 1
    ConnectAttempts = 1
    MaxTime = 0
    MaxFaults = 1
    MaxRestarts = 0
    Consumers <- TwoReplicas
    Partition = p1
    Malformed = Malformed
    NoConsumer = NoConsumer
    NoMessage = NoMessage
    MaxRetries = 2
    MaxLog = 3
    MaxDbFaults = 1
    MaxBrokerFaults = 0
    MaxRebalances = 1
    MaxReplicaRestarts = 1
CHECK_DEADLOCK FALSE
INVARIANTS
    MarkedIsHandled
PROPERTIES
    DeliversOnce
    AllPassed
    EventuallyHandled

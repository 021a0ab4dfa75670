SPECIFICATION FairSpec
CONSTANTS
    c1 = c1
    c2 = c2
    p1 = p1
    p2 = p2
    k1 = k1
    Malformed = Malformed
    NoConsumer = NoConsumer
    NoMessage = NoMessage
    Consumers <- OneReplica
    Partitions <- OnePartition
    Keys <- OneKey
    MaxRetries = 2
    MaxLog = 2
    MaxDbFaults = 0
    MaxBrokerFaults = 1
    MaxRebalances = 0
    MaxRestarts = 0
CHECK_DEADLOCK FALSE
PROPERTY
    PartitionNeverBlocked

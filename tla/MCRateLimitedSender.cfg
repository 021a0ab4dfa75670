SPECIFICATION FairSpec
CONSTANTS
    r1 = r1
    r2 = r2
    r3 = r3
    Requests <- ThreeRequests
    HealthAttempts = 2
    MaxConcurrent = 2
    SenderRetries = 2
    MaxTokens = 1
CHECK_DEADLOCK FALSE
INVARIANTS
    TypeOK
    PermitsConserved
    RowsBoundedByAttempts
    SuccessIsReal
    NothingAfterClose
PROPERTY
    EveryRequestEnds

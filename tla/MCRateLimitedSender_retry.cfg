SPECIFICATION Spec
CONSTANTS
    r1 = r1
    r2 = r2
    r3 = r3
    Requests <- TwoRequests
    HealthAttempts = 2
    MaxConcurrent = 0
    SenderRetries = 2
    MaxTokens = 1
CHECK_DEADLOCK FALSE
INVARIANT
    RetriedWhileUnreachable

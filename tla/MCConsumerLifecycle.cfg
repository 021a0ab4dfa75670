SPECIFICATION FairSpec
CONSTANTS
    AttemptSettings <- NoneOneOrThree
    MaxFaults = 3
CHECK_DEADLOCK FALSE
INVARIANTS
    TypeOK
    LoopHasItsClients
    LostNeedFaults
    CleanEnd
PROPERTY
    StartsAndEnds

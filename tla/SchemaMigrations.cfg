SPECIFICATION Spec
CONSTANTS
    Keys = {k1}
    MaxRows = 2
    MaxFaults = 2
CHECK_DEADLOCK FALSE
INVARIANTS
    SchemaIsOfRevision
    HeadIsDeclared
PROPERTY
    UpgradeKeepsData

SPECIFICATION FairSpec
CONSTANTS
    MaxRevisions = 2
    MaxFaults = 1
    MaxRows = 2
INVARIANTS
    Inv
    GoalsAreOwned
    ReportIsHonest
PROPERTIES
    AckIsEarned
    FaultDrains
CHECK_DEADLOCK FALSE

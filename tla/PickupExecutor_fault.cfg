SPECIFICATION FairSpec
CONSTANTS
    Plans <- HeldRelease
    MaxEdits = 0
PROPERTIES
    FaultsEnd
CHECK_DEADLOCK FALSE

SPECIFICATION FairSpec
CONSTANTS
    Slots = 2
    MaxQuota = 2
    MaxChanges = 0
PROPERTIES
    CancelSettles
CHECK_DEADLOCK FALSE

SPECIFICATION FairSpec
CONSTANTS
    Slots = 3
    MaxQuota = 3
    MaxChanges = 2
INVARIANTS
    Inv
    MotionIsOwned
    OutcomeIsTrue
PROPERTIES
    NextIsEarned
    RunEnds
CHECK_DEADLOCK FALSE

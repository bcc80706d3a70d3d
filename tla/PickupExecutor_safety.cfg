SPECIFICATION FairSpec
CONSTANTS
    Plans <- AllKinds
    MaxEdits = 1
INVARIANTS
    Inv
    ReportedFaultIsTrue
PROPERTIES
    MotionIsFenced
    GatedByPeople
    SceneIsKept
    SilenceStopsTheRun
CHECK_DEADLOCK FALSE

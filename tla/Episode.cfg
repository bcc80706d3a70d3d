SPECIFICATION FairSpec
CONSTANTS
    Plans <- TwoPlans
    MaxFaults = 2
INVARIANTS
    Inv
    StopIsKnown
    CommitIsEarned
PROPERTIES
    DemonstrationIsRecorded
    CellReadyIsEarned
    EpisodeSettles
CHECK_DEADLOCK FALSE

SPECIFICATION FairSpec
CONSTANTS
    Delay = 1
    Patience = 2
    Fps = 2
    QueueSize = 1
    LastCommand = 2
    MaxTrims = 1
    MaxFaults = 1
INVARIANTS
    Inv
    EpisodeIsWhole
PROPERTIES
    FreezeEnds
CHECK_DEADLOCK FALSE

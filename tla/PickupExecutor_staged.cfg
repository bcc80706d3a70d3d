SPECIFICATION Spec
CONSTANTS
    Plans <- TwoStageRelease
    MaxEdits = 0
INVARIANTS
    StopIsConfirmed
CHECK_DEADLOCK FALSE

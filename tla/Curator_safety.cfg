SPECIFICATION Spec
CONSTANTS
    Runs = {r1, r2}
    Processes = {p1, p2}
    Nobody = Nobody
    MaxMishaps = 2
SYMMETRY Symmetry
INVARIANTS
    Inv
    RunsLoad
    ReceiptIsTrue
    DecisionHolds
PROPERTIES
    PublishedIsApproved
CHECK_DEADLOCK FALSE

SPECIFICATION Spec
CONSTANTS
    r1 = r1
    r2 = r2
    Runs = {r1, r2}
    Recorded = {r1}
    Requests <- AsksFirst
    Recipes = {c1, c2}
    Processes = {p1, p2}
    Nobody = Nobody
    None = None
SYMMETRY Symmetry
INVARIANTS
    Inv
    InventoryIsReviewed
    ManifestsAreOwn
PROPERTIES
    AcceptedIsApproved

SPECIFICATION FairSpec
CONSTANTS
    Runs = {r1, r2}
    Recoverers = {q1}
    Cameras = {c1}
    MaxFaults = 1
    NoGuard = NoGuard
    NoManifest = NoManifest
    NoProcess = NoProcess
    Unowned = Unowned
INVARIANTS
    Inv
    DatasetIsTruthful
    TransactionIsExclusive
PROPERTIES
    ImplementsAtomicDataset
    GuardIsHonoured
    LockIsGivenBack
CHECK_DEADLOCK FALSE

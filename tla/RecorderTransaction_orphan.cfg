SPECIFICATION Spec
CONSTANTS
    Runs = {r1}
    Recoverers = {q1}
    Cameras = {c1}
    MaxFaults = 0
    NoGuard = NoGuard
    NoManifest = NoManifest
    NoProcess = NoProcess
    Unowned = Unowned
PROPERTIES
    OrphansRecover
CHECK_DEADLOCK FALSE

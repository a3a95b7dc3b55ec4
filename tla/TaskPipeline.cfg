\* Two tasks and the offline processor share the slot through a maintenance
\* window and a retry.
SPECIFICATION Spec
CONSTANTS
    Requests = {r1, r2}
    MaxAttempts = 2
    InitBackups = {}
    MaxCrashes = 0
    MaxWindows = 1
SYMMETRY Symmetry
INVARIANTS
    TypeOK
    UploadsSerialised

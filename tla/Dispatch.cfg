\* Two requests, two goroutines, a limit the site moves between 1 and 2,
\* one crash (and any number of graceful stops and restarts).
SPECIFICATION Spec
CONSTANTS
    Requests = {r1, r2}
    Slots = {g1, g2}
    MaxDLValues = {1, 2}
    AbortThreshold = 2
    MaxCrashes = 1
SYMMETRY Symmetry
INVARIANTS
    TypeOK
    OneTaskPerRequest
    PauseStopsDispatch
PROPERTIES
    CapacityRespected
    GracefulStop
    NoWorkInCooldown

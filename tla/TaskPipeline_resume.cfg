\* One request dispatched again and again, without any crash.
SPECIFICATION Spec
CONSTANTS
    Requests = {r1}
    MaxAttempts = 3
    InitBackups = {}
    MaxCrashes = 0
    MaxWindows = 0
INVARIANT CompletedIsWhole

\* One task against the offline processor, two maintenance windows, the real
\* three attempts, and a crash after which its backup is backfilled.
SPECIFICATION FairSpec
CONSTANTS
    Requests = {r1}
    MaxAttempts = 3
    InitBackups = {}
    MaxCrashes = 1
    MaxWindows = 2
PROPERTIES
    FinishedWorkKept
    NobodyStuck

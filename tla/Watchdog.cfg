SPECIFICATION FairSpec
CONSTANTS
    VPNRestartAfter = 10
    HardExitAfter = 20
    VPNCooldown = 6
    RestartMax = 2
    HttpTimeout = 4
    Backoff = 1
    Waits = {1, 4}
    VPNPath = 1
INVARIANTS BlackoutBounded
PROPERTIES NoNeedlessRestart SavedBeforeExit TunnelRestored

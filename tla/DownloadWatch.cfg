SPECIFICATION FairWatchSpec
CONSTANTS
    Total = 8
    Late = 7
    SlowThreshold = 2
    Timeout = 3
    FullGate = 2
    MetaTimeout = 2
    SeedTime = 2
    MaxGap = 2
    Options <- MCOptions
INVARIANTS RejectionJustified
PROPERTIES RejectionAnnounced DeadTorrentDropped EndsWhenTold
CHECK_DEADLOCK FALSE

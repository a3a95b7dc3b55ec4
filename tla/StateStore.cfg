SPECIFICATION StoreSpec
CONSTANTS
    Names <- MCNames
    MaxCrashes = 2
INVARIANTS FileTrustworthy ResumableKept

\* Two entries, re-detected after a deletion; two retries, a failing statement
\* and a crash at any point.
SPECIFICATION FairSpec
CONSTANTS
    p1 = p1
    p2 = p2
    t1 = t1
    t2 = t2
    Paths = {p1, p2}
    Groups = {g1}
    TitleOf <- OwnTitles
    MaxJobs = 2
    MaxRetries = 2
    MaxDbErrors = 1
    MaxCrashes = 1
CHECK_DEADLOCK FALSE
INVARIANTS
    ProcessingIsOwned
    CompletedHasNzb
PROPERTIES
    SelectReturnsClaim
    JobSettles

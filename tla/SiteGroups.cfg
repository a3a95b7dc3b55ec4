\* Two names, two edits, two writes by the operator, one failing statement and
\* one restart, in any order.
SPECIFICATION FairSpec
CONSTANTS
    Names = {n1, n2}
    MaxEdits = 2
    MaxOps = 2
    MaxDbErrors = 1
    MaxRestarts = 1
INVARIANTS
    UpToDate
    NoStaleRows
PROPERTIES
    OverrideKept
    EditShowsUp

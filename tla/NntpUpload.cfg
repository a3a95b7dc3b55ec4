\* Two connections over a file of five chunks that was six when it was
\* stat-ed: the jobs channel (capacity 4) can fill while a chunk waits.
SPECIFICATION FairSpec
CONSTANTS
    Workers = {w1, w2}
    TotalChunks = 6
    FileChunks = 5
    MaxRetries = 2
CHECK_DEADLOCK FALSE
INVARIANTS
    TypeOK
    SuccessIsComplete
    SegmentsNamePostedArticles
    ConnectionsReleased
PROPERTIES
    NothingHangs
    PromiseKept

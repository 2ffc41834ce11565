\* Documentation: cancelled runs discard private review bytes.
SPECIFICATION JobsSpec
CONSTANTS
    kid = kid
    r1 = r1
    r2 = r2
    d1 = d1
    d2 = d2
    NoImage = NoImage
    NoRun = NoRun
    NoKey = NoKey
    Owners = {kid}
    Runs = {r1}
    OwnerOf <- MCOwnerOf
    Digests = {d1}
    Plan <- MCImage
    MaxRevision = 0
    ReviewLimit = 1
    QueueLimit = 1
    HistoryLimit = 1
    MaxRestarts = 0
    MaxCalls = 2
INVARIANTS
    CancelledRunsDiscardBytes
\* A stopped or dead worker and exhausted bounds end a behaviour.
CHECK_DEADLOCK FALSE

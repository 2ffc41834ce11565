\* Two runs share the worker, the queue and one review slot; or one run and a
\* birthdate change at any moment.
SPECIFICATION JobsSpec
CONSTANTS
    kid = kid
    r1 = r1
    r2 = r2
    d1 = d1
    d2 = d2
    NoImage = NoImage
    NoRun = NoRun
    NoKey = NoKey
    Owners = {kid}
    Runs = {r1, r2}
    OwnerOf <- MCOwnerOf
    Digests = {d1}
    Plan <- MCImage
    MaxRevision = 1
    ReviewLimit = 1
    QueueLimit = 2
    HistoryLimit = 2
    MaxRestarts = 0
    MaxCalls = 1
INVARIANTS
    NeverWaitsInVain
    CompletedRunsDiscardBytes
CONSTRAINT
    OneStory
SYMMETRY
    Symmetry
\* A stopped or dead worker and exhausted bounds end a behaviour.
CHECK_DEADLOCK FALSE

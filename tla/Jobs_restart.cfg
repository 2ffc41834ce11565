\* One run, a restart at any moment, up to two handlers in progress; and, once it
\* completed or was deleted, a second run that copies what the first one made.
SPECIFICATION JobsSpec
CONSTANTS
    kid = kid
    r1 = r1
    r2 = r2
    d1 = d1
    d2 = d2
    NoImage = NoImage
    NoRun = NoRun
    NoKey = NoKey
    Owners = {kid}
    Runs = {r1, r2}
    OwnerOf <- MCOwnerOf
    Digests = {d1}
    Plan <- MCImageOrCopy
    MaxRevision = 0
    ReviewLimit = 1
    QueueLimit = 2
    HistoryLimit = 2
    MaxRestarts = 1
    MaxCalls = 2
INVARIANTS
    JobsTypeOK
    WorkerOwnsRunning
PROPERTIES
    LifecyclePromise
    ImplementsContentReview
CONSTRAINT
    CopyStory
\* A stopped or dead worker and exhausted bounds end a behaviour.
CHECK_DEADLOCK FALSE

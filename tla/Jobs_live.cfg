\* What a server that is not restarted does eventually.
SPECIFICATION FairJobsSpec
CONSTANTS
    kid = kid
    r1 = r1
    r2 = r2
    d1 = d1
    d2 = d2
    NoImage = NoImage
    NoRun = NoRun
    NoKey = NoKey
    Owners = {kid}
    Runs = {r1}
    OwnerOf <- MCOwnerOf
    Digests = {d1, d2}
    Plan <- MCImageCopyImage
    MaxRevision = 0
    ReviewLimit = 2
    QueueLimit = 1
    HistoryLimit = 1
    MaxRestarts = 0
    MaxCalls = 1
PROPERTIES
    NoStepRepeats
    QueuedRunIsTaken
    RunningRunRests
    ReadyRunResumes
\* A stopped or dead worker and exhausted bounds end a behaviour.
CHECK_DEADLOCK FALSE

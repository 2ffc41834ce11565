\* Documentation: newly adult users resume without a restart.
SPECIFICATION FairJobsSpec
CONSTANTS
    kid = kid
    r1 = r1
    r2 = r2
    d1 = d1
    d2 = d2
    NoImage = NoImage
    NoRun = NoRun
    NoKey = NoKey
    Owners = {kid}
    Runs = {r1, r2}
    OwnerOf <- MCOwnerOf
    Digests = {d1}
    Plan <- MCImage
    MaxRevision = 0
    ReviewLimit = 2
    QueueLimit = 2
    HistoryLimit = 2
    MaxRestarts = 0
    MaxCalls = 1
PROPERTIES
    NewlyAdultRunResumes
CONSTRAINT
    ShortStory
\* A stopped or dead worker and exhausted bounds end a behaviour.
CHECK_DEADLOCK FALSE

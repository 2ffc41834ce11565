SPECIFICATION Spec
CONSTANTS
    a = a
    b = b
    s1 = s1
    s2 = s2
    d1 = d1
    NoJob = NoJob
    NoOne = NoOne
    Servers = {a, b}
    Sources = {s1, s2}
    Kinds = {TRUE, FALSE}
    Docs = {d1}
    Limit = 1
    HistoryLimit = 1
    Scheduled = {s1}
    Listers = {a}
    MaxJobs = 2
    MaxRevision = 2
    MaxCrashes = 1
CONSTRAINT
    Story
INVARIANTS
    TypeOK
    OneWriter
    RunningBounded
    AliveIsRunning
    CancelledNeverSucceeds
    NothingSkipped
    ReadsEnabledOnly
    NoSlotLost
    ShownSyncing
PROPERTIES
    SyncPromise
    IndexPromise

SPECIFICATION FairSpec
CONSTANTS
    a = a
    b = b
    s1 = s1
    s2 = s2
    d1 = d1
    NoJob = NoJob
    NoOne = NoOne
    Servers = {a}
    Sources = {s1, s2}
    Kinds = {TRUE}
    Docs = {}
    Limit = 1
    HistoryLimit = 1
    Scheduled = {s2}
    Listers = {}
    MaxJobs = 2
    MaxRevision = 1
    MaxCrashes = 1
PROPERTIES
    JobsEnd
    DueRuns

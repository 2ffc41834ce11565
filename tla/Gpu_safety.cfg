CONSTANTS
    i1 = i1
    i2 = i2
    c1 = c1
    c2 = c2
    mesh = mesh
    monitor = monitor
    NoJob = NoJob
    Images = {i1, i2}
    Chats = {c1, c2}
    Recovery = monitor
    Hunyuan = mesh
    Local = TRUE
    AutoRestart = TRUE
    RestartBudget = 3
    FailureLimit = 3
    MaxCrashes = 1
SPECIFICATION Spec
SYMMETRY Symmetry
INVARIANTS
    ImageJobsAreAlone
    TypeOK
    UnquietIsReserved
    ChatNeverMeetsImage
    ChatsUseTheAlternate
    RestartsNeedFailures
PROPERTIES
    SharingPromise

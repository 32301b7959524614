CONSTANTS
    c1 = c1
    c2 = c2
    t1 = t1
    t2 = t2
    LogThread = LogThread
    NoThread = NoThread
    NoTag = NoTag
    ErrorTag = t1
    NoFile = NoFile
    GlobalPath = GlobalPath
    Hole = Hole
    Clients = {c1, c2}
    Tags = {t1}
    PathOf <- OwnPaths
    Program <- LogAndManage
    Budget <- Twice
    MaxBurst = 2
    ChunkCounts = {2}
    FlushEvery = 2
    MaxStringLen = 1
    MayFail = TRUE
SPECIFICATION Spec
INVARIANTS
    TypeOK
    NothingLost
    AsleepFlushed
    UnflushedBound
PROPERTIES
    SinksInOrder
    ImplementsDurableLog
CHECK_DEADLOCK FALSE

CONSTANTS
    c1 = c1
    c2 = c2
    t1 = t1
    t2 = t2
    LogThread = LogThread
    NoThread = NoThread
    NoTag = NoTag
    ErrorTag = NoTag
    NoFile = NoFile
    GlobalPath = GlobalPath
    Hole = Hole
    Clients = {c1, c2}
    Tags = {t1, t2}
    PathOf <- OwnPaths
    Program <- LogAndRegister
    Budget <- TwiceAndOnce
    MaxBurst = 1
    ChunkCounts = {0, 1}
    FlushEvery = 2
    MaxStringLen = 1
    MayFail = FALSE
SPECIFICATION FairSpec
INVARIANTS
    ContextFiltered
    NoSleepOnQueue
PROPERTIES
    ContextAppendOnly
    EveryLogWritten
CHECK_DEADLOCK FALSE

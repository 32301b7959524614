CONSTANTS
    c1 = c1
    c2 = c2
    t1 = t1
    t2 = t2
    LogThread = LogThread
    NoThread = NoThread
    NoTag = NoTag
    ErrorTag = NoTag
    NoFile = NoFile
    GlobalPath = GlobalPath
    Hole = Hole
    Clients = {c1, c2}
    Tags = {}
    PathOf <- OwnPaths
    Program <- LogAndWait
    Budget <- Twice
    MaxBurst = 2
    ChunkCounts = {1}
    FlushEvery = 2
    MaxStringLen = 1
    MayFail = FALSE
SPECIFICATION Spec
PROPERTIES
    WaitedLogsOnDisk
CHECK_DEADLOCK FALSE

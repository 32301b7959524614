CONSTANTS
    c1 = c1
    c2 = c2
    Clients = {c1, c2}
    LogThread = LogThread
    NoThread = NoThread
    Setups <- AllSetups
    Budget <- TwiceAndOnce
    FlushEvery = 2
    HookMessages = 2
SPECIFICATION FairSpec
INVARIANTS
    TypeOK
    DeadlocksFromSinks
PROPERTIES
    CallsReturn
    PanicLineFlushed
CHECK_DEADLOCK FALSE

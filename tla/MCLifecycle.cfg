CONSTANTS
    t1 = t1
    t2 = t2
    t3 = t3
    k1 = k1
    k2 = k2
    Threads = {t1, t2, t3}
    Configs = {k1, k2}
    NoConfig = NoConfig
    MaxLevel = 1
    Program <- InitAndUse
    Budget <- FirstTwice
SPECIFICATION FairSpec
INVARIANTS
    TypeOK
    OneLogThread
    ServedOnceKnown
PROPERTIES
    FirstInitWins
    InitReturns
CHECK_DEADLOCK FALSE

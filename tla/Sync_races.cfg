SPECIFICATION SyncFairSpec
CONSTANTS
    Scheduler = {s1, s2}
    Pair = {p1}
    DBCands = 1
    FlagRootCause = FALSE
    PollMax = 1
    QueueThold = 1
    NumToPop = 1
    SoftLimit = 1
    HardLimit = 10
    MaxEvents = 0
PROPERTIES
    RaceHashArrives

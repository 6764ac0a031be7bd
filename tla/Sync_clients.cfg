SPECIFICATION SyncSpec
CONSTANTS
    Scheduler = {s1, s2}
    Pair = {p1}
    DBCands = 2
    FlagRootCause = TRUE
    PollMax = 1
    QueueThold = 1
    NumToPop = 2
    SoftLimit = 0
    HardLimit = 1
    MaxEvents = 2
INVARIANTS
    SyncTypeOK NeverOverSuppressed CandidateHeldOnce DBCandidatesFirst
    InputsNotLost KnownRacesReported LikelyNotTrue
SYMMETRY SchedulerSymmetry

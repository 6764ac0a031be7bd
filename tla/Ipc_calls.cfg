SPECIFICATION IpcSpec
CONSTANTS
    MaxTry = 1
    AbortIsKill = FALSE
    MaxProgs = 3
INVARIANTS
    IpcTypeOK OwnAnswer NothingLeftBehind TimerJoined
PROPERTIES
    CallReturns
CHECK_DEADLOCK FALSE

SPECIFICATION ExSpec
CONSTANTS
    Code = {1}
    HypercallAddr = 9
    Addr = {1}
    Tid = {1}
    Sched = {0}
    Index = {0, 1}
    MaxProgs = 2
INVARIANT
    ReportedRaceOccurred

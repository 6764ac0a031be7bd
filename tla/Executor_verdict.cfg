\* Two requests, each child of which may be cut short, and a foreign thread on
\* the vCPUs of the workers.
SPECIFICATION ExSpec
CONSTANTS
    Code = {1}
    HypercallAddr = 9
    Addr = {1}
    Tid = {1, 2}
    Sched = {0}
    Index = {0, 1}
    MaxProgs = 2
INVARIANTS
    CommandsSucceed
    VerdictSurvivesKills
    VerdictsAgree
PROPERTY
    VerdictIsTrue

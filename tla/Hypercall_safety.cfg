\* An open guest on two vCPUs: START on one racy instruction or on the
\* hypercall nop itself, one data address, one guest thread, vCPU 0 first.
SPECIFICATION Spec
CONSTANTS
    Code = {1, 9}
    HypercallAddr = 9
    Addr = {1}
    Tid = {1}
    Sched = {0}
INVARIANTS
    TypeOK
    SleepersKnown
    WaitConcluded
    StepExpected
    NoLostWakeup
PROPERTY
    BreakpointsTracked

SPECIFICATION Spec
CONSTANTS
    Proc = {p1, p2, p3, p4}
    C = 3
    MaxRounds = 2
INVARIANTS
    GateTypeOK SlotsHeld WindowBounded CalledPerBatch
PROPERTIES
    CalledAlone AllServed
CHECK_DEADLOCK FALSE

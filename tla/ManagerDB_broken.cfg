SPECIFICATION Spec
CONSTANTS
    Prog = {p1, p2}
    Hash = {h1}
    Key <- MCKey
    Val <- MCVal
    None = None
    Batch = 3
    MaxLog = 3
    MaxInterrupts = 1
INVARIANTS
    NeverBrokenDB

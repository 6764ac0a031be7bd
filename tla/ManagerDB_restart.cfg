SPECIFICATION Spec
CONSTANTS
    Prog = {p1, p2}
    Hash = {h1}
    Key <- MCKey
    Val <- MCVal
    None = None
    Batch = 3
    MaxLog = 4
    MaxInterrupts = 1
INVARIANTS
    MgrTypeOK RemovalFindsInfo CorporaOnDisk CleanRestart

SPECIFICATION Spec
CONSTANTS
    Name = {n1}
    Key = {k1, k2}
    Val = {v1, v2}
    None = None
    Batch = 3
    MaxLog = 4
INVARIANTS
    DBTypeOK MirroredIfIntact OpensToPastContent FileBounded

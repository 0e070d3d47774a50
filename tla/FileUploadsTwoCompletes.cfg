CONSTANTS
    t1 = t1
    t2 = t2
    f1 = f1
    NoRow = NoRow
    NoFile = NoFile
    Chunks = 2
    Files = {f1}
    Tenants = {t1}
    IndexInputs <- OnlyValid
    Total <- MCTotal
    Owner <- MCOwner
    Chunkers = {u1, u2}
    Completers = {c1, c2}
    Removers = {}
    Sweepers = {}
    MaxFaults = 0
SPECIFICATION Spec
CHECK_DEADLOCK FALSE
INVARIANT ReadyFileIsWhole

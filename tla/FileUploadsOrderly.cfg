CONSTANTS
    t1 = t1
    t2 = t2
    f1 = f1
    NoRow = NoRow
    NoFile = NoFile
    Chunks = 2
    Files = {f1}
    Tenants = {t1}
    IndexInputs <- OnlyValid
    Total <- MCTotal
    Owner <- MCOwner
    Chunkers = {u1, u2}
    Completers = {c1}
    Removers = {}
    Sweepers = {s1, s2}
    MaxFaults = 1
SPECIFICATION FairSpec
CHECK_DEADLOCK FALSE
INVARIANT ReadyFileIsWhole
PROPERTIES ExpiredUploadsEnd ReadyTempCleaned

CONSTANTS
    t1 = t1
    t2 = t2
    f1 = f1
    NoRow = NoRow
    NoFile = NoFile
    Chunks = 2
    Files = {f1}
    Tenants = {t1, t2}
    IndexInputs <- MCIndexInputs
    Total <- MCTotal
    Owner <- MCOwner
    Chunkers = {u1, u2}
    Completers = {c1, c2}
    Removers = {d1}
    Sweepers = {s1}
    MaxFaults = 1
SPECIFICATION SafetySpec
CHECK_DEADLOCK FALSE
SYMMETRY ClientSymmetry
INVARIANTS TypeOK ReadyHasEveryChunk CounterCountsChunks IInv TalliesInv
PROPERTIES NeverReopened ImplementsLifecycle

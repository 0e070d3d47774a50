CONSTANTS
    Same = Same
    NoTask = NoTask
    Tasks = {t1}
    Users = {u1, u2}
    Creators = {c1}
    Updaters = {p1}
    Deleters = {d1}
    Senders <- MCSenders
    Lists <- MCLists
    Lengths = {0, 1, 2}
    Attempts = 2
    MaxStalled = 1
    MaxFaults = 3
SPECIFICATION Spec
CHECK_DEADLOCK FALSE
SYMMETRY TaskSymmetry
INVARIANTS TypeOK CompletedMeansNotified DuplicatesBounded TasksInv
PROPERTY ImplementsDelivery

CONSTANTS
    Same = Same
    NoTask = NoTask
    Tasks = {t1}
    Users = {u1}
    Creators = {c1}
    Updaters = {p1, p2}
    Deleters = {d1}
    Senders <- MCSenders
    Lists <- MCLists
    Lengths = {0, 1}
    Attempts = 2
    MaxStalled = 1
    MaxFaults = 2
SPECIFICATION FairSpec
CHECK_DEADLOCK FALSE
PROPERTIES AssigneesAreNotified JobsEnd LoneUpdatesFit

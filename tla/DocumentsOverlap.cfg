CONSTANTS
    NoDoc = NoDoc
    c1 = c1
    p1 = p1
    Casts <- Everyone
    None = None
    Docs = {d1}
    Creators = {c1}
    Updaters = {p1, p2}
    Removers = {}
    Commenters = {}
    Listers = {}
    MaxTies = 1
    MaxFaults = 0
SPECIFICATION Spec
CHECK_DEADLOCK FALSE
PROPERTY NoLostUpdate

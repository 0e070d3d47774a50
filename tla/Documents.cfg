CONSTANTS
    NoDoc = NoDoc
    None = None
    c1 = c1
    p1 = p1
    Docs = {d1}
    Creators = {c1}
    Updaters = {p1, p2, p3}
    Removers = {x1}
    Commenters = {m1}
    Listers = {l1, l2}
    Casts <- WritersOrLists
    MaxTies = 1
    MaxFaults = 1
SPECIFICATION Spec
CHECK_DEADLOCK FALSE
SYMMETRY RequestSymmetry
INVARIANTS FreshLists DocumentsInv ListsInv
PROPERTIES LoneUpdatesFit SpentVersionRefused

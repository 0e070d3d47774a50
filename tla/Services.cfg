CONSTANTS
    Requests = {q1, q2, q3, q4, q5}
    Limit = 2
    MaxFaults = 1
    Rows = {r1, r2, r3, r4, r5}
    PageSize = 2
    MaxChanges = 3
    Users = {u1}
    Refreshers = {f1}
    NoToken = NoToken
    Second = 2
    AccessTTL = 1
    RefreshTTL = 2
    MaxNow = 8
    MaxSessions = 1
    MaxUrls = 1
    File = File
    Undefined = Undefined
    Downloads = {g1}
    Completers = {k1, k2}
    Removers = {x1}
    Gets = {h1}
    Sizes = {1, 3}
    MaxPosition = 3
    Headers <- MCHeaders
    Open = Open
    Malformed = Malformed
    Whole = Whole
    NoUrl = NoUrl
    UrlTTL = 1
    MaxFailures = 1
SPECIFICATION ServicesSpec
CHECK_DEADLOCK FALSE
SYMMETRY CompletionSymmetry
INVARIANTS WindowLimit LimitInv WalksMissFew ListsWalked
INVARIANTS RangesFit BodiesAreWhole DownloadsInv
INVARIANTS SessionsEnd RefusedWhenOver
PROPERTIES  SignaturesExpire

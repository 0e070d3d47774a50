CONSTANTS
    Users = {u1}
    Refreshers = {f1}
    NoToken = NoToken
    Second = 2
    AccessTTL = 1
    RefreshTTL = 2
    MaxNow = 4
    MaxSessions = 1
    MaxUrls = 1
    File = File
    Undefined = Undefined
    Downloads = {g1}
    Completers = {k1}
    Removers = {x1}
    Gets = {h1}
    Sizes = {1}
    MaxPosition = 1
    Headers <- MCHeaders
    Open = Open
    Malformed = Malformed
    Whole = Whole
    NoUrl = NoUrl
    UrlTTL = 1
    MaxFailures = 0
SPECIFICATION DownloadsSpec
CHECK_DEADLOCK FALSE
PROPERTY SignaturesDownload

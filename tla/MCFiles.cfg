SPECIFICATION FilesSpec
CONSTANTS
    None = None
    Unset = Unset
    Star = Star
    Versions <- MCVersions
    Calls <- MCCalls
    SmallSize = 3
    PieceSize = 2
    Files = {f1, f2}
    Requests = {q1, q2, q3}
    Threads = {t1}
    KeyLimit = 0
    MaxVersion = 2
    SizeOf <- MCSize
    Budget = 5
    MaxEntry = 3
    Caching = TRUE
INVARIANT BytesAsTold
INVARIANT ServedIsAsked
INVARIANT CacheIsRight
PROPERTY SettledIsServed
CHECK_DEADLOCK FALSE

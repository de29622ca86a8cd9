SPECIFICATION Safety
CHECK_DEADLOCK FALSE
CONSTANTS
    users = users
    p1 = p1
    a1 = a1
    r1 = r1
    r2 = r2
    adm = adm
    Streams = {users, p1}
    KeptStreams = {users}
    AggIds = {a1}
    Requests = {r1, r2}
    Restorers = {adm}
    BatchSize = 2
    MaxItems = 3
    Oddities = {"large", "ignored", "sealed"}
    MaxOdd = 1
    MaxReorgs = 1
    MaxCrashes = 0
    MaxNested = 0
INVARIANTS
    CursorDescribesCache
    RestoredCacheIsClean

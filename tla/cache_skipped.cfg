SPECIFICATION Safety
CHECK_DEADLOCK FALSE
CONSTANTS
    users = users
    p1 = p1
    a1 = a1
    r1 = r1
    Streams = {users, p1}
    KeptStreams = {users}
    AggIds = {a1}
    Requests = {r1}
    Restorers = {}
    BatchSize = 2
    MaxItems = 3
    Oddities = {"sealed"}
    MaxOdd = 1
    MaxReorgs = 0
    MaxCrashes = 0
    MaxNested = 1
INVARIANTS
    EachItemOnce

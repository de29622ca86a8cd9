SPECIFICATION Spec
CHECK_DEADLOCK FALSE
CONSTANTS
    users = users
    p1 = p1
    a1 = a1
    r1 = r1
    r2 = r2
    Streams = {users, p1}
    KeptStreams = {users}
    AggIds = {a1}
    Requests = {r1, r2}
    Restorers = {}
    BatchSize = 2
    MaxItems = 3
    Oddities = {"ignored"}
    MaxOdd = 1
    MaxReorgs = 0
    MaxCrashes = 1
    MaxNested = 1
INVARIANTS
    TypeOK
    RefreshMutex
    ReadsCoverListing
    AnswersAreNotEmpty
PROPERTIES
    ShowsPrefixes
    EveryRequestAnswered

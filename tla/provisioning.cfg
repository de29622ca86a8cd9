SPECIFICATION Spec
CHECK_DEADLOCK FALSE
CONSTANTS
    P = P
    S = S
    V = V
    W = W
    Q = Q
    Projects <- MCProjects
    ChildrenOf <- MCChildrenOf
    ToClose <- MCToClose
    Service = mstein
    Root = root
    None = None
    MaxTries = 1
    MaxTimeouts = 1
    MaxRuns = 2
    MaxApiRestarts = 1
INVARIANTS
    TypeOK
    EndedMeansComplete
    DuplicatesNeedTimeouts
    RefusalsHaveACause
    ClosedIsWhole
PROPERTIES
    EventuallyOver

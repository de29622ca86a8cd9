SPECIFICATION Spec
CHECK_DEADLOCK FALSE
CONSTANTS
    p = p
    s1 = s1
    i1 = i1
    i2 = i2
    root = root
    ann = ann
    NoOne = NoOne
    w1 = w1
    w2 = w2
    Project = p
    Subprojects = {s1}
    Items = {i1, i2}
    Users = {root, ann}
    Root = root
    Identities = {ann}
    Members <- MCMembers
    Data = {0}
    Times = {1}
    Orderings <- MCOrderings
    Prepared <- MCOneItem
    Workers = {w1, w2}
    MaxRequests = 3
PROPERTIES
    ClosedAfterTheChildren

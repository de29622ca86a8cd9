SPECIFICATION Spec
CHECK_DEADLOCK FALSE
CONSTANTS
    p = p
    s1 = s1
    s2 = s2
    i1 = i1
    i2 = i2
    i3 = i3
    root = root
    ann = ann
    bob = bob
    NoOne = NoOne
    w1 = w1
    w2 = w2
    Project = p
    Subprojects = {s1, s2}
    Items = {i1, i2, i3}
    Users = {root, ann, bob}
    Root = root
    team = team
    Identities = {ann, team}
    Members <- MCMembers
    Data = {0, 1}
    Times = {1, 2}
    Orderings <- MCOrderings
    Prepared <- MCTree
    Workers = {w1, w2}
    MaxRequests = 3
INVARIANTS
    TypeOK
    DecisionsStayJustified
    OnlyHoldersAreNotified
PROPERTIES
    ItemsLead
    OnlyCreationsReopen

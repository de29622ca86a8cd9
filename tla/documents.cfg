SPECIFICATION Spec
CHECK_DEADLOCK FALSE
CONSTANTS
    ann = ann
    bob = bob
    team = team
    A = A
    B = B
    Organizations = {A, B}
    Users = {ann, bob}
    OrganizationOf <- MCOrganizationOf
    Groups = {team}
    FirstMembers <- MCFirstMembers
    Root = root
    Creators = {ann}
    Items = {item}
    Docs = {d1, d2}
    Intents <- MCIntents
    NoOne = NoOne
    Workers = {w1, w2}
    MaxDocs = 1
    MaxRequests = 3
SYMMETRY Symmetry
INVARIANTS
    TypeOK
    TheChainIsRight
    SecretsAreGiven
    ReadersCanDownload

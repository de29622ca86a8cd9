SPECIFICATION Spec
CHECK_DEADLOCK FALSE
CONSTANTS
    a = a
    b1 = b1
    b2 = b2
    A = A
    B = B
    w1 = w1
    w2 = w2
    Nodes = {a, b1, b2}
    Organizations = {A, B}
    OrganizationOf <- MCOrganizationOf
    Alpha = a
    None = None
    Workers = {w1}
    MaxRequests = 0
    MaxFailures = 1
INVARIANT PublicKeyIsDerived

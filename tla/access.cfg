SPECIFICATION Spec
CHECK_DEADLOCK FALSE
CONSTANTS
    ann = ann
    bob = bob
    team = team
    new = new
    p = p
    s = s
    i = i
    j = j
    k = k
    Names = {ann, bob, team, new}
    Root = root
    OrganizationOf <- MCOrganization
    Projects = {p}
    Subprojects = {s}
    Workflowitems = {i, j, k}
    Restricted = {i, j}
    Global = Global
    NoOne = NoOne
    GlobalIntents <- MCGlobalIntents
    UserIntents <- MCUserIntents
    ProjectIntents <- MCProjectIntents
    SubprojectIntents <- MCSubprojectIntents
    WorkflowitemIntents <- MCWorkflowitemIntents
    FirstUsers = {ann, bob}
    FirstGroups <- MCGroups
    FirstAssignee <- MCAssignee
    MemberSets <- MCMemberSets
    FirstGranted <- MCGranted
    Workers = {w1, w2}
    MaxRequests = 2
SYMMETRY AnyWorker
INVARIANTS
    TypeOK
    NothingIsLostInHandover
    OnlyTheViewIsKept
    ChecksFailOnlyByRaces
    ResolveUsersFindsAll
PROPERTIES
    LastGrantorNeedsRace

------------------------------- MODULE Access -------------------------------
(***************************************************************************)
(* Who may do what: users and groups (api/src/service/domain/organization) *)
(* and the permissions of the organization and of the projects,            *)
(* subprojects and workflowitems (domain/workflow), under concurrent       *)
(* requests.  As in Lifecycle a request is decided on what the cache shows *)
(* and the events it yields are stored one by one; other requests store    *)
(* theirs in between, and the rest is lost if storing one fails.           *)
(*                                                                         *)
(* A permission is a triple: on this target, this intent, this identity.   *)
(* The lists of the code are in the order of the grants and never hold an  *)
(* identity twice, so that only their members matter.                      *)
(***************************************************************************)
EXTENDS Naturals, Sequences, FiniteSets, SequencesExt

CONSTANTS
    Names,          \* ids of users and of groups, which clients choose
    Root,           \* the user "root", who is not on the chain
    OrganizationOf, \* the organization of each user
    Projects, Subprojects, Workflowitems,
    Restricted,     \* the workflowitems of the type "restricted"
    Global,         \* the target of global permissions
    NoOne,
    GlobalIntents, UserIntents, ProjectIntents, SubprojectIntents,
    WorkflowitemIntents,    \* the lists of authz/intents.ts
    FirstUsers,     \* the users that exist at the beginning, ...
    FirstGroups,    \* ... the groups, a function to their members, ...
    FirstGranted,   \* ... the permissions ...
    FirstAssignee,  \* ... and the assignees
    MemberSets,     \* bound: the members a new group is given
    Workers,        \* requests handled at the same time
    MaxRequests     \* bound: requests decided

Resources  == Projects \cup Subprojects \cup Workflowitems
GroupIntents == <<"group.addUser", "group.removeUser">>
DefaultIntent == "network.listActive"                  \* userDefaultIntents
ViewIntent == "workflowitem.list"
AllIntents ==
    Range(GlobalIntents) \cup Range(UserIntents) \cup Range(GroupIntents)
      \cup Range(ProjectIntents) \cup Range(SubprojectIntents) \cup Range(WorkflowitemIntents)
Targets == {Global} \cup Names \cup Resources
Permission == Targets \X AllIntents \X Names

VARIABLES
    users,      \* the users created
    groups,     \* the groups created
    members,    \* the members of each group
    granted,    \* the permissions
    assignee,   \* to whom each resource is assigned; NoOne before it is created
    tokens,     \* the tokens handed out at logins and not yet expired
    pending,    \* the events each worker has yet to store
    job,        \* what global.grantAllPermissions has still to do
    handover,   \* history: a restricted item changing hands, unless disturbed
    news,       \* history: what others changed since a worker's decision
    requests    \* number of requests decided

vars == <<users, groups, members, granted, assignee, tokens, pending, job,
          handover, news, requests>>

-----------------------------------------------------------------------------
(* Who acts, and what is permitted.                                        *)

(* A token names the groups its user was a member of when he logged in.    *)
Token == [user: Names \cup {Root}, groups: SUBSET Names]

RootToken == [user |-> Root, groups |-> {}]

Exists(r) == assignee[r] # NoOne

CanAssumeIdentity(token, x) == x = token.user \/ x \in token.groups

Granted(target, intent) == {x \in Names : <<target, intent, x>> \in granted}

Permits(target, token, intent) ==
    \/ token.user = Root
    \/ \E x \in Granted(target, intent) : CanAssumeIdentity(token, x)

GrantIntent(r) ==
    CASE r \in Projects -> "project.intent.grantPermission"
      [] r \in Subprojects -> "subproject.intent.grantPermission"
      [] OTHER -> "workflowitem.intent.grantPermission"

RevokeIntent(r) ==
    CASE r \in Projects -> "project.intent.revokePermission"
      [] r \in Subprojects -> "subproject.intent.revokePermission"
      [] OTHER -> "workflowitem.intent.revokePermission"

AssignIntent(r) ==
    CASE r \in Projects -> "project.assign"
      [] r \in Subprojects -> "subproject.assign"
      [] OTHER -> "workflowitem.assign"

IntentsOf(r) ==
    CASE r \in Projects -> Range(ProjectIntents)
      [] r \in Subprojects -> Range(SubprojectIntents)
      [] OTHER -> Range(WorkflowitemIntents)

Grantors(r) == Granted(r, GrantIntent(r))

(* resolveUsers: the users an identity stands for.  The members of a group *)
(* are walked depth first, with one set of the members seen so far; todo   *)
(* is what is left of the walk.  An id that names both a group and a user  *)
(* is taken for the group.                                                 *)
StopsAtSeen(seen, todo) ==                             \* mutant: break for continue
    LET walk[st \in (SUBSET Names) \X Seq(Names)] ==
            IF st[2] = <<>> \/ Head(st[2]) \in st[1] THEN {}
            ELSE LET m == Head(st[2])
                 IN  IF m \in groups
                       THEN walk[<<st[1] \cup {m}, SetToSeq(members[m]) \o Tail(st[2])>>]
                       ELSE {m} \cup walk[<<st[1] \cup {m}, Tail(st[2])>>]
    IN  walk[<<seen, todo>>]

Walk(seen, todo) ==
    LET walk[st \in (SUBSET Names) \X Seq(Names)] ==
            IF st[2] = <<>> THEN {}
            ELSE LET m    == Head(st[2])
                     rest == Tail(st[2])
                 IN  IF m \in st[1] THEN walk[<<st[1], rest>>]
                     ELSE IF m \in groups
                       THEN walk[<<st[1] \cup {m}, SetToSeq(members[m]) \o rest>>]
                       ELSE {m} \cup walk[<<st[1] \cup {m}, rest>>]
    IN  walk[<<seen, todo>>]

ResolveUsers(x) ==
    IF x \in groups THEN Walk({}, SetToSeq(members[x])) ELSE {x}

(* It fails if anything it comes to is neither a group nor a user.         *)
Resolvable(x) == ResolveUsers(x) \subseteq users

-----------------------------------------------------------------------------
(* Events.                                                                 *)

PermissionGranted(t, n, x) ==
    [type |-> "granted", target |-> t, intent |-> n, identity |-> x]
PermissionRevoked(t, n, x) ==
    [type |-> "revoked", target |-> t, intent |-> n, identity |-> x]
Assigned(r, x)     == [type |-> "assigned", target |-> r, identity |-> x]
WorkflowitemCreated(i, x, publisher) ==
    [type |-> "workflowitem_created", target |-> i, identity |-> x, publisher |-> publisher]
UserCreated(x)     == [type |-> "user_created", target |-> x]
UserEnabled(x)     == [type |-> "user_enabled", target |-> x]
UserDisabled(x)    == [type |-> "user_disabled", target |-> x]
GroupCreated(x, ms, token) ==
    [type |-> "group_created", target |-> x, members |-> ms, publisher |-> token.user]
MemberAdded(x, m)   == [type |-> "member_added", target |-> x, identity |-> m]
MemberRemoved(x, m) == [type |-> "member_removed", target |-> x, identity |-> m]

Event ==
    [type: {"granted", "revoked"}, target: Targets, intent: AllIntents, identity: Names]
      \cup [type: {"assigned"}, target: Resources, identity: Names]
      \cup [type: {"workflowitem_created"}, target: Workflowitems, identity: Names,
            publisher: Names]
      \cup [type: {"user_created", "user_enabled", "user_disabled"}, target: Names]
      \cup [type: {"group_created"}, target: Names, members: SUBSET Names,
            publisher: Names \cup {Root}]
      \cup [type: {"member_added", "member_removed"}, target: Names, identity: Names]

(* createPermissionEvents, for a restricted workflowitem that is created   *)
(* for, or assigned to, an assignee by a publisher.  The revocations are   *)
(* split in two by a reduce that swaps its two accumulators at every step, *)
(* but for the one of the revoke intent, which it appends to the second.   *)
Split(acc, n) ==
    IF n # "workflowitem.intent.revokePermission"
      THEN <<Append(acc[2], n), acc[1]>>
      ELSE <<acc[1], Append(acc[2], n)>>

RevokedOf(intents) ==
    LET split == FoldLeft(Split, << <<>>, <<>> >>,
                          SelectSeq(intents, LAMBDA n : n # ViewIntent))
    IN  split[1] \o split[2]

RevokedIntents == RevokedOf(WorkflowitemIntents)

Grants(i, assigned) ==
    [k \in DOMAIN WorkflowitemIntents |-> PermissionGranted(i, WorkflowitemIntents[k], assigned)]

Revocations(i, publisher) ==
    [k \in DOMAIN RevokedIntents |-> PermissionRevoked(i, RevokedIntents[k], publisher)]

RevokesFirst(i, assigned, publisher) ==                \* mutant: swapped order
    Revocations(i, publisher) \o Grants(i, assigned)

RevokesTwoLess(i, assigned, publisher) ==              \* mutant: slice off by two
    Grants(i, assigned) \o SubSeq(Revocations(i, publisher), 1, Len(RevokedIntents) - 2)

(* The revocations of root, who is granted nothing, change nothing.        *)
PermissionEvents(i, assigned, publisher) ==
    IF assigned = publisher \/ publisher \notin Names
      THEN Grants(i, assigned) ELSE Grants(i, assigned) \o Revocations(i, publisher)

-----------------------------------------------------------------------------
ASSUME AccessAssumption ==
    /\ IsFiniteSet(Names) /\ Root \notin Names /\ NoOne \notin Names \cup {Root}
    /\ Projects \cap Subprojects = {} /\ Workflowitems \cap (Projects \cup Subprojects) = {}
    /\ ({Global} \cup Names) \cap Resources = {} /\ Global \notin Names
    /\ Restricted \subseteq Workflowitems
    /\ \A s \in {GlobalIntents, UserIntents, ProjectIntents, SubprojectIntents,
                 WorkflowitemIntents} : s \in Seq(Range(s))
    /\ DefaultIntent \in Range(GlobalIntents) /\ "user.authenticate" \in Range(UserIntents)
    /\ "group.addUser" \notin Range(GlobalIntents) \cup Range(UserIntents)
    /\ \A r \in Resources : {GrantIntent(r), RevokeIntent(r)} \subseteq IntentsOf(r)
    /\ FirstUsers \subseteq Names /\ FirstGranted \subseteq Permission
    /\ FirstGroups \in [DOMAIN FirstGroups -> SUBSET Names]
    /\ DOMAIN FirstGroups \subseteq Names \ FirstUsers
    /\ FirstAssignee \in [Resources -> FirstUsers \cup {NoOne}] /\ MemberSets \subseteq SUBSET Names
    /\ MaxRequests \in Nat

(* What the split does with the list of intents: it loses none of them.    *)
(* MCAccess has TLC evaluate it on the list of intents.ts as well.         *)
ASSUME SplitAssumption ==
    /\ RevokedIntents \in Seq(AllIntents)
    /\ Range(RevokedIntents) = Range(WorkflowitemIntents) \ {ViewIntent}

-----------------------------------------------------------------------------
(* Deciding requests.  A request that is refused, or that changes nothing  *)
(* and therefore yields no event, is left out.                             *)

FirstMembers(x) == IF x \in DOMAIN FirstGroups THEN FirstGroups[x] ELSE {}

Init ==
    /\ users = FirstUsers
    /\ groups = DOMAIN FirstGroups
    /\ members = [x \in Names |-> FirstMembers(x)]
    /\ granted = FirstGranted
    /\ assignee = FirstAssignee
    /\ tokens = {}
    /\ pending = [w \in Workers |-> <<>>]
    /\ job = [w \in Workers |-> NoOne]
    /\ handover = [w \in Workers |-> NoOne]
    /\ news = [w \in Workers |-> {}]
    /\ requests = 0

Issuers == tokens \cup {RootToken}

SameOrganization(token, x) == OrganizationOf[token.user] = OrganizationOf[x]

Idle(w) == pending[w] = <<>> /\ job[w] = NoOne /\ requests < MaxRequests

State == <<users, groups, members, granted, assignee, tokens>>

Yield(w, events) ==
    /\ pending' = [pending EXCEPT ![w] = events]
    /\ handover' = [handover EXCEPT ![w] = NoOne]
    /\ requests' = requests + 1
    /\ UNCHANGED <<State, job, news>>

(* authenticateUser: the special user "root" needs no token of this kind.  *)
Login(x) ==
    /\ x \in users /\ <<x, "user.authenticate", x>> \in granted
    /\ tokens' = tokens \cup {[user |-> x, groups |-> {g \in groups : x \in members[g]}]}
    /\ UNCHANGED <<users, groups, members, granted, assignee, pending, job, handover,
                   news, requests>>

(* A token is valid for eight hours.                                       *)
Expire(token) ==
    /\ tokens' = tokens \ {token}
    /\ UNCHANGED <<users, groups, members, granted, assignee, pending, job, handover,
                   news, requests>>

Grant(w, token, r, n, x) ==
    /\ Exists(r) /\ Permits(r, token, GrantIntent(r))
    /\ <<r, n, x>> \notin granted
    /\ Yield(w, <<PermissionGranted(r, n, x)>>)

NoGrantor(r, n) == n = GrantIntent(r) /\ Cardinality(Grantors(r)) = 0  \* mutant: off by one

IsLastGrantor(r, n) == n = GrantIntent(r) /\ Cardinality(Grantors(r)) = 1

Revoke(w, token, r, n, x) ==
    /\ Exists(r) /\ Permits(r, token, RevokeIntent(r))
    /\ ~IsLastGrantor(r, n)
    /\ <<r, n, x>> \in granted
    /\ Yield(w, <<PermissionRevoked(r, n, x)>>)

GrantProjectPermission(w, token) ==
    \E r \in Projects, x \in Names : \E n \in IntentsOf(r) : Grant(w, token, r, n, x)

GrantSubprojectPermission(w, token) ==
    \E r \in Subprojects, x \in Names : \E n \in IntentsOf(r) : Grant(w, token, r, n, x)

(* The documents that are shared with it are the matter of Documents.      *)
GrantWorkflowitemPermission(w, token) ==
    \E r \in Workflowitems, x \in Names : \E n \in IntentsOf(r) : Grant(w, token, r, n, x)

RevokeProjectPermission(w, token) ==
    \E r \in Projects, x \in Names : \E n \in IntentsOf(r) : Revoke(w, token, r, n, x)

RevokeSubprojectPermission(w, token) ==
    \E r \in Subprojects, x \in Names : \E n \in IntentsOf(r) : Revoke(w, token, r, n, x)

RevokeWorkflowitemPermission(w, token) ==
    \E r \in Workflowitems, x \in Names : \E n \in IntentsOf(r) : Revoke(w, token, r, n, x)

(* The notifications of the new assignee are the matter of Lifecycle.      *)
Assign(w, token) ==
    \E r \in Resources \ Restricted, x \in Names :
        /\ Exists(r) /\ Permits(r, token, AssignIntent(r))
        /\ assignee[r] # x /\ Resolvable(x)
        /\ Yield(w, <<Assigned(r, x)>>)

(* The restricted workflowitem i goes from who acts to x.                  *)
HandsOver(w, token, i, x, held) ==
    handover' = [handover EXCEPT ![w] =
        IF x = token.user \/ token.user = Root THEN NoOne
        ELSE [item |-> i, from |-> token.user, to |-> x, complete |-> FALSE, held |-> held]]

(* A restricted workflowitem is handed over: who assigns it grants all he  *)
(* can do to the assignee, and keeps no more than the right to see it.     *)
AssignRestricted(w, token) ==
    \E i \in Restricted, x \in Names :
        /\ Exists(i) /\ Permits(i, token, AssignIntent(i))
        /\ assignee[i] # x /\ Resolvable(x)
        /\ Permits(i, token, GrantIntent(i))
        /\ pending' = [pending EXCEPT ![w] =
                <<Assigned(i, x)>> \o PermissionEvents(i, x, token.user)]
        /\ HandsOver(w, token, i, x, {n \in Range(WorkflowitemIntents) :
                                            <<i, n, token.user>> \in granted})
        /\ requests' = requests + 1
        /\ UNCHANGED <<State, job, news>>

(* Ids of workflowitems are random.                                        *)
Fresh(i) == ~Exists(i) /\ \A w \in Workers : pending[w] # <<>> => Head(pending[w]).target # i

(* So it is when it is created for somebody else: its creator, to whom all *)
(* is permitted by the first event, hands it over with those that follow.  *)
(* Nobody looks up the assignee.                                           *)
CreateWorkflowitem(w, token) ==
    \E s \in Subprojects, i \in Workflowitems, x \in Names :
        /\ Fresh(i) /\ Exists(s) /\ token.user # Root
        /\ Permits(s, token, "subproject.createWorkflowitem")
        /\ IF i \in Restricted
             THEN /\ pending' = [pending EXCEPT ![w] =
                        <<WorkflowitemCreated(i, x, token.user)>>
                            \o PermissionEvents(i, x, token.user)]
                  /\ HandsOver(w, token, i, x, Range(WorkflowitemIntents))
                  /\ requests' = requests + 1
                  /\ UNCHANGED <<State, job, news>>
             ELSE Yield(w, <<WorkflowitemCreated(i, x, token.user)>>)

(* Global permissions are granted to users, never to groups, and only by   *)
(* users of their organization.  The event is stored even if it changes    *)
(* nothing.                                                                *)
MayAdminister(token, x, intent) ==
    /\ x \notin groups /\ x \in users
    /\ SameOrganization(token, x)
    /\ Permits(Global, token, intent)

GrantGlobalPermission(w, token) ==
    \E n \in Range(GlobalIntents), x \in Names :
        /\ MayAdminister(token, x, "global.grantPermission")
        /\ Yield(w, <<PermissionGranted(Global, n, x)>>)

RevokeGlobalPermission(w, token) ==
    \E n \in Range(GlobalIntents), x \in Names :
        /\ MayAdminister(token, x, "global.revokePermission")
        /\ Yield(w, <<PermissionRevoked(Global, n, x)>>)

(* global.grantAllPermissions: each intent is granted by a request of its  *)
(* own, but for those that the issuer was found to hold when it began.     *)
BeginGrantAll(w, token) ==
    \E x \in Names :
        /\ job' = [job EXCEPT ![w] =
                [token |-> token, grantee |-> x, todo |-> GlobalIntents,
                 skip |-> {n \in Range(GlobalIntents) :
                                <<Global, n, token.user>> \in granted}]]
        /\ requests' = requests + 1
        /\ handover' = [handover EXCEPT ![w] = NoOne]
        /\ UNCHANGED <<State, pending, news>>

GrantAllNext(w) ==
    /\ job[w] # NoOne /\ pending[w] = <<>> /\ job[w].todo # <<>>
    /\ LET n == Head(job[w].todo)
       IN  \/ /\ n \in job[w].skip
              /\ job' = [job EXCEPT ![w].todo = Tail(@)]
              /\ UNCHANGED pending
           \/ /\ n \notin job[w].skip
              /\ MayAdminister(job[w].token, job[w].grantee, "global.grantPermission")
              /\ pending' = [pending EXCEPT ![w] =
                                <<PermissionGranted(Global, n, job[w].grantee)>>]
              /\ job' = [job EXCEPT ![w].todo = Tail(@)]
           \/ /\ n \notin job[w].skip
              /\ ~MayAdminister(job[w].token, job[w].grantee, "global.grantPermission")
              /\ job' = [job EXCEPT ![w] = NoOne]
              /\ UNCHANGED pending
    /\ UNCHANGED <<State, handover, news, requests>>

(* Status 200.                                                             *)
GrantAllAnswer(w) ==
    /\ job[w] # NoOne /\ pending[w] = <<>> /\ job[w].todo = <<>>
    /\ job' = [job EXCEPT ![w] = NoOne]
    /\ UNCHANGED <<State, pending, handover, news, requests>>

GrantUserPermission(w, token) ==
    \E u \in users, n \in Range(UserIntents), x \in Names :
        /\ SameOrganization(token, u)
        /\ Permits(u, token, "user.intent.grantPermission")
        /\ <<u, n, x>> \notin granted
        /\ Yield(w, <<PermissionGranted(u, n, x)>>)

RevokeUserPermission(w, token) ==
    \E u \in users, n \in Range(UserIntents), x \in Names :
        /\ SameOrganization(token, u)
        /\ Permits(u, token, "user.intent.revokePermission")
        /\ <<u, n, x>> \in granted
        /\ Yield(w, <<PermissionRevoked(u, n, x)>>)

NotAUser(x) == x \notin users                          \* mutant: groups not asked
NameIsFree(x) == x \notin users \cup groups

CreateUser(w, token) ==
    \E x \in Names :
        /\ NameIsFree(x) /\ Permits(Global, token, "global.createUser")
        /\ Yield(w, <<UserCreated(x), PermissionGranted(Global, DefaultIntent, x)>>)

(* The ids given for members are not looked up.                            *)
CreateGroup(w, token) ==
    \E x \in Names, ms \in MemberSets :
        /\ NameIsFree(x) /\ Permits(Global, token, "global.createGroup")
        /\ Yield(w, <<GroupCreated(x, ms, token)>>)

AddMember(w, token) ==
    \E g \in groups, x \in Names :
        /\ Permits(g, token, "group.addUser")
        /\ Yield(w, <<MemberAdded(g, x)>>)

RemoveMember(w, token) ==
    \E g \in groups, x \in Names :
        /\ Permits(g, token, "group.removeUser")
        /\ Yield(w, <<MemberRemoved(g, x)>>)

EnableUser(w, token) ==
    \E x \in users :
        /\ SameOrganization(token, x) /\ Permits(Global, token, "global.enableUser")
        /\ Granted(x, "user.authenticate") # {x}
        /\ Yield(w, <<UserEnabled(x)>>)

(* Assignments to groups of the user do not count.                         *)
HasAssignments(x) == \E r \in Resources : assignee[r] = x

DisableUser(w, token) ==
    \E x \in users :
        /\ SameOrganization(token, x) /\ Permits(Global, token, "global.disableUser")
        /\ token.user # x
        /\ ~HasAssignments(x)
        /\ Granted(x, "user.authenticate") # {}
        /\ Yield(w, <<UserDisabled(x)>>)

-----------------------------------------------------------------------------
(* Storing their events.                                                   *)

Storing(w, types) == pending[w] # <<>> /\ Head(pending[w]).type \in types

KeepsTheNews(w) ==                                     \* mutant: missing reset
    LET t == Head(pending[w]).target
    IN  /\ pending' = [pending EXCEPT ![w] = Tail(@)]
        /\ news' = [v \in Workers |-> IF v = w THEN news[v] ELSE news[v] \cup {t}]
        /\ UNCHANGED <<tokens, job, handover, requests>>

(* What is stored is news to the others and disturbs their handovers.      *)
AfterStore(w) ==
    LET t == Head(pending[w]).target
        last == Len(pending[w]) = 1
    IN  /\ pending' = [pending EXCEPT ![w] = Tail(@)]
        /\ news' = [v \in Workers |->
                IF pending[v] = <<>> \/ (v = w /\ last) THEN {}
                ELSE IF v = w THEN news[v] ELSE news[v] \cup {t}]
        /\ handover' = [v \in Workers |->
                IF handover[v] = NoOne \/ (v # w /\ handover[v].item = t) THEN NoOne
                ELSE IF v = w /\ last THEN [handover[v] EXCEPT !.complete = TRUE]
                ELSE handover[v]]
        /\ UNCHANGED <<tokens, job, requests>>

StoreGranted(w) ==
    /\ Storing(w, {"granted"})
    /\ LET e == Head(pending[w])
       IN  granted' = granted \cup {<<e.target, e.intent, e.identity>>}
    /\ AfterStore(w) /\ UNCHANGED <<users, groups, members, assignee>>

StoreRevoked(w) ==
    /\ Storing(w, {"revoked"})
    /\ LET e == Head(pending[w])
       IN  granted' = granted \ {<<e.target, e.intent, e.identity>>}
    /\ AfterStore(w) /\ UNCHANGED <<users, groups, members, assignee>>

StoreAssigned(w) ==
    /\ Storing(w, {"assigned"})
    /\ LET e == Head(pending[w]) IN assignee' = [assignee EXCEPT ![e.target] = e.identity]
    /\ AfterStore(w) /\ UNCHANGED <<users, groups, members, granted>>

StoreWorkflowitemCreated(w) ==
    /\ Storing(w, {"workflowitem_created"})
    /\ LET e == Head(pending[w])
       IN  /\ assignee' = [assignee EXCEPT ![e.target] = e.identity]
           /\ granted' = granted \cup
                    ({e.target} \X Range(WorkflowitemIntents) \X {e.publisher})
    /\ AfterStore(w) /\ UNCHANGED <<users, groups, members>>

(* A user that is created once more is a new one, all his own permissions  *)
(* included.                                                               *)
StoreUserCreated(w) ==
    /\ Storing(w, {"user_created"})
    /\ LET x == Head(pending[w]).target
       IN  /\ users' = users \cup {x}
           /\ granted' = (granted \ ({x} \X Range(UserIntents) \X Names))
                            \cup ({x} \X Range(UserIntents) \X {x})
    /\ AfterStore(w) /\ UNCHANGED <<groups, members, assignee>>

(* Whereas a second creation of a group is ignored.                        *)
StoreGroupCreated(w) ==
    /\ Storing(w, {"group_created"})
    /\ LET e == Head(pending[w])
       IN  IF e.target \in groups
             THEN UNCHANGED <<groups, members, granted>>
             ELSE /\ groups' = groups \cup {e.target}
                  /\ members' = [members EXCEPT ![e.target] = e.members]
                  /\ granted' = granted \cup
                        ({e.target} \X Range(GroupIntents) \X (Names \cap {e.publisher}))
    /\ AfterStore(w) /\ UNCHANGED <<users, assignee>>

StoreMembers(w) ==
    /\ Storing(w, {"member_added", "member_removed"})
    /\ LET e == Head(pending[w])
       IN  members' = [members EXCEPT ![e.target] =
                            IF e.type = "member_added" THEN @ \cup {e.identity}
                            ELSE @ \ {e.identity}]
    /\ AfterStore(w) /\ UNCHANGED <<users, groups, granted, assignee>>

StoreAuthentication(w) ==
    /\ Storing(w, {"user_enabled", "user_disabled"})
    /\ LET e == Head(pending[w])
       IN  granted' = (granted \ ({e.target} \X {"user.authenticate"} \X Names))
                \cup IF e.type = "user_enabled"
                       THEN {<<e.target, "user.authenticate", e.target>>} ELSE {}
    /\ AfterStore(w) /\ UNCHANGED <<users, groups, members, assignee>>

(* Storing fails or the API is killed: the rest is never stored.           *)
Fail(w) ==
    /\ pending[w] # <<>> \/ job[w] # NoOne
    /\ pending' = [pending EXCEPT ![w] = <<>>]
    /\ job' = [job EXCEPT ![w] = NoOne]
    /\ news' = [news EXCEPT ![w] = {}]
    /\ UNCHANGED <<State, handover, requests>>

-----------------------------------------------------------------------------
Request(w, token) ==
    /\ Idle(w)
    /\ \/ GrantProjectPermission(w, token) \/ RevokeProjectPermission(w, token)
       \/ GrantSubprojectPermission(w, token) \/ RevokeSubprojectPermission(w, token)
       \/ GrantWorkflowitemPermission(w, token) \/ RevokeWorkflowitemPermission(w, token)
       \/ Assign(w, token) \/ AssignRestricted(w, token) \/ CreateWorkflowitem(w, token)
       \/ GrantGlobalPermission(w, token) \/ RevokeGlobalPermission(w, token)
       \/ BeginGrantAll(w, token)
       \/ GrantUserPermission(w, token) \/ RevokeUserPermission(w, token)
       \/ CreateUser(w, token) \/ EnableUser(w, token) \/ DisableUser(w, token)
       \/ CreateGroup(w, token) \/ AddMember(w, token) \/ RemoveMember(w, token)

Store(w) ==
    \/ StoreGranted(w) \/ StoreRevoked(w) \/ StoreAssigned(w)
    \/ StoreWorkflowitemCreated(w) \/ StoreUserCreated(w) \/ StoreGroupCreated(w) \/ StoreMembers(w)
    \/ StoreAuthentication(w)

Next ==
    \/ \E w \in Workers :
        \/ \E token \in Issuers : Request(w, token)
        \/ GrantAllNext(w) \/ GrantAllAnswer(w) \/ Store(w) \/ Fail(w)
    \/ \E x \in Names : Login(x)
    \/ \E token \in tokens : Expire(token)

Spec == Init /\ [][Next]_vars

-----------------------------------------------------------------------------
(* Properties.                                                             *)

Job == [token: Token, grantee: Names, todo: Seq(Range(GlobalIntents)),
        skip: SUBSET Range(GlobalIntents)]

Handover == [item: Restricted, from: Names, to: Names, complete: BOOLEAN,
             held: SUBSET Range(WorkflowitemIntents)]

TypeOK ==
    /\ users \subseteq Names /\ groups \subseteq Names
    /\ members \in [Names -> SUBSET Names]
    /\ granted \subseteq Permission
    /\ assignee \in [Resources -> Names \cup {NoOne}]
    /\ tokens \subseteq Token
    /\ pending \in [Workers -> Seq(Event)]
    /\ job \in [Workers -> Job \cup {NoOne}]
    /\ handover \in [Workers -> Handover \cup {NoOne}]
    /\ news \in [Workers -> SUBSET Targets]
    /\ requests \in 0 .. MaxRequests
    /\ \A w \in Workers : pending[w] = <<>> => news[w] = {}

(* "Revoking ... of last user is not allowed": a project, a subproject or  *)
(* a workflowitem loses its last grantor, if at all, to a request that was *)
(* decided before another one changed its permissions; no single request   *)
(* and no handover of a restricted item strands it, not even half-way.     *)
LastGrantorNeedsRace ==
    [][\A r \in Resources : Grantors(r) # {} /\ Grantors(r)' = {} =>
            \E w \in Workers : pending'[w] # pending[w] /\ r \in news[w]]_vars

(* Of a restricted workflowitem changing hands, at an assignment or when   *)
(* it is created: what the publisher has lost, the assignee has been given,*)
(* at every moment, also for good if storing fails in between.             *)
NothingIsLostInHandover ==
    \A w \in Workers : handover[w] # NoOne /\ Exists(handover[w].item) =>
        LET h == handover[w]
        IN  (\E n \in h.held : <<h.item, n, h.from>> \notin granted) =>
                \A n \in Range(WorkflowitemIntents) : <<h.item, n, h.to>> \in granted

(* "The assigner will only keep the view permissions."                     *)
OnlyTheViewIsKept ==
    \A w \in Workers : handover[w] # NoOne /\ handover[w].complete =>
        \A n \in Range(WorkflowitemIntents) \ {ViewIntent} :
            <<handover[w].item, n, handover[w].from>> \notin granted

(* A user is disabled while something is assigned to him, and an id is     *)
(* given to a user and to a group or twice to a user, only if the other    *)
(* request was stored after this one was decided.                          *)
ChecksFailOnlyByRaces ==
    \A w \in Workers : pending[w] # <<>> =>
        LET e == Head(pending[w])
        IN  /\ e.type = "user_disabled" =>
                    {r \in Resources : assignee[r] = e.target} \subseteq news[w]
            /\ e.type \in {"user_created", "group_created"} =>
                    e.target \notin users \cup groups \/ e.target \in news[w]

(* resolveUsers finds all users that an identity stands for, through       *)
(* groups of groups and groups that contain one another, and ends.         *)
StandsFor(x) ==
    {y \in Names \ groups :
        \A S \in SUBSET Names :
            x \in S /\ (\A g \in S \cap groups : members[g] \subseteq S) => y \in S}

ResolveUsersFindsAll == \A x \in Names : ResolveUsers(x) = StandsFor(x)
=============================================================================

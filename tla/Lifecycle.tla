----------------------------- MODULE Lifecycle ------------------------------
(***************************************************************************)
(* The life of a project, its subprojects and their workflowitems under    *)
(* concurrent requests (api/src/service/domain/workflow).  A request is    *)
(* decided on the resources as the cache shows them, and the events it     *)
(* yields are then stored one by one.  Nothing checks, when they are       *)
(* stored, that what was decided on still holds: other requests, of this   *)
(* API or of another organization's, store theirs in between.              *)
(*                                                                         *)
(* A cache that lags behind the stream shows an earlier state of it; to    *)
(* decide on that state late is to decide on it in time and to store late. *)
(* So the resources are read as of the moment a request is decided.        *)
(***************************************************************************)
EXTENDS Naturals, Sequences, FiniteSets, SequencesExt

CONSTANTS
    Project,        \* the project; it exists from the beginning
    Subprojects,    \* ids of subprojects, which clients may choose
    Items,          \* ids of workflowitems, which are generated
    Users,
    Root,           \* the user "root"
    Identities,     \* whom a resource may be assigned to: users and groups
    Members,        \* resolveUsers: the users an identity stands for
    NoOne,
    Data,           \* contents that updates change
    Times,          \* time stamps; the clocks of the nodes need not agree
    Orderings,      \* workflowitem orderings that clients may set
    Prepared,       \* the subprojects and items that exist at the beginning
    Workers,        \* requests handled at the same time
    MaxRequests     \* bound: requests decided

Ids == {Project} \cup Subprojects \cup Items

ASSUME LifecycleAssumption ==
    /\ Project \notin Subprojects \cup Items
    /\ Subprojects \cap Items = {}
    /\ Root \in Users /\ IsFiniteSet(Users) /\ IsFiniteSet(Items)
    /\ Members \in [Identities -> SUBSET Users]
    /\ NoOne \notin Users \cup Identities \cup Ids
    /\ Data # {} /\ Times \subseteq Nat /\ Times # {}
    /\ Identities # {}
    /\ Orderings \subseteq Seq(Items)
    /\ Prepared \in Seq(Subprojects \cup Items)
    /\ \A k \in DOMAIN Prepared : Prepared[k] \in Items =>
            \E n \in DOMAIN Prepared : Prepared[n] \in Subprojects
    /\ MaxRequests \in Nat

VARIABLES
    resource,   \* what the events stored so far add up to
    everHeld,   \* history: the identities each resource was ever assigned to
    notified,   \* the notifications stored: who was told of which resource
    pc,         \* where each worker is
    closing,    \* what closeSubproject and closeProject hold on to
    pending,    \* the events each worker has yet to store
    requests    \* number of requests decided

vars == <<resource, everHeld, notified, pc, closing, pending, requests>>

-----------------------------------------------------------------------------
(* Resources.                                                              *)

Resource ==
    [status: {"absent", "open", "closed"}, rejected: BOOLEAN, data: Data,
     parent: Ids \cup {NoOne}, assignee: Identities \cup {NoOne},
     validator: Users \cup {NoOne}, ordering: Seq(Items),
     ctime: Times, index: Nat]

AnyData == CHOOSE d \in Data : TRUE
AnyTime == CHOOSE t \in Times : TRUE

Absent ==
    [status |-> "absent", rejected |-> FALSE, data |-> AnyData,
     parent |-> NoOne, assignee |-> NoOne, validator |-> NoOne,
     ordering |-> <<>>, ctime |-> AnyTime, index |-> 0]

Exists(x)   == resource[x].status # "absent"
IsOpen(x)   == resource[x].status = "open"
IsClosed(x) == resource[x].status = "closed"

Children(x) == {y \in Subprojects \cup Items : Exists(y) /\ resource[y].parent = x}

SomeClosed(S) == S = {} \/ \E y \in S : IsClosed(y)    \* mutant: some for every
AllClosed(S)  == \A y \in S : IsClosed(y)

(* sortWorkflowitems, for two open items of a subproject: the ordering of  *)
(* the subproject first, the creation time for the items it leaves out,    *)
(* and the order of their creation events for those of the same age.       *)
IndexOf(ordering, i) == SelectInSeq(ordering, LAMBDA x : x = i)

Precedes(i, j, ordering) ==
    LET a == IndexOf(ordering, i)
        b == IndexOf(ordering, j)
    IN  \/ a # 0 /\ b # 0 /\ a < b
        \/ a # 0 /\ b = 0
        \/ /\ a = 0 /\ b = 0
           /\ \/ resource[i].ctime < resource[j].ctime
              \/ /\ resource[i].ctime = resource[j].ctime
                 /\ resource[i].index < resource[j].index

-----------------------------------------------------------------------------
(* Events.  A closing event carries, as a history, the resources that the  *)
(* decision found to be closed and relied on.                              *)

Created(x, record)      == [type |-> "created", id |-> x, record |-> record]
Assigned(x, a)          == [type |-> "assigned", id |-> x, assignee |-> a]
Updated(x, d)           == [type |-> "updated", id |-> x, data |-> d]
Reordered(s, ordering)  == [type |-> "reordered", id |-> s, ordering |-> ordering]
Closed(x, reject, basis) ==
    [type |-> "closed", id |-> x, rejectReason |-> reject, basis |-> basis]
NotificationCreated(u, x) == [type |-> "notification_created", id |-> x, recipient |-> u]

Event ==
    [type: {"created"}, id: Subprojects \cup Items, record: Resource]
      \cup [type: {"assigned"}, id: Ids, assignee: Identities]
      \cup [type: {"updated"}, id: Ids, data: Data]
      \cup [type: {"reordered"}, id: Subprojects, ordering: Seq(Items)]
      \cup [type: {"closed"}, id: Ids, rejectReason: BOOLEAN, basis: SUBSET Ids]
      \cup [type: {"notification_created"}, id: Ids, recipient: Users]

(* "The issuer doesn't receive a notification".                            *)
Notifications(issuer, recipients, x) ==
    LET others == SetToSeq(recipients \ {issuer})
    IN  [k \in DOMAIN others |-> NotificationCreated(others[k], x)]

(* What an event makes of a resource: sourceProjects, sourceSubprojects,   *)
(* sourceWorkflowitems and the mutate functions of the event types.  An    *)
(* event for a resource that does not exist, and an update of one that is  *)
(* not open, are errors: they are logged and the resource stays.           *)
NextIndex(x) ==
    IF Exists(x) \/ x \notin Items
      THEN resource[x].index
      ELSE 1 + Cardinality({y \in Items : Exists(y)})

UpdatedAnyway(r, d) == [r EXCEPT !.data = d]           \* mutant: no status check
IfOpen(r, d) == IF r.status = "open" THEN [r EXCEPT !.data = d] ELSE r

Mutate(e) ==
    LET x == e.id
        r == resource[x]
    IN  CASE e.type = "created" -> [e.record EXCEPT !.index = NextIndex(x)]
          [] e.type = "assigned" /\ Exists(x) -> [r EXCEPT !.assignee = e.assignee]
          [] e.type = "updated" /\ Exists(x) -> IfOpen(r, e.data)
          [] e.type = "reordered" /\ Exists(x) -> [r EXCEPT !.ordering = e.ordering]
          [] e.type = "closed" /\ Exists(x) ->
                [r EXCEPT !.status = "closed", !.rejected = @ \/ e.rejectReason]
          [] OTHER -> r

-----------------------------------------------------------------------------
(* Deciding requests.  A request that is refused, or that changes nothing, *)
(* stores nothing and is left out.  Permissions are not modelled here: a   *)
(* request that is permitted may come at any time.                         *)

NewRecord(parent, assignee, validator, d, t) ==
    [status |-> "open", rejected |-> FALSE, data |-> d,
     parent |-> parent, assignee |-> assignee, validator |-> validator,
     ordering |-> <<>>, ctime |-> t, index |-> 0]

Idle(w) == pc[w] = "idle" /\ requests < MaxRequests

NotifyFirst(w, event, notifications) ==                \* mutant: swapped order
    /\ pending' = [pending EXCEPT ![w] = notifications \o <<event>>]
    /\ pc' = [pc EXCEPT ![w] = "storing"]

(* The command returns its new events, the main one first.                 *)
Decide(w, event, notifications) ==
    /\ pending' = [pending EXCEPT ![w] = <<event>> \o notifications]
    /\ pc' = [pc EXCEPT ![w] = "storing"]

(* At first the project, and what Prepared says, have been created.        *)
Places(x) == {k \in DOMAIN Prepared : Prepared[k] = x}

Place(x) == CHOOSE k \in Places(x) : TRUE

ParentOf(x) == IF x \in Items THEN CHOOSE s \in Subprojects : Places(s) # {} ELSE Project

Prepare(x, a) ==
    CASE x = Project -> NewRecord(NoOne, a, NoOne, AnyData, AnyTime)
      [] x # Project /\ Places(x) # {} ->
            [NewRecord(ParentOf(x), a, NoOne, AnyData, AnyTime) EXCEPT !.index = Place(x)]
      [] OTHER -> Absent

Init ==
    /\ \E a \in Identities : resource = [x \in Ids |-> Prepare(x, a)]
    /\ everHeld = [x \in Ids |-> {resource[x].assignee} \ {NoOne}]
    /\ notified = {}
    /\ pc = [w \in Workers |-> "idle"]
    /\ closing = [w \in Workers |-> NoOne]
    /\ pending = [w \in Workers |-> <<>>]
    /\ requests = 0

CreateSubproject(w) ==
    /\ Idle(w) /\ Users # {Root}
    /\ \E s \in Subprojects, a \in Identities, v \in Users \cup {NoOne}, d \in Data :
        /\ ~Exists(s)
        /\ Decide(w, Created(s, NewRecord(Project, a, v, d, AnyTime)), <<>>)
    /\ requests' = requests + 1
    /\ UNCHANGED <<resource, everHeld, notified, closing>>

FreeLater(i) ==                                        \* mutant: existence not checked
    \A w \in Workers : \A k \in DOMAIN pending[w] : pending[w][k].id # i

(* randomString: an id that no other workflowitem has or will have.        *)
Fresh(i) ==
    /\ ~Exists(i)
    /\ \A w \in Workers : \A k \in DOMAIN pending[w] : pending[w][k].id # i

(* The status of the subproject is not looked at.                          *)
CreateWorkflowitem(w) ==
    /\ Idle(w) /\ Users # {Root}
    /\ \E i \in Items, s \in Subprojects, a \in Identities, d \in Data, t \in Times :
        /\ Fresh(i) /\ Exists(s)
        /\ Decide(w, Created(i, NewRecord(s, a, NoOne, d, t)), <<>>)
    /\ requests' = requests + 1
    /\ UNCHANGED <<resource, everHeld, notified, closing>>

(* assignProject, assignSubproject, assignWorkflowitem.                    *)
Assign(w) ==
    /\ Idle(w)
    /\ \E x \in Ids, issuer \in Users, a \in Identities :
        /\ Exists(x) /\ resource[x].assignee # a
        /\ Decide(w, Assigned(x, a), Notifications(issuer, Members[a], x))
    /\ requests' = requests + 1
    /\ UNCHANGED <<resource, everHeld, notified, closing>>

(* updateProject, updateSubproject, updateWorkflowitem.                    *)
Update(w) ==
    /\ Idle(w)
    /\ \E x \in Ids, issuer \in Users, d \in Data :
        /\ IsOpen(x) /\ resource[x].data # d
        /\ Decide(w, Updated(x, d),
                  Notifications(issuer, Members[resource[x].assignee], x))
    /\ requests' = requests + 1
    /\ UNCHANGED <<resource, everHeld, notified, closing>>

SetWorkflowitemOrdering(w) ==
    /\ Idle(w)
    /\ \E s \in Subprojects, ordering \in Orderings :
        /\ Exists(s) /\ resource[s].ordering # ordering
        /\ Decide(w, Reordered(s, ordering), <<>>)
    /\ requests' = requests + 1
    /\ UNCHANGED <<resource, everHeld, notified, closing>>

MayClose(issuer, x) == issuer = Root \/ issuer \in Members[resource[x].assignee]

(* The items were read before the assignee's users are resolved, and all   *)
(* checks are made on what was read then.                                  *)
CloseWorkflowitem(w) ==
    /\ Idle(w)
    /\ \E i \in Items, issuer \in Users, reject \in BOOLEAN :
        LET s        == resource[i].parent
            siblings == Children(s)
            previous == {j \in siblings :
                            IsClosed(j) \/ Precedes(j, i, resource[s].ordering)}
        IN  /\ IsOpen(i)
            /\ issuer = Root \/ resource[s].validator \in {NoOne, issuer}
            /\ MayClose(issuer, i)
            /\ AllClosed(previous)
            /\ Decide(w, Closed(i, reject, previous),
                      Notifications(issuer, Members[resource[i].assignee], i))
    /\ requests' = requests + 1
    /\ UNCHANGED <<resource, everHeld, notified, closing>>

Closing == [id: {Project} \cup Subprojects, issuer: Users, recipients: SUBSET Users]

(* closeProject and closeSubproject, up to the call that resolves the      *)
(* assignee's users: the resource was read before ...                      *)
BeginClose(w) ==
    /\ Idle(w)
    /\ \E x \in {Project} \cup Subprojects, issuer \in Users :
        /\ IsOpen(x) /\ MayClose(issuer, x)
        /\ closing' = [closing EXCEPT ![w] =
                [id |-> x, issuer |-> issuer, recipients |-> Members[resource[x].assignee]]]
    /\ pc' = [pc EXCEPT ![w] = "resolving"]
    /\ requests' = requests + 1
    /\ UNCHANGED <<resource, everHeld, notified, pending>>

(* ... and its children are read after.                                    *)
FinishClose(w) ==
    /\ pc[w] = "resolving"
    /\ LET x == closing[w].id
       IN  IF AllClosed(Children(x))
             THEN Decide(w, Closed(x, FALSE, Children(x)),
                         Notifications(closing[w].issuer, closing[w].recipients, x))
             ELSE pc' = [pc EXCEPT ![w] = "idle"] /\ UNCHANGED pending
    /\ closing' = [closing EXCEPT ![w] = NoOne]
    /\ UNCHANGED <<resource, everHeld, notified, requests>>

-----------------------------------------------------------------------------
(* Storing their events.                                                   *)

StopsOneEarly(w, events) ==                            \* mutant: off by one
    /\ pending' = [pending EXCEPT ![w] = events]
    /\ pc' = [pc EXCEPT ![w] = IF Len(events) <= 1 THEN "idle" ELSE "storing"]

AfterStore(w, events) ==
    /\ pending' = [pending EXCEPT ![w] = events]
    /\ pc' = [pc EXCEPT ![w] = IF events = <<>> THEN "idle" ELSE "storing"]

Store(w) ==
    /\ pc[w] = "storing"
    /\ LET e == Head(pending[w])
       IN  /\ resource' = [resource EXCEPT ![e.id] = Mutate(e)]
           /\ everHeld' = [everHeld EXCEPT ![e.id] = @ \cup {resource'[e.id].assignee}]
           /\ notified' = IF e.type = "notification_created"
                            THEN notified \cup {[user |-> e.recipient, id |-> e.id]} ELSE notified
    /\ AfterStore(w, Tail(pending[w]))
    /\ UNCHANGED <<closing, requests>>

(* The node refuses an event, does not answer, or the API process is       *)
(* killed: the events left are never stored.                               *)
Fail(w) ==
    /\ pc[w] # "idle"
    /\ AfterStore(w, <<>>)
    /\ closing' = [closing EXCEPT ![w] = NoOne]
    /\ UNCHANGED <<resource, everHeld, notified, requests>>

-----------------------------------------------------------------------------
Next ==
    \E w \in Workers :
        \/ CreateSubproject(w) \/ CreateWorkflowitem(w)
        \/ Assign(w) \/ Update(w) \/ SetWorkflowitemOrdering(w)
        \/ CloseWorkflowitem(w) \/ BeginClose(w) \/ FinishClose(w)
        \/ Store(w) \/ Fail(w)

Spec == Init /\ [][Next]_vars

-----------------------------------------------------------------------------
(* Properties.                                                             *)

TypeOK ==
    /\ resource \in [Ids -> Resource]
    /\ everHeld \in [Ids -> SUBSET (Identities \cup {NoOne})]
    /\ notified \subseteq [user: Users, id: Ids]
    /\ pc \in [Workers -> {"idle", "resolving", "storing"}]
    /\ closing \in [Workers -> Closing \cup {NoOne}]
    /\ pending \in [Workers -> Seq(Event)]
    /\ requests \in 0 .. MaxRequests
    /\ \A w \in Workers :
        /\ pc[w] = "storing" <=> pending[w] # <<>>
        /\ pc[w] = "resolving" => closing[w] \in Closing

(* What the close of a workflowitem or of a subproject relied on when it   *)
(* was decided, that the items before it, or all its items, are closed,    *)
(* still holds when the event is stored, whatever was stored meanwhile.    *)
DecisionsStayJustified ==
    \A w \in Workers : \A k \in DOMAIN pending[w] :
        LET e == pending[w][k]
        IN  e.type = "closed" /\ e.id # Project =>
                \A y \in e.basis : IsClosed(y)

(* "Re-opening is not supported" (ADR 0004), but for one case: a creation  *)
(* of a subproject, decided when no subproject had its id, is stored after *)
(* another one of that id was created and closed.  The project and the     *)
(* workflowitems stay closed, whatever is stored late.                     *)
CreatesNext(w, x) ==
    /\ pc[w] = "storing"
    /\ Head(pending[w]).type = "created" /\ Head(pending[w]).id = x

OnlyCreationsReopen ==
    [][\A x \in Ids : IsClosed(x) /\ ~IsClosed(x)' =>
            x \in Subprojects /\ \E w \in Workers : CreatesNext(w, x) /\ Store(w)]_vars

(* Nobody is told about a resource that was never assigned to an identity  *)
(* he is a member of, even if storing fails half-way.                      *)
OnlyHoldersAreNotified ==
    \A n \in notified :
        \E a \in everHeld[n.id] : a # NoOne /\ n.user \in Members[a]

(* The workflowitems lead the life ADR 0004 promises (ItemLife).           *)
LifeOf(i) ==
    IF Exists(i)
      THEN [status |-> resource[i].status, rejected |-> resource[i].rejected,
            data |-> resource[i].data]
      ELSE [status |-> "absent"]

Lives == [i \in Items |-> LifeOf(i)]

Life == INSTANCE ItemLife WITH life <- Lives

ItemsLead == Life!Spec
=============================================================================

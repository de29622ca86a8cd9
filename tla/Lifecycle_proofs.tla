-------------------------- MODULE Lifecycle_proofs --------------------------
(***************************************************************************)
(* What Lifecycle promises, for every number of subprojects, workflowitems *)
(* users and concurrent requests.                                          *)
(*                                                                         *)
(* The argument has two halves.  Deciding (lemma Decided): every command   *)
(* yields events that are well formed and justified by the resources as    *)
(* they are then.  Storing (lemma StaysJustified): an event that was       *)
(* justified when it was decided still is when it is stored, although      *)
(* anything may have been stored in between.                               *)
(***************************************************************************)
EXTENDS Lifecycle, FiniteSetTheorems, SequenceTheorems, TLAPS

-----------------------------------------------------------------------------
(* The inductive invariant.                                                *)

(* Subprojects hang below the project, workflowitems below a subproject.   *)
Rooted(x, parent) ==
    /\ x \in Items => parent \in Subprojects
    /\ x \in Subprojects => parent = Project

(* What makes it right to store an event: it creates something new (only   *)
(* of a workflowitem can the API be sure), or it is about something that   *)
(* exists, and what a close relied on is closed.                           *)
Justified(e) ==
    /\ e.type = "created" =>
        /\ Rooted(e.id, e.record.parent)
        /\ e.record.status = "open" /\ ~e.record.rejected
        /\ e.record.assignee # NoOne
        /\ e.id \in Items => ~Exists(e.id)
    /\ e.type # "created" => Exists(e.id)
    /\ e.type = "closed" /\ e.id # Project =>
        e.basis \subseteq Items /\ \A y \in e.basis : IsClosed(y)

Tree ==
    \A x \in Ids : Exists(x) =>
        /\ Rooted(x, resource[x].parent)
        /\ resource[x].assignee # NoOne

PendingJustified ==
    \A w \in Workers : \A k \in DOMAIN pending[w] : Justified(pending[w][k])

(* Two requests never create the same workflowitem.                        *)
CreatesItem(e) == e.type = "created" /\ e.id \in Items

OneCreation ==
    \A v, w \in Workers : \A k \in DOMAIN pending[v], n \in DOMAIN pending[w] :
        CreatesItem(pending[v][k]) /\ pending[w][n].id = pending[v][k].id
            => v = w /\ k = n

ClosingExists == \A w \in Workers : pc[w] = "resolving" => Exists(closing[w].id)

IInv == TypeOK /\ Tree /\ PendingJustified /\ OneCreation /\ ClosingExists

(* Notifications.  Whom a notification tells was a holder of the resource  *)
(* when it was decided, or is made one by an event stored before it.       *)

Holder(x, u) == \E a \in everHeld[x] : a # NoOne /\ u \in Members[a]

Follows(events, k) ==
    \/ events[k].type # "notification_created"
    \/ Holder(events[k].id, events[k].recipient)
    \/ \E n \in DOMAIN events :
            /\ n < k /\ events[n].type = "assigned" /\ events[n].id = events[k].id
            /\ events[k].recipient \in Members[events[n].assignee]

HoldersRecorded == \A x \in Ids : Exists(x) => resource[x].assignee \in everHeld[x]

NotificationsFollow == \A w \in Workers : \A k \in DOMAIN pending[w] : Follows(pending[w], k)

ClosingTellsHolders ==
    \A w \in Workers : pc[w] = "resolving" =>
        \A u \in closing[w].recipients : Holder(closing[w].id, u)

HInv ==
    /\ OnlyHoldersAreNotified /\ HoldersRecorded
    /\ NotificationsFollow /\ ClosingTellsHolders

-----------------------------------------------------------------------------
(* The operators of the model.                                             *)

LEMMA AnyTypes == AnyData \in Data /\ AnyTime \in Times
BY LifecycleAssumption DEF AnyData, AnyTime

LEMMA EventFacts ==
    ASSUME NEW e \in Event
    PROVE  /\ e.id \in Ids
           /\ e.type = "created" => e.id \in Subprojects \cup Items /\ e.record \in Resource
           /\ e.type = "assigned" => e.assignee \in Identities
           /\ e.type = "updated" => e.data \in Data
           /\ e.type = "reordered" => e.ordering \in Seq(Items)
           /\ e.type = "closed" => e.rejectReason \in BOOLEAN /\ e.basis \subseteq Ids
           /\ e.type = "notification_created" => e.recipient \in Users
           /\ e.type \in {"created", "assigned", "updated", "reordered", "closed",
                          "notification_created"}
BY DEF Event, Ids

LEMMA NewRecordType ==
    ASSUME NEW parent \in Ids \cup {NoOne}, NEW a \in Identities,
           NEW v \in Users \cup {NoOne}, NEW d \in Data, NEW t \in Times
    PROVE  NewRecord(parent, a, v, d, t) \in Resource
<1>1. <<>> \in Seq(Items)
  OBVIOUS
<1>2. QED
  BY <1>1 DEF NewRecord, Resource

(* Notifications tell the recipients, and nobody else, of the resource.    *)
LEMMA NotificationsType ==
    ASSUME NEW issuer, NEW recipients \in SUBSET Users, NEW x \in Ids
    PROVE  /\ Notifications(issuer, recipients, x) \in Seq(Event)
           /\ \A k \in DOMAIN Notifications(issuer, recipients, x) :
                LET e == Notifications(issuer, recipients, x)[k]
                IN  /\ e.type = "notification_created" /\ e.id = x
                    /\ e.recipient \in recipients
<1> DEFINE S == recipients \ {issuer}
           n == Cardinality(S)
           others == SetToSeq(S)
<1>1. IsFiniteSet(S)
  BY LifecycleAssumption, FS_Subset
<1>2. n \in Nat /\ ExistsBijection(1 .. n, S)
  BY <1>1, FS_CardinalityType
<1>3. \E f \in [1 .. n -> S] : IsInjective(f)
  BY <1>2 DEF ExistsBijection, Bijection, Injection, Surjection, IsInjective
<1>4. others \in [1 .. n -> S]
  BY <1>3 DEF SetToSeq
<1> HIDE DEF others, n, S
<1>5. \A k \in 1 .. n :
        /\ others[k] \in recipients
        /\ NotificationCreated(others[k], x) \in Event
        /\ NotificationCreated(others[k], x).type = "notification_created"
        /\ NotificationCreated(others[k], x).id = x
        /\ NotificationCreated(others[k], x).recipient = others[k]
  BY <1>4 DEF NotificationCreated, Event, S
<1>6. Notifications(issuer, recipients, x) = [k \in 1 .. n |-> NotificationCreated(others[k], x)]
  BY <1>4 DEF Notifications, others, S
<1>7. QED
  BY <1>2, <1>5, <1>6

LEMMA MutateType ==
    ASSUME TypeOK, NEW e \in Event
    PROVE  Mutate(e) \in Resource
<1>1. resource[e.id] \in Resource
  BY EventFacts DEF TypeOK
<1>2. NextIndex(e.id) \in Nat
  <2>1. Cardinality({y \in Items : Exists(y)}) \in Nat
    BY LifecycleAssumption, FS_Subset, FS_CardinalityType
  <2>2. resource[e.id].index \in Nat
    BY <1>1 DEF Resource
  <2>3. QED
    BY <2>1, <2>2 DEF NextIndex
<1>3. CASE e.type = "created"
  <2>1. e.record \in Resource
    BY <1>3, EventFacts
  <2>2. [e.record EXCEPT !.index = NextIndex(e.id)] \in Resource
    BY <1>2, <2>1 DEF Resource
  <2>3. QED
    BY <1>3, <2>2 DEF Mutate
<1>4. CASE e.type # "created" /\ ~Exists(e.id)
  BY <1>1, <1>4 DEF Mutate
<1>5. CASE e.type = "assigned" /\ Exists(e.id)
  BY <1>1, <1>5, EventFacts DEF Mutate, Resource
<1>6. CASE e.type = "updated" /\ Exists(e.id)
  BY <1>1, <1>6, EventFacts DEF Mutate, Resource, IfOpen
<1>7. CASE e.type = "reordered" /\ Exists(e.id)
  BY <1>1, <1>7, EventFacts DEF Mutate, Resource
<1>8. CASE e.type = "closed" /\ Exists(e.id)
  BY <1>1, <1>8, EventFacts DEF Mutate, Resource
<1>9. CASE e.type = "notification_created"
  BY <1>1, <1>9 DEF Mutate
<1>10. QED
  BY <1>3, <1>4, <1>5, <1>6, <1>7, <1>8, <1>9, EventFacts

(* What an event leaves of a resource that exists.                         *)
LEMMA MutateKeeps ==
    ASSUME TypeOK, NEW e \in Event, Justified(e)
    PROVE  /\ Mutate(e).status # "absent"
           /\ Mutate(e).assignee =
                CASE e.type = "created" -> e.record.assignee
                  [] e.type = "assigned" -> e.assignee
                  [] OTHER -> resource[e.id].assignee
           /\ Mutate(e).parent =
                IF e.type = "created" THEN e.record.parent ELSE resource[e.id].parent
           /\ e.id \in Items /\ IsClosed(e.id) => Mutate(e).status = "closed"
<1>1. resource[e.id] \in Resource
  BY EventFacts DEF TypeOK
<1>2. CASE e.type = "created"
  <2>1. e.record \in Resource
    BY <1>2, EventFacts
  <2>2. Mutate(e) = [e.record EXCEPT !.index = NextIndex(e.id)]
    BY <1>2 DEF Mutate
  <2>3. /\ Mutate(e).status = "open"
        /\ Mutate(e).assignee = e.record.assignee
        /\ Mutate(e).parent = e.record.parent
    BY <1>2, <2>1, <2>2 DEF Resource, Justified
  <2>4. e.id \in Items => ~IsClosed(e.id)
    BY <1>2 DEF Justified, Exists, IsClosed
  <2>5. QED
    BY <1>2, <2>3, <2>4
<1>3. CASE e.type # "created"
  <2>0. Exists(e.id)
    BY <1>3 DEF Justified
  <2>1. CASE e.type = "assigned"
    BY <1>1, <2>0, <2>1 DEF Mutate, Resource, Exists, IsClosed
  <2>2. CASE e.type = "updated"
    BY <1>1, <2>0, <2>2 DEF Mutate, Resource, Exists, IsClosed, IfOpen
  <2>3. CASE e.type = "reordered"
    BY <1>1, <2>0, <2>3 DEF Mutate, Resource, Exists, IsClosed
  <2>4. CASE e.type = "closed"
    BY <1>1, <2>0, <2>4 DEF Mutate, Resource, Exists, IsClosed
  <2>5. CASE e.type = "notification_created"
    BY <1>1, <2>0, <2>5 DEF Mutate, Resource, Exists, IsClosed
  <2>6. QED
    BY <1>3, <2>1, <2>2, <2>3, <2>4, <2>5, EventFacts
<1>4. QED
  BY <1>2, <1>3

-----------------------------------------------------------------------------
(* The initial states.                                                     *)

LEMMA PrepareType ==
    ASSUME NEW x \in Ids, NEW a \in Identities
    PROVE  /\ Prepare(x, a) \in Resource
           /\ Prepare(x, a).status \in {"absent", "open"} /\ Prepare(x, a).rejected = FALSE
           /\ Prepare(x, a).status # "absent" =>
                /\ Rooted(x, Prepare(x, a).parent)
                /\ Prepare(x, a).assignee # NoOne
<1>0. NoOne \in Ids \cup {NoOne} /\ NoOne \in Users \cup {NoOne}
  OBVIOUS
<1>1. CASE x = Project
  <2>1. Prepare(x, a) = NewRecord(NoOne, a, NoOne, AnyData, AnyTime)
    BY <1>1 DEF Prepare
  <2>2. x \notin Items /\ x \notin Subprojects
    BY <1>1, LifecycleAssumption
  <2> DEFINE r == NewRecord(NoOne, a, NoOne, AnyData, AnyTime)
  <2>3. r \in Resource
    BY <1>0, AnyTypes, NewRecordType
  <2>6. r.assignee # NoOne /\ r.status = "open" /\ r.rejected = FALSE
    BY LifecycleAssumption DEF NewRecord
  <2> HIDE DEF r
  <2>4. Rooted(x, r.parent)
    BY <2>2 DEF Rooted
  <2>5. QED
    BY <2>1, <2>3, <2>6, <2>4 DEF r
<1>2. CASE x # Project /\ Places(x) # {}
  <2>1. Places(x) \subseteq Nat
    <3>1. DOMAIN Prepared \subseteq Nat
      BY LifecycleAssumption
    <3>2. QED
      BY <3>1 DEF Places
  <2>2. Place(x) \in Places(x)
    BY <1>2 DEF Place
  <2>3. x \in Items => ParentOf(x) \in Subprojects
    <3>1. x \in Items => \E s \in Subprojects : Places(s) # {}
      BY <2>2, LifecycleAssumption DEF Places
    <3>2. QED
      BY <3>1 DEF ParentOf
  <2>4. ParentOf(x) \in Ids /\ Rooted(x, ParentOf(x))
    BY <2>3, LifecycleAssumption DEF Rooted, Ids, ParentOf
  <2> DEFINE r == NewRecord(ParentOf(x), a, NoOne, AnyData, AnyTime)
  <2>5. r \in Resource
    BY <1>0, <2>4, NewRecordType, AnyTypes
  <2>6. /\ r.parent = ParentOf(x) /\ r.assignee # NoOne
        /\ r.status = "open" /\ r.rejected = FALSE
    BY LifecycleAssumption DEF NewRecord
  <2>7. Prepare(x, a) = [r EXCEPT !.index = Place(x)]
    BY <1>2 DEF Prepare
  <2> HIDE DEF r
  <2>8. /\ Prepare(x, a) \in Resource
        /\ Prepare(x, a).parent = ParentOf(x) /\ Prepare(x, a).assignee # NoOne
        /\ Prepare(x, a).status = "open" /\ Prepare(x, a).rejected = FALSE
    BY <2>1, <2>2, <2>5, <2>6, <2>7 DEF Resource
  <2>9. QED
    BY <2>4, <2>8
<1>3. CASE x # Project /\ Places(x) = {}
  <2>1. Prepare(x, a) = Absent
    BY <1>3 DEF Prepare
  <2>2. <<>> \in Seq(Items)
    OBVIOUS
  <2>3. Absent \in Resource
    BY <2>2, AnyTypes DEF Absent, Resource
  <2>4. Absent.status = "absent" /\ Absent.rejected = FALSE
    BY DEF Absent
  <2>5. QED
    BY <2>1, <2>3, <2>4
<1>4. QED
  BY <1>1, <1>2, <1>3

LEMMA InitIInv == Init => IInv
<1> SUFFICES ASSUME Init PROVE IInv
  OBVIOUS
<1>1. PICK a \in Identities : resource = [x \in Ids |-> Prepare(x, a)]
  BY DEF Init
<1>2. resource \in [Ids -> Resource]
  BY <1>1, PrepareType
<1>3. \A x \in Ids : resource[x].assignee \in Identities \cup {NoOne}
  BY <1>2 DEF Resource
<1>4. TypeOK
  <2>1. everHeld \in [Ids -> SUBSET (Identities \cup {NoOne})]
    BY <1>3 DEF Init
  <2>2. pending \in [Workers -> Seq(Event)]
    BY DEF Init
  <2>3. QED
    BY <1>2, <2>1, <2>2, LifecycleAssumption DEF Init, TypeOK
<1>5. Tree
  BY <1>1, PrepareType DEF Tree, Exists
<1>6. PendingJustified /\ OneCreation /\ ClosingExists
  BY DEF Init, PendingJustified, OneCreation, ClosingExists
<1>7. QED
  BY <1>4, <1>5, <1>6 DEF IInv

-----------------------------------------------------------------------------
(* Deciding.                                                               *)

(* An event that is decided, and the notifications that go with it.        *)
Decision(e, notifications) ==
    /\ e \in Event /\ Justified(e)
    /\ notifications \in Seq(Event)
    /\ \A k \in DOMAIN notifications :
            notifications[k].type = "notification_created" /\ notifications[k].id = e.id
    /\ e.type = "created" => notifications = <<>>
    /\ CreatesItem(e) => Fresh(e.id)

(* The notifications of a decision tell holders of its resource, or those  *)
(* whom the decision makes holders.                                        *)
TellsHolders(e, notifications) ==
    /\ e.type # "notification_created"
    /\ \A k \in DOMAIN notifications :
            \/ Holder(e.id, notifications[k].recipient)
            \/ e.type = "assigned" /\ notifications[k].recipient \in Members[e.assignee]

Decides(w) ==
    \E e, notifications :
        /\ Decision(e, notifications)
        /\ HInv => TellsHolders(e, notifications)
        /\ Decide(w, e, notifications)

LEMMA Decided ==
    ASSUME IInv, NEW w \in Workers, NEW e, NEW notifications,
           Decision(e, notifications), Decide(w, e, notifications),
           resource' = resource
    PROVE  /\ pending' \in [Workers -> Seq(Event)]
           /\ pc' \in [Workers -> {"idle", "resolving", "storing"}]
           /\ pending'[w] # <<>> /\ pc'[w] = "storing"
           /\ \A v \in Workers \ {w} : pending'[v] = pending[v] /\ pc'[v] = pc[v]
           /\ PendingJustified' /\ OneCreation'
<1> DEFINE new == <<e>> \o notifications
<1>1. /\ new \in Seq(Event) /\ Len(new) = 1 + Len(notifications)
      /\ new[1] = e
      /\ \A k \in DOMAIN new : k # 1 => k - 1 \in DOMAIN notifications
                                          /\ new[k] = notifications[k - 1]
  BY DEF Decision
<1>2. \A k \in DOMAIN new :
        /\ new[k].id = e.id
        /\ k = 1 \/ new[k].type = "notification_created"
  BY <1>1 DEF Decision
<1>3. /\ pending' = [pending EXCEPT ![w] = new]
      /\ pc' = [pc EXCEPT ![w] = "storing"]
  BY DEF Decide
<1>4. new # <<>> /\ 1 \in DOMAIN new
  BY <1>1 DEF Decision
<1> HIDE DEF new
<1>5. pending \in [Workers -> Seq(Event)] /\ pc \in [Workers -> {"idle", "resolving", "storing"}]
  BY DEF IInv, TypeOK
<1>6. /\ pending' \in [Workers -> Seq(Event)]
      /\ pc' \in [Workers -> {"idle", "resolving", "storing"}]
      /\ pending'[w] = new /\ pc'[w] = "storing"
      /\ \A v \in Workers \ {w} : pending'[v] = pending[v] /\ pc'[v] = pc[v]
  BY <1>1, <1>3, <1>5
<1>7. ASSUME NEW v \in Workers, NEW k, Justified(pending'[v][k])
      PROVE  Justified(pending[v][k])'
  BY <1>7 DEF Justified, Rooted, Exists, IsClosed
<1>8. \A k \in DOMAIN new : Justified(new[k])
  <2> SUFFICES ASSUME NEW k \in DOMAIN new PROVE Justified(new[k])
    OBVIOUS
  <2>1. CASE k = 1
    BY <1>1, <2>1 DEF Decision
  <2>2. CASE k # 1
    <3>1. new[k].type = "notification_created" /\ new[k].id = e.id
      BY <1>2, <2>2
    <3>2. notifications # <<>>
      BY <1>1, <2>2 DEF Decision
    <3>3. Exists(e.id)
      BY <3>2 DEF Decision, Justified
    <3>4. QED
      BY <3>1, <3>3 DEF Justified
  <2>3. QED
    BY <2>1, <2>2
<1>9. PendingJustified'
  <2> SUFFICES ASSUME NEW v \in Workers, NEW k \in DOMAIN pending'[v]
               PROVE  Justified(pending[v][k])'
    BY DEF PendingJustified
  <2>1. CASE v = w
    <3>1. Justified(pending'[v][k])
      BY <1>6, <1>8, <2>1
    <3>2. QED
      BY <3>1, <1>7
  <2>2. CASE v # w
    <3>1. Justified(pending'[v][k])
      BY <1>6, <2>2 DEF IInv, PendingJustified
    <3>2. QED
      BY <3>1, <1>7
  <2>3. QED
    BY <2>1, <2>2
<1>10. OneCreation'
  <2> SUFFICES ASSUME NEW u \in Workers, NEW v \in Workers,
                      NEW k \in DOMAIN pending'[u], NEW n \in DOMAIN pending'[v],
                      CreatesItem(pending'[u][k]), pending'[v][n].id = pending'[u][k].id
               PROVE  u = v /\ k = n
    BY DEF OneCreation, CreatesItem
  <2>1. CASE u # w /\ v # w
    <3>1. pending'[u] = pending[u] /\ pending'[v] = pending[v]
      BY <1>6, <2>1
    <3>2. OneCreation
      BY DEF IInv
    <3>3. QED
      BY <3>1, <3>2 DEF OneCreation
  <2>2. CASE u = w
    <3>0. k \in DOMAIN new /\ CreatesItem(new[k]) /\ pending'[v][n].id = new[k].id
      BY <1>6, <2>2
    <3>1. k = 1 /\ CreatesItem(e) /\ pending'[v][n].id = e.id
      BY <1>1, <1>2, <3>0 DEF CreatesItem
    <3>2. notifications = <<>> /\ Fresh(e.id)
      BY <3>1 DEF Decision, CreatesItem
    <3>3. v = w
      BY <1>6, <3>1, <3>2 DEF Fresh
    <3>4. n = 1
      <4>1. n \in DOMAIN new
        BY <1>6, <3>3
      <4>2. QED
        BY <1>1, <3>2, <4>1
    <3>5. QED
      BY <2>2, <3>1, <3>3, <3>4
  <2>3. CASE u # w /\ v = w
    <3>0. n \in DOMAIN new /\ pending'[v][n] = new[n]
      BY <1>6, <2>3
    <3>1. k \in DOMAIN pending[u] /\ CreatesItem(pending[u][k]) /\ pending[u][k].id = e.id
      BY <1>2, <1>6, <2>3, <3>0
    <3>2. ~Exists(e.id) /\ e.id \in Items
      BY <3>1 DEF IInv, PendingJustified, Justified, CreatesItem
    <3>3. CreatesItem(e)
      BY <3>2 DEF Decision, Justified, CreatesItem
    <3>4. QED
      BY <3>1, <3>3 DEF Decision, Fresh
  <2>4. QED
    BY <2>1, <2>2, <2>3
<1>11. QED
  BY <1>4, <1>6, <1>9, <1>10

LEMMA RequestInv ==
    ASSUME IInv, NEW w \in Workers, Idle(w), Decides(w), requests' = requests + 1,
           UNCHANGED <<resource, everHeld, notified, closing>>
    PROVE  IInv'
<1>1. /\ pending' \in [Workers -> Seq(Event)]
      /\ pc' \in [Workers -> {"idle", "resolving", "storing"}]
      /\ pending'[w] # <<>> /\ pc'[w] = "storing"
      /\ \A v \in Workers \ {w} : pending'[v] = pending[v] /\ pc'[v] = pc[v]
      /\ PendingJustified' /\ OneCreation'
  BY Decided DEF Decides
<1>2. requests' \in 0 .. MaxRequests
  BY LifecycleAssumption DEF IInv, TypeOK, Idle
<1>3. TypeOK'
  BY <1>1, <1>2 DEF IInv, TypeOK, Idle
<1>4. Tree' /\ ClosingExists'
  BY <1>1 DEF IInv, Tree, ClosingExists, Exists, Rooted
<1>5. QED
  BY <1>1, <1>3, <1>4 DEF IInv

LEMMA NotifyingDecision ==
    ASSUME NEW e \in Event, e.type # "created", Justified(e),
           NEW issuer, NEW recipients \in SUBSET Users
    PROVE  Decision(e, Notifications(issuer, recipients, e.id))
<1>1. e.id \in Ids
  BY EventFacts
<1>2. /\ Notifications(issuer, recipients, e.id) \in Seq(Event)
      /\ \A k \in DOMAIN Notifications(issuer, recipients, e.id) :
            /\ Notifications(issuer, recipients, e.id)[k].type = "notification_created"
            /\ Notifications(issuer, recipients, e.id)[k].id = e.id
  BY <1>1, NotificationsType
<1>3. QED
  BY <1>2 DEF Decision, CreatesItem

LEMMA NotifyHolders ==
    ASSUME NEW e \in Event, e.type \notin {"created", "notification_created"},
           NEW issuer, NEW recipients \in SUBSET Users,
           \/ \A u \in recipients : Holder(e.id, u)
           \/ e.type = "assigned" /\ recipients = Members[e.assignee]
    PROVE  TellsHolders(e, Notifications(issuer, recipients, e.id))
<1>1. e.id \in Ids
  BY EventFacts
<1>2. \A k \in DOMAIN Notifications(issuer, recipients, e.id) :
            Notifications(issuer, recipients, e.id)[k].recipient \in recipients
  BY <1>1, NotificationsType
<1>3. QED
  BY <1>2 DEF TellsHolders

(* The users that an identity which holds a resource stands for.           *)
LEMMA HolderType ==
    ASSUME IInv, NEW x \in Ids, Exists(x)
    PROVE  resource[x].assignee \in Identities /\ Members[resource[x].assignee] \in SUBSET Users
<1>1. resource[x].assignee \in Identities
  BY DEF IInv, TypeOK, Resource, Tree
<1>2. QED
  BY <1>1, LifecycleAssumption

(* Those the assignee of a resource stands for hold it.                    *)
LEMMA AssigneesHold ==
    ASSUME IInv, HInv, NEW x \in Ids, Exists(x), NEW u \in Members[resource[x].assignee]
    PROVE  Holder(x, u)
BY HolderType, LifecycleAssumption DEF HInv, HoldersRecorded, Holder

LEMMA CreateSubprojectDecides ==
    ASSUME IInv, NEW w \in Workers, CreateSubproject(w)
    PROVE  Decides(w)
<1>1. PICK s \in Subprojects, a \in Identities, v \in Users \cup {NoOne}, d \in Data :
        /\ ~Exists(s)
        /\ Decide(w, Created(s, NewRecord(Project, a, v, d, AnyTime)), <<>>)
  BY DEF CreateSubproject
<1> DEFINE r == NewRecord(Project, a, v, d, AnyTime)
<1>2. r \in Resource
  BY NewRecordType, AnyTypes DEF Ids
<1>3. r.parent = Project /\ r.status = "open" /\ ~r.rejected /\ r.assignee # NoOne
  BY LifecycleAssumption DEF NewRecord
<1> HIDE DEF r
<1>4. Decision(Created(s, r), <<>>)
  BY <1>2, <1>3, LifecycleAssumption
  DEF Decision, Created, Event, Justified, Rooted, CreatesItem
<1>5. TellsHolders(Created(s, r), <<>>)
  BY DEF TellsHolders, Created
<1>6. QED
  BY <1>1, <1>4, <1>5 DEF Decides, r

LEMMA CreateWorkflowitemDecides ==
    ASSUME IInv, NEW w \in Workers, CreateWorkflowitem(w)
    PROVE  Decides(w)
<1>1. PICK i \in Items, s \in Subprojects, a \in Identities, d \in Data, t \in Times :
        /\ Fresh(i) /\ Exists(s)
        /\ Decide(w, Created(i, NewRecord(s, a, NoOne, d, t)), <<>>)
  BY DEF CreateWorkflowitem
<1> DEFINE r == NewRecord(s, a, NoOne, d, t)
<1>2. r \in Resource
  BY NewRecordType DEF Ids
<1>3. r.parent = s /\ r.status = "open" /\ ~r.rejected /\ r.assignee # NoOne
  BY LifecycleAssumption DEF NewRecord
<1> HIDE DEF r
<1>4. Decision(Created(i, r), <<>>)
  BY <1>1, <1>2, <1>3, LifecycleAssumption
  DEF Decision, Created, Event, Justified, Rooted, CreatesItem, Fresh
<1>5. TellsHolders(Created(i, r), <<>>)
  BY DEF TellsHolders, Created
<1>6. QED
  BY <1>1, <1>4, <1>5 DEF Decides, r

LEMMA AssignDecides ==
    ASSUME IInv, NEW w \in Workers, Assign(w)
    PROVE  Decides(w)
<1>1. PICK x \in Ids, issuer \in Users, a \in Identities :
        /\ Exists(x) /\ resource[x].assignee # a
        /\ Decide(w, Assigned(x, a), Notifications(issuer, Members[a], x))
  BY DEF Assign
<1>2. Members[a] \in SUBSET Users
  BY LifecycleAssumption
<1>3. /\ Assigned(x, a) \in Event /\ Assigned(x, a).type # "created"
      /\ Assigned(x, a).id = x /\ Justified(Assigned(x, a))
  BY <1>1 DEF Assigned, Event, Justified
<1>4. Decision(Assigned(x, a), Notifications(issuer, Members[a], x))
  BY <1>2, <1>3, NotifyingDecision
<1>5. TellsHolders(Assigned(x, a), Notifications(issuer, Members[a], x))
  BY <1>2, <1>3, NotifyHolders DEF Assigned
<1>6. QED
  BY <1>1, <1>4, <1>5 DEF Decides

LEMMA UpdateDecides ==
    ASSUME IInv, NEW w \in Workers, Update(w)
    PROVE  Decides(w)
<1>1. PICK x \in Ids, issuer \in Users, d \in Data :
        /\ IsOpen(x) /\ resource[x].data # d
        /\ Decide(w, Updated(x, d),
                  Notifications(issuer, Members[resource[x].assignee], x))
  BY DEF Update
<1>2. Exists(x) /\ Members[resource[x].assignee] \in SUBSET Users
  BY <1>1, HolderType DEF IsOpen, Exists
<1>3. /\ Updated(x, d) \in Event /\ Updated(x, d).type # "created"
      /\ Updated(x, d).id = x /\ Justified(Updated(x, d))
  BY <1>2 DEF Updated, Event, Justified
<1>4. Decision(Updated(x, d), Notifications(issuer, Members[resource[x].assignee], x))
  BY <1>2, <1>3, NotifyingDecision
<1>5. HInv => TellsHolders(Updated(x, d),
                           Notifications(issuer, Members[resource[x].assignee], x))
  <2> SUFFICES ASSUME HInv
               PROVE  TellsHolders(Updated(x, d),
                           Notifications(issuer, Members[resource[x].assignee], x))
    OBVIOUS
  <2>1. \A u \in Members[resource[x].assignee] : Holder(x, u)
    BY <1>2, AssigneesHold
  <2>2. Updated(x, d).type \notin {"created", "notification_created"}
    BY DEF Updated
  <2>3. QED
    BY <1>2, <1>3, <2>1, <2>2, NotifyHolders
<1>6. QED
  BY <1>1, <1>4, <1>5 DEF Decides

LEMMA SetWorkflowitemOrderingDecides ==
    ASSUME IInv, NEW w \in Workers, SetWorkflowitemOrdering(w)
    PROVE  Decides(w)
<1>1. PICK s \in Subprojects, ordering \in Orderings :
        /\ Exists(s) /\ Decide(w, Reordered(s, ordering), <<>>)
  BY DEF SetWorkflowitemOrdering
<1>2. Decision(Reordered(s, ordering), <<>>)
  <2>1. ordering \in Seq(Items)
    BY LifecycleAssumption
  <2>2. QED
    BY <1>1, <2>1 DEF Decision, Reordered, Event, Justified, CreatesItem
<1>3. TellsHolders(Reordered(s, ordering), <<>>)
  BY DEF TellsHolders, Reordered
<1>4. QED
  BY <1>1, <1>2, <1>3 DEF Decides

(* Below a subproject there are workflowitems only.                        *)
LEMMA ChildrenOfSubproject ==
    ASSUME IInv, NEW s \in Subprojects
    PROVE  Children(s) \subseteq Items
BY LifecycleAssumption DEF IInv, Tree, Children, Rooted, Ids

LEMMA CloseWorkflowitemDecides ==
    ASSUME IInv, NEW w \in Workers, CloseWorkflowitem(w)
    PROVE  Decides(w)
<1> DEFINE previous(i) == {j \in Children(resource[i].parent) :
                IsClosed(j) \/ Precedes(j, i, resource[resource[i].parent].ordering)}
<1>1. PICK i \in Items, issuer \in Users, reject \in BOOLEAN :
        /\ IsOpen(i) /\ AllClosed(previous(i))
        /\ Decide(w, Closed(i, reject, previous(i)),
                  Notifications(issuer, Members[resource[i].assignee], i))
  BY DEF CloseWorkflowitem
<1>2. i \in Ids /\ Exists(i)
  BY <1>1 DEF IsOpen, Exists, Ids
<1>3. Members[resource[i].assignee] \in SUBSET Users
  BY <1>2, HolderType
<1>4. resource[i].parent \in Subprojects
  BY <1>2 DEF IInv, Tree, Rooted
<1>5. previous(i) \subseteq Items /\ \A y \in previous(i) : IsClosed(y)
  BY <1>1, <1>4, ChildrenOfSubproject DEF AllClosed
<1> HIDE DEF previous
<1> DEFINE e == Closed(i, reject, previous(i))
<1>6. e \in Event /\ e.type = "closed" /\ e.id = i /\ Justified(e)
  BY <1>2, <1>5 DEF Closed, Event, Justified, Ids
<1> HIDE DEF e
<1>7. Decision(e, Notifications(issuer, Members[resource[i].assignee], i))
  BY <1>3, <1>6, NotifyingDecision
<1>8. HInv => TellsHolders(e, Notifications(issuer, Members[resource[i].assignee], i))
  <2> SUFFICES ASSUME HInv
               PROVE  TellsHolders(e, Notifications(issuer, Members[resource[i].assignee], i))
    OBVIOUS
  <2>1. \A u \in Members[resource[i].assignee] : Holder(i, u)
    BY <1>2, AssigneesHold
  <2>2. QED
    BY <1>3, <1>6, <2>1, NotifyHolders
<1>9. QED
  BY <1>1, <1>7, <1>8 DEF Decides, e

LEMMA BeginCloseInv ==
    ASSUME IInv, NEW w \in Workers, BeginClose(w)
    PROVE  IInv'
<1>1. PICK x \in {Project} \cup Subprojects, issuer \in Users :
        /\ IsOpen(x)
        /\ closing' = [closing EXCEPT ![w] =
              [id |-> x, issuer |-> issuer, recipients |-> Members[resource[x].assignee]]]
  BY DEF BeginClose
<1>2. x \in Ids /\ Exists(x) /\ Members[resource[x].assignee] \in SUBSET Users
  BY <1>1, HolderType DEF IsOpen, Exists, Ids
<1> DEFINE c == [id |-> x, issuer |-> issuer, recipients |-> Members[resource[x].assignee]]
<1>3. c \in Closing /\ c.id = x
  BY <1>2 DEF Closing
<1>4. closing' = [closing EXCEPT ![w] = c]
  BY <1>1
<1> HIDE DEF c
<1>5. /\ closing'[w] = c /\ \A v \in Workers \ {w} : closing'[v] = closing[v]
      /\ closing' \in [Workers -> Closing \cup {NoOne}]
  BY <1>3, <1>4 DEF IInv, TypeOK
<1>6. /\ pc' \in [Workers -> {"idle", "resolving", "storing"}]
      /\ pc'[w] = "resolving" /\ \A v \in Workers \ {w} : pc'[v] = pc[v]
  BY DEF IInv, TypeOK, BeginClose
<1>7. requests' \in 0 .. MaxRequests
  BY LifecycleAssumption DEF IInv, TypeOK, Idle, BeginClose
<1>8. TypeOK'
  BY <1>3, <1>5, <1>6, <1>7 DEF IInv, TypeOK, Idle, BeginClose
<1>9. ClosingExists'
  BY <1>2, <1>3, <1>5, <1>6 DEF IInv, ClosingExists, Exists, BeginClose
<1>10. Tree' /\ PendingJustified' /\ OneCreation'
  BY DEF IInv, Tree, PendingJustified, OneCreation, Exists, IsClosed, Rooted, Justified,
     BeginClose
<1>11. QED
  BY <1>8, <1>9, <1>10 DEF IInv

LEMMA FinishCloseInv ==
    ASSUME IInv, NEW w \in Workers, FinishClose(w)
    PROVE  IInv'
<1> DEFINE x == closing[w].id
<1>1. closing[w] \in Closing /\ pc[w] = "resolving"
  BY DEF IInv, TypeOK, FinishClose
<1>2. /\ x \in {Project} \cup Subprojects /\ x \in Ids /\ Exists(x)
      /\ closing[w].recipients \in SUBSET Users
  BY <1>1 DEF Closing, IInv, ClosingExists, Ids
<1>3. /\ closing' \in [Workers -> Closing \cup {NoOne}]
      /\ \A v \in Workers \ {w} : closing'[v] = closing[v]
  BY DEF IInv, TypeOK, FinishClose
<1>4. Tree'
  BY DEF FinishClose, IInv, Tree, Exists, Rooted
<1>5. CASE AllClosed(Children(x))
  <2> DEFINE e == Closed(x, FALSE, Children(x))
  <2>1. Children(x) \subseteq Ids
    BY DEF Children, Ids
  <2>2. x # Project => Children(x) \subseteq Items /\ \A y \in Children(x) : IsClosed(y)
    BY <1>2, <1>5, ChildrenOfSubproject DEF AllClosed
  <2>3. e \in Event /\ e.type # "created" /\ e.id = x /\ Justified(e)
    BY <1>2, <2>1, <2>2 DEF Closed, Event, Justified
  <2> DEFINE told == Notifications(closing[w].issuer, closing[w].recipients, x)
  <2>4. Decide(w, e, told)
    BY <1>5 DEF FinishClose
  <2> HIDE DEF e
  <2>5. Decision(e, told)
    BY <1>2, <2>3, NotifyingDecision
  <2> HIDE DEF told
  <2>6. /\ pending' \in [Workers -> Seq(Event)]
        /\ pc' \in [Workers -> {"idle", "resolving", "storing"}]
        /\ pending'[w] # <<>> /\ pc'[w] = "storing"
        /\ \A v \in Workers \ {w} : pending'[v] = pending[v] /\ pc'[v] = pc[v]
        /\ PendingJustified' /\ OneCreation'
    BY <2>4, <2>5, Decided DEF FinishClose
  <2>7. TypeOK'
    BY <1>3, <2>6 DEF IInv, TypeOK, FinishClose
  <2>8. ClosingExists'
    BY <1>3, <2>6 DEF IInv, ClosingExists, Exists, FinishClose
  <2>9. QED
    BY <1>4, <2>6, <2>7, <2>8 DEF IInv
<1>6. CASE ~AllClosed(Children(x))
  <2>1. pc' = [pc EXCEPT ![w] = "idle"] /\ pending' = pending
    BY <1>6 DEF FinishClose
  <2>2. TypeOK'
    BY <1>1, <1>3, <2>1 DEF IInv, TypeOK, FinishClose
  <2>3. ClosingExists'
    BY <1>3, <2>1 DEF IInv, TypeOK, ClosingExists, Exists, FinishClose
  <2>4. PendingJustified' /\ OneCreation'
    BY <2>1 DEF IInv, PendingJustified, OneCreation, Exists, IsClosed, Rooted, Justified,
       FinishClose
  <2>5. QED
    BY <1>4, <2>2, <2>3, <2>4 DEF IInv
<1>7. QED
  BY <1>5, <1>6

LEMMA FailInv ==
    ASSUME IInv, NEW w \in Workers, Fail(w)
    PROVE  IInv'
<1>1. pending' = [pending EXCEPT ![w] = <<>>] /\ pc' = [pc EXCEPT ![w] = "idle"]
  BY DEF Fail, AfterStore
<1>2. TypeOK'
  BY <1>1 DEF Fail, IInv, TypeOK
<1>3. PendingJustified' /\ OneCreation'
  BY <1>1 DEF Fail, IInv, TypeOK, PendingJustified, OneCreation, Exists, IsClosed, Rooted,
     Justified
<1>4. Tree' /\ ClosingExists'
  BY <1>1 DEF Fail, IInv, TypeOK, Tree, ClosingExists, Exists, Rooted
<1>5. QED
  BY <1>2, <1>3, <1>4 DEF IInv

-----------------------------------------------------------------------------
(* Storing.                                                                *)

LEMMA Stored ==
    ASSUME IInv, NEW w \in Workers, Store(w), NEW e, e = Head(pending[w])
    PROVE  /\ e \in Event /\ Justified(e) /\ e.id \in Ids
           /\ 1 \in DOMAIN pending[w] /\ e = pending[w][1]
           /\ resource' = [resource EXCEPT ![e.id] = Mutate(e)]
           /\ resource' \in [Ids -> Resource]
           /\ resource'[e.id] = Mutate(e)
           /\ \A x \in Ids \ {e.id} : resource'[x] = resource[x]
           /\ pending' = [pending EXCEPT ![w] = Tail(pending[w])]
<1>1. pending[w] \in Seq(Event) /\ pending[w] # <<>>
  BY DEF Store, IInv, TypeOK
<1>2. e \in Event /\ 1 \in DOMAIN pending[w] /\ e = pending[w][1]
  BY <1>1
<1>3. Justified(e)
  BY <1>2 DEF IInv, PendingJustified
<1>4. Mutate(e) \in Resource /\ e.id \in Ids
  BY <1>2, MutateType, EventFacts DEF IInv
<1>5. resource' = [resource EXCEPT ![e.id] = Mutate(e)]
  BY DEF Store
<1>6. resource \in [Ids -> Resource]
  BY DEF IInv, TypeOK
<1>7. /\ resource' \in [Ids -> Resource] /\ resource'[e.id] = Mutate(e)
      /\ \A x \in Ids \ {e.id} : resource'[x] = resource[x]
  BY <1>4, <1>5, <1>6
<1>8. QED
  BY <1>2, <1>3, <1>4, <1>5, <1>7 DEF Store, AfterStore

(* What exists goes on existing, and closed workflowitems stay closed.     *)
LEMMA StoreKeeps ==
    ASSUME IInv, NEW w \in Workers, Store(w), NEW x \in Ids
    PROVE  /\ Exists(x) => Exists(x)'
           /\ x \in Items /\ IsClosed(x) => IsClosed(x)'
<1> DEFINE e == Head(pending[w])
<1>1. /\ e \in Event /\ Justified(e) /\ e.id \in Ids /\ resource'[e.id] = Mutate(e)
      /\ x # e.id => resource'[x] = resource[x]
  BY Stored
<1>2. /\ Mutate(e).status # "absent"
      /\ e.id \in Items /\ IsClosed(e.id) => Mutate(e).status = "closed"
  BY <1>1, MutateKeeps DEF IInv
<1> HIDE DEF e
<1>3. QED
  BY <1>1, <1>2 DEF Exists, IsClosed

(* The events that still wait are those after the one that is stored.      *)
LEMMA Waiting ==
    ASSUME IInv, NEW w \in Workers, Store(w), NEW v \in Workers, NEW k \in DOMAIN pending'[v]
    PROVE  \E n \in DOMAIN pending[v] :
                /\ pending'[v][k] = pending[v][n]
                /\ n = IF v = w THEN k + 1 ELSE k
                /\ ~(v = w /\ n = 1)
<1>1. pending[w] \in Seq(Event) /\ pending[w] # <<>>
  BY DEF Store, IInv, TypeOK
<1>2. pending' = [pending EXCEPT ![w] = Tail(pending[w])]
  BY Stored
<1>3. pending \in [Workers -> Seq(Event)]
  BY DEF IInv, TypeOK
<1>4. CASE v # w
  BY <1>2, <1>3, <1>4
<1>5. CASE v = w
  <2>1. pending'[v] = Tail(pending[w])
    BY <1>2, <1>3, <1>5
  <2>2. k \in 1 .. Len(pending[w]) - 1
    BY <1>1, <2>1
  <2>3. k + 1 \in DOMAIN pending[w] /\ Tail(pending[w])[k] = pending[w][k + 1]
    BY <1>1, <2>2
  <2>4. k + 1 # 1
    BY <2>2
  <2>5. QED
    BY <1>5, <2>1, <2>3, <2>4
<1>6. QED
  BY <1>4, <1>5

(* Storing an event does not take from another what justified it.          *)
LEMMA StaysJustified ==
    ASSUME IInv, NEW w \in Workers, Store(w), NEW v \in Workers, NEW k \in DOMAIN pending'[v]
    PROVE  Justified(pending[v][k])'
<1> DEFINE e == Head(pending[w])
<1>0. PICK f : f = pending'[v][k]
  OBVIOUS
<1>1. PICK n \in DOMAIN pending[v] : f = pending[v][n] /\ ~(v = w /\ n = 1)
  BY <1>0, Waiting
<1>2. Justified(f) /\ f \in Event
  BY <1>1 DEF IInv, TypeOK, PendingJustified
<1>3. f.id \in Ids /\ (f.type = "closed" => f.basis \subseteq Ids)
  BY <1>2, EventFacts
<1>4. e = pending[w][1] /\ 1 \in DOMAIN pending[w]
  BY Stored
<1>5. CreatesItem(f) => f.id # e.id
  BY <1>1, <1>4 DEF IInv, OneCreation
<1>6. \A x \in Ids \ {e.id} : resource'[x] = resource[x]
  BY Stored
<1> HIDE DEF e
<1>7. /\ Exists(f.id) => Exists(f.id)'
      /\ \A y \in Ids : y \in Items /\ IsClosed(y) => IsClosed(y)'
  BY <1>3, StoreKeeps
<1>8. CreatesItem(f) => ~Exists(f.id)'
  BY <1>2, <1>3, <1>5, <1>6 DEF Justified, CreatesItem, Exists
<1>9. QED
  BY <1>0, <1>2, <1>3, <1>7, <1>8 DEF Justified, CreatesItem, Rooted, Exists, IsClosed

LEMMA StoreInv ==
    ASSUME IInv, NEW w \in Workers, Store(w)
    PROVE  IInv'
<1> DEFINE e == Head(pending[w])
<1>1. /\ e \in Event /\ Justified(e) /\ e.id \in Ids /\ resource' \in [Ids -> Resource]
      /\ resource'[e.id] = Mutate(e)
      /\ \A x \in Ids \ {e.id} : resource'[x] = resource[x]
      /\ pending' = [pending EXCEPT ![w] = Tail(pending[w])]
  BY Stored
<1>2. TypeOK'
  <2>1. everHeld' \in [Ids -> SUBSET (Identities \cup {NoOne})]
    <3>1. everHeld' = [everHeld EXCEPT ![e.id] = @ \cup {resource'[e.id].assignee}]
      BY DEF Store
    <3>2. resource'[e.id].assignee \in Identities \cup {NoOne}
      BY <1>1 DEF Resource
    <3>3. QED
      BY <1>1, <3>1, <3>2 DEF IInv, TypeOK
  <2>2. notified' \subseteq [user: Users, id: Ids]
    <3>1. CASE e.type = "notification_created"
      <4>1. notified' = notified \cup {[user |-> e.recipient, id |-> e.id]}
        BY <3>1 DEF Store
      <4>2. e.recipient \in Users
        BY <1>1, <3>1, EventFacts
      <4>3. QED
        BY <1>1, <4>1, <4>2 DEF IInv, TypeOK
    <3>2. CASE e.type # "notification_created"
      BY <3>2 DEF Store, IInv, TypeOK
    <3>3. QED
      BY <3>1, <3>2
  <2>3. pending[w] \in Seq(Event) /\ pending[w] # <<>>
    BY DEF Store, IInv, TypeOK
  <2>4. Tail(pending[w]) \in Seq(Event)
    BY <2>3
  <2>5. /\ pending' \in [Workers -> Seq(Event)]
        /\ pending'[w] = Tail(pending[w])
        /\ \A v \in Workers \ {w} : pending'[v] = pending[v]
    BY <1>1, <2>4 DEF IInv, TypeOK
  <2>6. /\ pc' \in [Workers -> {"idle", "resolving", "storing"}]
        /\ pc'[w] = IF Tail(pending[w]) = <<>> THEN "idle" ELSE "storing"
        /\ \A v \in Workers \ {w} : pc'[v] = pc[v]
    BY DEF Store, AfterStore, IInv, TypeOK
  <2>7. closing' = closing /\ requests' = requests
    BY DEF Store
  <2>8. \A v \in Workers :
            /\ pc'[v] = "storing" <=> pending'[v] # <<>>
            /\ pc'[v] = "resolving" => closing'[v] \in Closing
    BY <2>5, <2>6, <2>7 DEF IInv, TypeOK
  <2>9. QED
    BY <1>1, <2>1, <2>2, <2>5, <2>6, <2>7, <2>8 DEF IInv, TypeOK
<1>3. Tree'
  <2> SUFFICES ASSUME NEW x \in Ids, resource'[x].status # "absent"
               PROVE  Rooted(x, resource'[x].parent) /\ resource'[x].assignee # NoOne
    BY DEF Tree, Exists, Rooted
  <2>1. CASE x # e.id
    BY <1>1, <2>1 DEF IInv, Tree, Exists
  <2>2. CASE x = e.id
    <3> DEFINE r == Mutate(e)
    <3>1. /\ r.assignee = CASE e.type = "created" -> e.record.assignee
                             [] e.type = "assigned" -> e.assignee
                             [] OTHER -> resource[x].assignee
          /\ r.parent = IF e.type = "created" THEN e.record.parent ELSE resource[x].parent
      BY <1>1, <2>2, MutateKeeps DEF IInv
    <3> HIDE DEF r
    <3>2. CASE e.type = "created"
      BY <1>1, <2>2, <3>1, <3>2 DEF Justified, r
    <3>3. CASE e.type # "created"
      <4>1. Rooted(x, resource[x].parent) /\ resource[x].assignee # NoOne
        BY <1>1, <2>2, <3>3 DEF Justified, IInv, Tree
      <4>2. e.type = "assigned" => e.assignee # NoOne
        BY <1>1, EventFacts, LifecycleAssumption
      <4>3. QED
        BY <1>1, <2>2, <3>1, <3>3, <4>1, <4>2 DEF r
    <3>4. QED
      BY <3>2, <3>3
  <2>3. QED
    BY <2>1, <2>2
<1>4. PendingJustified'
  BY StaysJustified DEF PendingJustified
<1>5. OneCreation'
  <2> SUFFICES ASSUME NEW u \in Workers, NEW v \in Workers,
                      NEW k \in DOMAIN pending'[u], NEW n \in DOMAIN pending'[v],
                      CreatesItem(pending'[u][k]), pending'[v][n].id = pending'[u][k].id
               PROVE  u = v /\ k = n
    BY DEF OneCreation, CreatesItem
  <2>1. PICK k0 \in DOMAIN pending[u] : /\ pending'[u][k] = pending[u][k0]
                                        /\ k0 = IF u = w THEN k + 1 ELSE k
    BY Waiting
  <2>2. PICK n0 \in DOMAIN pending[v] : /\ pending'[v][n] = pending[v][n0]
                                        /\ n0 = IF v = w THEN n + 1 ELSE n
    BY Waiting
  <2>3. u = v /\ k0 = n0
    BY <2>1, <2>2 DEF IInv, OneCreation
  <2>4. k \in Nat /\ n \in Nat
    <3>1. pending'[u] \in Seq(Event) /\ pending'[v] \in Seq(Event)
      BY <1>2 DEF TypeOK
    <3>2. QED
      BY <3>1
  <2>5. QED
    BY <2>1, <2>2, <2>3, <2>4
<1>6. ClosingExists'
  <2> SUFFICES ASSUME NEW v \in Workers, pc'[v] = "resolving"
               PROVE  Exists(closing[v].id)'
    BY DEF ClosingExists
  <2>1. closing' = closing /\ pc[v] = "resolving"
    BY DEF Store, AfterStore, IInv, TypeOK
  <2>2. closing[v].id \in Ids /\ Exists(closing[v].id)
    BY <2>1 DEF IInv, TypeOK, ClosingExists, Closing, Ids
  <2>3. QED
    BY <2>1, <2>2, StoreKeeps DEF Exists
<1>7. QED
  BY <1>2, <1>3, <1>4, <1>5, <1>6 DEF IInv

-----------------------------------------------------------------------------
(* The theorems.                                                           *)

LEMMA NextIInv == IInv /\ [Next]_vars => IInv'
<1> SUFFICES ASSUME IInv, [Next]_vars PROVE IInv'
  OBVIOUS
<1>1. ASSUME NEW w \in Workers, CreateSubproject(w) PROVE IInv'
  BY <1>1, CreateSubprojectDecides, RequestInv DEF CreateSubproject
<1>2. ASSUME NEW w \in Workers, CreateWorkflowitem(w) PROVE IInv'
  BY <1>2, CreateWorkflowitemDecides, RequestInv DEF CreateWorkflowitem
<1>3. ASSUME NEW w \in Workers, Assign(w) PROVE IInv'
  BY <1>3, AssignDecides, RequestInv DEF Assign
<1>4. ASSUME NEW w \in Workers, Update(w) PROVE IInv'
  BY <1>4, UpdateDecides, RequestInv DEF Update
<1>5. ASSUME NEW w \in Workers, SetWorkflowitemOrdering(w) PROVE IInv'
  BY <1>5, SetWorkflowitemOrderingDecides, RequestInv DEF SetWorkflowitemOrdering
<1>6. ASSUME NEW w \in Workers, CloseWorkflowitem(w) PROVE IInv'
  BY <1>6, CloseWorkflowitemDecides, RequestInv DEF CloseWorkflowitem
<1>7. ASSUME NEW w \in Workers, BeginClose(w) PROVE IInv'
  BY <1>7, BeginCloseInv
<1>8. ASSUME NEW w \in Workers, FinishClose(w) PROVE IInv'
  BY <1>8, FinishCloseInv
<1>9. ASSUME NEW w \in Workers, Store(w) PROVE IInv'
  BY <1>9, StoreInv
<1>10. ASSUME NEW w \in Workers, Fail(w) PROVE IInv'
  BY <1>10, FailInv
<1>11. CASE UNCHANGED vars
  BY <1>11 DEF vars, IInv, TypeOK, Tree, PendingJustified, OneCreation, ClosingExists,
     CreatesItem, Justified, Exists, IsClosed, Rooted
<1>12. QED
  BY <1>1, <1>2, <1>3, <1>4, <1>5, <1>6, <1>7, <1>8, <1>9, <1>10, <1>11 DEF Next

(* The inductive invariant holds in every reachable state.                 *)
THEOREM Invariance == Spec => []IInv
<1>1. QED
  BY InitIInv, NextIInv, PTL DEF Spec

(* The resources are what their type says: no event, of whatever request,  *)
(* makes a resource that the commands do not know how to read; a worker is *)
(* storing exactly while it has events to store.                           *)
THEOREM TypeCorrectness == Spec => []TypeOK
<1>1. IInv => TypeOK
  BY DEF IInv
<1>2. QED
  BY <1>1, Invariance, PTL

(* closeWorkflowitem and closeSubproject decide long before their events   *)
(* are stored; for workflowitems, which are never created again and never  *)
(* reopen, the decision still is justified when they are.                  *)
THEOREM ClosesStayJustified == Spec => []DecisionsStayJustified
<1>1. IInv => DecisionsStayJustified
  BY DEF IInv, PendingJustified, Justified, DecisionsStayJustified
<1>2. QED
  BY <1>1, Invariance, PTL

-----------------------------------------------------------------------------
(* Refinement: the workflowitems lead the life that ItemLife describes.    *)

LEMMA InitRefines == Init => Life!Init
<1> SUFFICES ASSUME Init PROVE Life!Init
  OBVIOUS
<1>1. PICK a \in Identities : resource = [x \in Ids |-> Prepare(x, a)]
  BY DEF Init
<1>2. ASSUME NEW i \in Items PROVE LifeOf(i) \in Life!New \cup {Life!None}
  <2>1. i \in Ids /\ resource[i] = Prepare(i, a)
    BY <1>1 DEF Ids
  <2>2. /\ resource[i] \in Resource /\ resource[i].rejected = FALSE
        /\ resource[i].status \in {"absent", "open"}
    BY <2>1, PrepareType
  <2>3. resource[i].data \in Data
    BY <2>2 DEF Resource
  <2>4. QED
    BY <2>2, <2>3 DEF LifeOf, Exists, Life!New, Life!None
<1>3. QED
  BY <1>2 DEF Life!Init, Lives

(* What a stored event does to the life of the item it is about.           *)
LEMMA StoreRefines ==
    ASSUME IInv, NEW w \in Workers, Store(w)
    PROVE  Life!Next \/ Lives' = Lives
<1>0. PICK e : e = Head(pending[w])
  OBVIOUS
<1> DEFINE i == e.id
<1>1. /\ e \in Event /\ Justified(e) /\ resource'[i] = Mutate(e) /\ i \in Ids
      /\ \A x \in Ids \ {i} : resource'[x] = resource[x]
  BY <1>0, Stored
<1>2. \A x \in Items : x # i => LifeOf(x)' = LifeOf(x)
  BY <1>1 DEF LifeOf, Exists, Ids
<1>3. CASE i \notin Items
  BY <1>2, <1>3 DEF Lives
<1>4. CASE i \in Items
  <2>1. PICK record : record = LifeOf(i)'
    OBVIOUS
  <2>2. Lives' = [Lives EXCEPT ![i] = record] /\ Lives[i] = LifeOf(i)
    BY <1>2, <1>4, <2>1 DEF Lives
  <2>3. record = LifeOf(i) => Lives' = Lives
    BY <2>2, <1>4 DEF Lives
  <2>4. resource[i] \in Resource
    BY <1>1 DEF IInv, TypeOK
  <2>5. CASE e.type = "created"
    <3>1. LifeOf(i) = Life!None
      BY <1>1, <1>4, <2>5 DEF Justified, LifeOf, Life!None
    <3>2. e.record \in Resource /\ e.record.status = "open" /\ e.record.rejected = FALSE
      BY <1>1, <2>5, EventFacts DEF Justified, Resource
    <3>3. resource'[i] = [e.record EXCEPT !.index = NextIndex(i)]
      BY <1>1, <2>5 DEF Mutate
    <3>4. /\ resource'[i].status = "open" /\ resource'[i].rejected = FALSE
          /\ resource'[i].data \in Data
      BY <3>2, <3>3 DEF Resource
    <3>5. record \in Life!New
      BY <2>1, <3>4 DEF LifeOf, Exists, Life!New
    <3>6. Life!Create(i)
      BY <2>2, <3>1, <3>5 DEF Life!Create, Life!Become
    <3>7. QED
      BY <1>4, <3>6 DEF Life!Next
  <2>6. CASE e.type # "created"
    <3>1. Exists(i)
      BY <1>1, <2>6 DEF Justified
    <3>2. LifeOf(i) = [status |-> resource[i].status, rejected |-> resource[i].rejected,
                       data |-> resource[i].data]
      BY <3>1 DEF LifeOf
    <3>3. CASE e.type \in {"assigned", "reordered", "notification_created"}
      <4>1. /\ resource'[i].status = resource[i].status
            /\ resource'[i].rejected = resource[i].rejected
            /\ resource'[i].data = resource[i].data
        BY <1>1, <2>4, <3>1, <3>3 DEF Mutate, Resource
      <4>2. record = LifeOf(i)
        BY <2>1, <4>1 DEF LifeOf, Exists
      <4>3. QED
        BY <2>3, <4>2
    <3>4. CASE e.type = "updated"
      <4>1. e.data \in Data
        BY <1>1, <3>4, EventFacts
      <4>2. resource'[i] = IfOpen(resource[i], e.data)
        BY <1>1, <3>1, <3>4 DEF Mutate
      <4>3. CASE IsOpen(i)
        <5>1. /\ resource'[i].status = "open" /\ resource'[i].data = e.data
              /\ resource'[i].rejected = resource[i].rejected
          BY <2>4, <4>2, <4>3 DEF IfOpen, IsOpen, Resource
        <5>2. record = [LifeOf(i) EXCEPT !.data = e.data] /\ LifeOf(i).status = "open"
          BY <2>1, <3>2, <4>3, <5>1 DEF LifeOf, Exists, IsOpen
        <5>3. Life!Work(i)
          BY <2>2, <4>1, <5>2 DEF Life!Work, Life!Become
        <5>4. QED
          BY <1>4, <5>3 DEF Life!Next
      <4>4. CASE ~IsOpen(i)
        <5>1. resource'[i] = resource[i]
          BY <4>2, <4>4 DEF IfOpen, IsOpen
        <5>2. record = LifeOf(i)
          BY <2>1, <5>1 DEF LifeOf, Exists
        <5>3. QED
          BY <2>3, <5>2
      <4>5. QED
        BY <4>3, <4>4
    <3>5. CASE e.type = "closed"
      <4>1. e.rejectReason \in BOOLEAN /\ resource[i].rejected \in BOOLEAN
        BY <1>1, <2>4, <3>5, EventFacts DEF Resource
      <4> DEFINE reject == resource[i].rejected \/ e.rejectReason
      <4>2. /\ resource'[i].status = "closed" /\ resource'[i].rejected = reject
            /\ resource'[i].data = resource[i].data
        BY <1>1, <2>4, <3>1, <3>5 DEF Mutate, Resource
      <4>3. reject \in BOOLEAN /\ (reject = TRUE \/ reject = resource[i].rejected)
        BY <4>1
      <4> HIDE DEF reject
      <4>4. record = [status |-> "closed", rejected |-> reject, data |-> resource[i].data]
        BY <2>1, <4>2 DEF LifeOf, Exists
      <4>5. CASE IsOpen(i)
        <5>1. LifeOf(i).status = "open"
          BY <3>2, <4>5 DEF IsOpen
        <5>2. record = [LifeOf(i) EXCEPT !.status = "closed", !.rejected = reject]
          <6> DEFINE closed == [status |-> "closed", rejected |-> resource[i].rejected,
                                data |-> resource[i].data]
          <6>1. [LifeOf(i) EXCEPT !.status = "closed"] = closed
            BY <3>2
          <6>2. [closed EXCEPT !.rejected = reject] = record
            BY <4>4
          <6> HIDE DEF closed
          <6>3. QED
            BY <6>1, <6>2
        <5>3. Life!Close(i)
          BY <2>2, <4>3, <5>1, <5>2 DEF Life!Close, Life!Become
        <5>4. QED
          BY <1>4, <5>3 DEF Life!Next
      <4>6. CASE IsClosed(i)
        <5>1. LifeOf(i).status = "closed" /\ record = [LifeOf(i) EXCEPT !.rejected = reject]
          BY <3>2, <4>4, <4>6 DEF IsClosed
        <5>2. CASE reject = TRUE
          <6>1. Life!Reject(i)
            BY <2>2, <5>1, <5>2 DEF Life!Reject, Life!Become
          <6>2. QED
            BY <1>4, <6>1 DEF Life!Next
        <5>3. CASE reject = resource[i].rejected
          <6>1. record = LifeOf(i)
            BY <3>2, <4>4, <4>6, <5>3 DEF IsClosed
          <6>2. QED
            BY <2>3, <6>1
        <5>4. QED
          BY <4>3, <5>2, <5>3
      <4>7. IsOpen(i) \/ IsClosed(i)
        BY <2>4, <3>1 DEF Exists, IsOpen, IsClosed, Resource
      <4>8. QED
        BY <4>5, <4>6, <4>7
    <3>6. QED
      BY <1>1, <2>6, <3>3, <3>4, <3>5, EventFacts
  <2>7. QED
    BY <2>5, <2>6
<1>5. QED
  BY <1>3, <1>4

LEMMA NextRefines == IInv /\ [Next]_vars => [Life!Next]_Lives
<1> SUFFICES ASSUME IInv, [Next]_vars PROVE [Life!Next]_Lives
  OBVIOUS
<1>1. ASSUME NEW w \in Workers, Store(w) PROVE [Life!Next]_Lives
  BY <1>1, StoreRefines
<1>2. CASE resource' = resource
  <2>1. Lives' = Lives
    BY <1>2 DEF Lives, LifeOf, Exists
  <2>2. QED
    BY <2>1
<1>3. (\E w \in Workers : Store(w)) \/ resource' = resource
  BY DEF Next, vars, CreateSubproject, CreateWorkflowitem, Assign, Update,
     SetWorkflowitemOrdering, CloseWorkflowitem, BeginClose, FinishClose, Fail
<1>4. QED
  BY <1>1, <1>2, <1>3

(* Whatever requests run at the same time, the stream of a project gives   *)
(* every workflowitem the life of ADR 0004: created once, changed only     *)
(* while it is open, closed for good.                                      *)
THEOREM ItemsLeadTheirLife == Spec => ItemsLead
<1>1. QED
  BY InitRefines, NextRefines, Invariance, PTL DEF Spec, ItemsLead, Life!Spec

-----------------------------------------------------------------------------
(* Reopening: the event that is stored decides.  An update, an assignment, *)
(* an ordering or a notification leaves the status as it is; a creation of *)
(* a workflowitem finds that it does not exist.                            *)
LEMMA StoreReopens ==
    ASSUME IInv, NEW w \in Workers, Store(w), NEW x \in Ids,
           IsClosed(x), ~IsClosed(x)'
    PROVE  x \in Subprojects /\ CreatesNext(w, x)
<1>0. PICK e : e = Head(pending[w])
  OBVIOUS
<1>1. /\ e \in Event /\ Justified(e) /\ resource'[e.id] = Mutate(e)
      /\ \A y \in Ids \ {e.id} : resource'[y] = resource[y]
  BY <1>0, Stored
<1>2. x = e.id
  BY <1>1 DEF IsClosed
<1>3. resource[x] \in Resource /\ resource[x].status = "closed"
  BY DEF IInv, TypeOK, IsClosed
<1>4. Mutate(e).status # "closed"
  BY <1>1, <1>2 DEF IsClosed
<1>5. CASE e.type = "created"
  <2>1. x \in Subprojects \cup Items
    BY <1>1, <1>2, <1>5, EventFacts
  <2>2. x \notin Items
    BY <1>1, <1>2, <1>3, <1>5 DEF Justified, Exists
  <2>3. pc[w] = "storing"
    BY DEF Store
  <2>4. QED
    BY <1>0, <1>2, <1>5, <2>1, <2>2, <2>3 DEF CreatesNext
<1>6. CASE e.type # "created"
  <2>1. Exists(x)
    BY <1>3 DEF Exists
  <2>2. CASE e.type = "updated"
    BY <1>2, <1>3, <1>4, <2>1, <2>2 DEF Mutate, IfOpen, Resource
  <2>3. CASE e.type = "closed"
    BY <1>2, <1>3, <1>4, <2>1, <2>3 DEF Mutate, Resource
  <2>4. CASE e.type = "assigned"
    BY <1>2, <1>3, <1>4, <2>1, <2>4 DEF Mutate, Resource
  <2>5. CASE e.type = "reordered"
    BY <1>2, <1>3, <1>4, <2>1, <2>5 DEF Mutate, Resource
  <2>6. CASE e.type = "notification_created"
    BY <1>2, <1>3, <1>4, <2>1, <2>6 DEF Mutate
  <2>7. QED
    BY <1>1, <1>6, <2>2, <2>3, <2>4, <2>5, <2>6, EventFacts
<1>7. QED
  BY <1>5, <1>6

(* Nothing is reopened but a subproject that two requests created, however *)
(* late the events of concurrent requests are stored.                      *)
THEOREM ReopeningIsCreation == Spec => OnlyCreationsReopen
<1> DEFINE Reopens ==
        \A x \in Ids : IsClosed(x) /\ ~IsClosed(x)' =>
            x \in Subprojects /\ \E w \in Workers : CreatesNext(w, x) /\ Store(w)
<1>1. IInv /\ [Next]_vars => [Reopens]_vars
  <2> SUFFICES ASSUME IInv, [Next]_vars, NEW x \in Ids, IsClosed(x), ~IsClosed(x)'
               PROVE  x \in Subprojects /\ \E w \in Workers : CreatesNext(w, x) /\ Store(w)
    OBVIOUS
  <2>1. resource' # resource
    BY DEF IsClosed
  <2>2. PICK w \in Workers : Store(w)
    BY <2>1 DEF Next, vars, CreateSubproject, CreateWorkflowitem, Assign, Update,
       SetWorkflowitemOrdering, CloseWorkflowitem, BeginClose, FinishClose, Fail
  <2>3. QED
    BY <2>2, StoreReopens
<1>2. QED
  BY <1>1, Invariance, PTL DEF Spec, OnlyCreationsReopen

-----------------------------------------------------------------------------
LEMMA InitHInv == Init => HInv
<1> SUFFICES ASSUME Init PROVE HInv
  OBVIOUS
<1>1. OnlyHoldersAreNotified /\ NotificationsFollow /\ ClosingTellsHolders
  BY DEF Init, OnlyHoldersAreNotified, NotificationsFollow, ClosingTellsHolders
<1>2. HoldersRecorded
  <2> SUFFICES ASSUME NEW x \in Ids, Exists(x) PROVE resource[x].assignee \in everHeld[x]
    BY DEF HoldersRecorded
  <2>1. resource[x].assignee # NoOne
    BY InitIInv DEF IInv, Tree
  <2>2. QED
    BY <2>1 DEF Init
<1>3. QED
  BY <1>1, <1>2 DEF HInv

LEMMA DecidedFollows ==
    ASSUME IInv, HInv, NEW w \in Workers, NEW e, NEW notifications,
           Decision(e, notifications), TellsHolders(e, notifications),
           Decide(w, e, notifications), everHeld' = everHeld
    PROVE  NotificationsFollow'
<1>1. PICK new : new = <<e>> \o notifications
  OBVIOUS
<1>2. /\ new \in Seq(Event) /\ new[1] = e
      /\ \A k \in DOMAIN new : k # 1 => k - 1 \in DOMAIN notifications
                                          /\ new[k] = notifications[k - 1]
  BY <1>1 DEF Decision
<1>3. pending' = [pending EXCEPT ![w] = new]
  BY <1>1 DEF Decide
<1>4. pending'[w] = new /\ \A v \in Workers \ {w} : pending'[v] = pending[v]
  BY <1>3 DEF IInv, TypeOK
<1> SUFFICES ASSUME NEW v \in Workers, NEW k \in DOMAIN pending'[v]
             PROVE  Follows(pending[v], k)'
  BY DEF NotificationsFollow
<1>5. CASE v # w
  <2>1. pending'[v] = pending[v]
    BY <1>4, <1>5
  <2>2. Follows(pending[v], k)
    BY <2>1 DEF HInv, NotificationsFollow
  <2>3. QED
    BY <2>1, <2>2 DEF Follows, Holder
<1>6. CASE v = w /\ k = 1
  BY <1>2, <1>4, <1>6 DEF TellsHolders, Follows
<1>7. CASE v = w /\ k # 1
  <2>1. k \in DOMAIN new /\ new[k].id = e.id
    BY <1>2, <1>4, <1>7 DEF Decision
  <2>2. \/ Holder(e.id, new[k].recipient)
        \/ e.type = "assigned" /\ new[k].recipient \in Members[e.assignee]
    BY <1>2, <1>7, <2>1 DEF TellsHolders
  <2>3. 1 \in DOMAIN new /\ 1 < k
    BY <1>2, <1>7, <2>1
  <2>4. Holder(e.id, new[k].recipient) => Holder(e.id, new[k].recipient)'
    BY DEF Holder
  <2>5. QED
    BY <1>2, <1>4, <1>7, <2>1, <2>2, <2>3, <2>4 DEF Follows
<1>8. QED
  BY <1>5, <1>6, <1>7

LEMMA RequestHInv ==
    ASSUME IInv, HInv, NEW w \in Workers, Idle(w), Decides(w),
           UNCHANGED <<resource, everHeld, notified, closing>>
    PROVE  HInv'
<1>1. NotificationsFollow'
  BY DecidedFollows DEF Decides
<1>2. OnlyHoldersAreNotified' /\ HoldersRecorded'
  BY DEF HInv, OnlyHoldersAreNotified, HoldersRecorded, Exists
<1>3. \A v \in Workers : pc'[v] = "resolving" => pc[v] = "resolving"
  BY DEF Decides, Decide, IInv, TypeOK
<1>4. ClosingTellsHolders'
  BY <1>3 DEF HInv, ClosingTellsHolders, Holder
<1>5. QED
  BY <1>1, <1>2, <1>4 DEF HInv

LEMMA BeginCloseHInv ==
    ASSUME IInv, HInv, NEW w \in Workers, BeginClose(w)
    PROVE  HInv'
<1>1. PICK x \in {Project} \cup Subprojects, issuer \in Users :
        /\ IsOpen(x)
        /\ closing' = [closing EXCEPT ![w] =
              [id |-> x, issuer |-> issuer, recipients |-> Members[resource[x].assignee]]]
  BY DEF BeginClose
<1>2. \A u \in Members[resource[x].assignee] : Holder(x, u)
  BY <1>1, AssigneesHold DEF Ids, IsOpen, Exists
<1>3. /\ closing'[w].id = x /\ closing'[w].recipients = Members[resource[x].assignee]
      /\ \A v \in Workers \ {w} : closing'[v] = closing[v] /\ pc'[v] = pc[v]
  BY <1>1 DEF IInv, TypeOK, BeginClose
<1>4. everHeld' = everHeld
  BY DEF BeginClose
<1>5. ClosingTellsHolders'
  <2> SUFFICES ASSUME NEW v \in Workers, pc'[v] = "resolving", NEW u \in closing'[v].recipients
               PROVE  Holder(closing[v].id, u)'
    BY DEF ClosingTellsHolders
  <2>1. CASE v = w
    <3>1. Holder(x, u)
      BY <1>2, <1>3, <2>1
    <3>2. QED
      BY <1>3, <1>4, <2>1, <3>1 DEF Holder
  <2>2. CASE v # w
    <3>1. Holder(closing[v].id, u)
      BY <1>3, <2>2 DEF HInv, ClosingTellsHolders
    <3>2. QED
      BY <1>3, <1>4, <2>2, <3>1 DEF Holder
  <2>3. QED
    BY <2>1, <2>2
<1>6. OnlyHoldersAreNotified' /\ HoldersRecorded' /\ NotificationsFollow'
  BY DEF BeginClose, HInv, OnlyHoldersAreNotified, HoldersRecorded, NotificationsFollow,
     Follows, Holder, Exists
<1>7. QED
  BY <1>5, <1>6 DEF HInv

LEMMA FinishCloseHInv ==
    ASSUME IInv, HInv, NEW w \in Workers, FinishClose(w)
    PROVE  HInv'
<1>1. PICK c : c = closing[w]
  OBVIOUS
<1>2. c \in Closing /\ pc[w] = "resolving" /\ Exists(c.id)
  BY <1>1 DEF IInv, TypeOK, ClosingExists, FinishClose
<1>3. \A u \in c.recipients : Holder(c.id, u)
  BY <1>1, <1>2 DEF HInv, ClosingTellsHolders
<1>4. c.id \in Ids /\ c.id \in {Project} \cup Subprojects /\ c.recipients \in SUBSET Users
  BY <1>2 DEF Closing, Ids
<1>5. NotificationsFollow'
  <2>1. CASE AllClosed(Children(c.id))
    <3> DEFINE basis == Children(c.id)
               e == Closed(c.id, FALSE, basis)
               told == Notifications(c.issuer, c.recipients, c.id)
    <3>1. Decide(w, e, told) /\ everHeld' = everHeld
      BY <1>1, <2>1 DEF FinishClose
    <3>2. basis \subseteq Ids
      BY DEF Children, Ids
    <3>3. c.id # Project => basis \subseteq Items /\ \A y \in basis : IsClosed(y)
      BY <1>4, <2>1, ChildrenOfSubproject DEF AllClosed
    <3> HIDE DEF basis
    <3>4. /\ e \in Event /\ e.type = "closed" /\ e.type # "created"
          /\ e.id = c.id /\ Justified(e)
      BY <1>2, <1>4, <3>2, <3>3 DEF Closed, Event, Justified
    <3> HIDE DEF e
    <3>5. Decision(e, told)
      BY <1>4, <3>4, NotifyingDecision
    <3>6. TellsHolders(e, told)
      BY <1>3, <1>4, <3>4, NotifyHolders
    <3> HIDE DEF told
    <3>7. QED
      BY <3>1, <3>5, <3>6, DecidedFollows
  <2>2. CASE ~AllClosed(Children(c.id))
    <3>1. pending' = pending /\ everHeld' = everHeld
      BY <1>1, <2>2 DEF FinishClose
    <3>2. QED
      BY <3>1 DEF HInv, NotificationsFollow, Follows, Holder
  <2>3. QED
    BY <2>1, <2>2
<1>6. ClosingTellsHolders'
  <2>1. \A v \in Workers : pc'[v] = "resolving" => v # w /\ pc[v] = "resolving"
    BY DEF FinishClose, Decide, IInv, TypeOK
  <2>2. \A v \in Workers \ {w} : closing'[v] = closing[v]
    BY DEF FinishClose, IInv, TypeOK
  <2>3. everHeld' = everHeld
    BY DEF FinishClose
  <2>4. QED
    BY <2>1, <2>2, <2>3 DEF HInv, ClosingTellsHolders, Holder
<1>7. OnlyHoldersAreNotified' /\ HoldersRecorded'
  BY DEF FinishClose, HInv, OnlyHoldersAreNotified, HoldersRecorded, Exists
<1>8. QED
  BY <1>5, <1>6, <1>7 DEF HInv

LEMMA FailHInv ==
    ASSUME IInv, HInv, NEW w \in Workers, Fail(w)
    PROVE  HInv'
<1>1. /\ pending' = [pending EXCEPT ![w] = <<>>] /\ pc' = [pc EXCEPT ![w] = "idle"]
      /\ everHeld' = everHeld /\ resource' = resource /\ notified' = notified
      /\ closing' = [closing EXCEPT ![w] = NoOne]
  BY DEF Fail, AfterStore
<1>2. \A v \in Workers : pending'[v] # <<>> => v # w /\ pending'[v] = pending[v]
  BY <1>1 DEF IInv, TypeOK
<1>3. NotificationsFollow'
  <2> SUFFICES ASSUME NEW v \in Workers, NEW k \in DOMAIN pending'[v]
               PROVE  Follows(pending[v], k)'
    BY DEF NotificationsFollow
  <2>1. pending'[v] = pending[v]
    BY <1>2
  <2>2. Follows(pending[v], k)
    BY <2>1 DEF HInv, NotificationsFollow
  <2>3. QED
    BY <1>1, <2>1, <2>2 DEF Follows, Holder
<1>4. ClosingTellsHolders'
  <2>1. \A v \in Workers : pc'[v] = "resolving" =>
            v # w /\ pc[v] = "resolving" /\ closing'[v] = closing[v]
    BY <1>1 DEF IInv, TypeOK
  <2>2. QED
    BY <1>1, <2>1 DEF HInv, ClosingTellsHolders, Holder
<1>5. OnlyHoldersAreNotified' /\ HoldersRecorded'
  BY <1>1 DEF HInv, OnlyHoldersAreNotified, HoldersRecorded, Exists
<1>6. QED
  BY <1>3, <1>4, <1>5 DEF HInv

LEMMA StoreHInv ==
    ASSUME IInv, HInv, NEW w \in Workers, Store(w)
    PROVE  HInv'
<1>0. PICK e : e = Head(pending[w])
  OBVIOUS
<1>1. /\ e \in Event /\ Justified(e) /\ e.id \in Ids
      /\ 1 \in DOMAIN pending[w] /\ e = pending[w][1]
      /\ resource'[e.id] = Mutate(e)
      /\ \A x \in Ids \ {e.id} : resource'[x] = resource[x]
      /\ pending' = [pending EXCEPT ![w] = Tail(pending[w])]
  BY <1>0, Stored
<1>2. everHeld' = [everHeld EXCEPT ![e.id] = @ \cup {resource'[e.id].assignee}]
  BY <1>0 DEF Store
<1>3. /\ everHeld'[e.id] = everHeld[e.id] \cup {resource'[e.id].assignee}
      /\ \A x \in Ids \ {e.id} : everHeld'[x] = everHeld[x]
  BY <1>1, <1>2 DEF IInv, TypeOK
<1>4. ASSUME NEW x \in Ids, NEW u, Holder(x, u) PROVE Holder(x, u)'
  BY <1>3, <1>4 DEF Holder
<1>5. pending[w] \in Seq(Event) /\ pending[w] # <<>>
  BY DEF Store, IInv, TypeOK
<1>6. HoldersRecorded'
  <2> SUFFICES ASSUME NEW x \in Ids, resource'[x].status # "absent"
               PROVE  resource'[x].assignee \in everHeld'[x]
    BY DEF HoldersRecorded, Exists
  <2>1. CASE x = e.id
    BY <1>3, <2>1
  <2>2. CASE x # e.id
    BY <1>1, <1>3, <2>2 DEF HInv, HoldersRecorded, Exists
  <2>3. QED
    BY <2>1, <2>2
<1>7. OnlyHoldersAreNotified'
  <2>1. e.type = "notification_created" => Holder(e.id, e.recipient)
    <3>1. Follows(pending[w], 1)
      BY <1>1 DEF HInv, NotificationsFollow
    <3>2. \A n \in DOMAIN pending[w] : ~(n < 1)
      BY <1>5
    <3>3. QED
      BY <1>1, <3>1, <3>2 DEF Follows
  <2>2. \A n \in notified' : \/ n \in notified
                             \/ /\ e.type = "notification_created"
                                /\ n.id = e.id /\ n.user = e.recipient
    BY <1>0 DEF Store
  <2>3. \A n \in notified' : n.id \in Ids /\ Holder(n.id, n.user)
    BY <1>1, <2>1, <2>2 DEF HInv, OnlyHoldersAreNotified, Holder, IInv, TypeOK
  <2> SUFFICES ASSUME NEW n \in notified' PROVE Holder(n.id, n.user)'
    BY DEF OnlyHoldersAreNotified, Holder
  <2>4. QED
    BY <1>4, <2>3
<1>8. NotificationsFollow'
  <2> SUFFICES ASSUME NEW v \in Workers, NEW k \in DOMAIN pending'[v]
               PROVE  Follows(pending[v], k)'
    BY DEF NotificationsFollow
  <2>1. PICK f : f = pending'[v][k]
    OBVIOUS
  <2>2. PICK n \in DOMAIN pending[v] : f = pending[v][n] /\ n = IF v = w THEN k + 1 ELSE k
    BY <2>1, Waiting
  <2>3. f \in Event /\ f.id \in Ids
    BY <2>2, EventFacts DEF IInv, TypeOK
  <2>4. Follows(pending[v], n)
    BY DEF HInv, NotificationsFollow
  <2>5. CASE f.type # "notification_created"
    BY <2>1, <2>5 DEF Follows
  <2>6. CASE Holder(f.id, f.recipient)
    <3>1. Holder(f.id, f.recipient)'
      BY <1>4, <2>3, <2>6
    <3>2. QED
      BY <2>1, <3>1 DEF Follows
  <2>7. CASE \E m \in DOMAIN pending[v] :
            /\ m < n /\ pending[v][m].type = "assigned" /\ pending[v][m].id = f.id
            /\ f.recipient \in Members[pending[v][m].assignee]
    <3>1. PICK m \in DOMAIN pending[v] :
            /\ m < n /\ pending[v][m].type = "assigned" /\ pending[v][m].id = f.id
            /\ f.recipient \in Members[pending[v][m].assignee]
      BY <2>7
    <3>2. CASE v # w
      <4>1. pending'[v] = pending[v] /\ n = k
        BY <1>1, <2>2, <3>2 DEF IInv, TypeOK
      <4>2. QED
        BY <2>1, <3>1, <4>1 DEF Follows
    <3>3. CASE v = w /\ m = 1
      <4>1. e.type = "assigned" /\ e.id = f.id /\ f.recipient \in Members[e.assignee]
        BY <1>1, <3>1, <3>3
      <4>2. e.assignee \in Identities /\ e.assignee # NoOne
        BY <1>1, <4>1, EventFacts, LifecycleAssumption
      <4>3. resource'[e.id].assignee = e.assignee
        BY <1>1, <4>1, MutateKeeps DEF IInv
      <4>4. Holder(f.id, f.recipient)'
        BY <1>3, <4>1, <4>2, <4>3 DEF Holder
      <4>5. QED
        BY <2>1, <4>4 DEF Follows
    <3>4. CASE v = w /\ m # 1
      <4>1. pending'[w] = Tail(pending[w])
        BY <1>1 DEF IInv, TypeOK
      <4>2. /\ m - 1 \in DOMAIN pending'[w] /\ m - 1 < k
            /\ pending'[w][m - 1] = pending[w][m]
        BY <1>5, <2>2, <3>1, <3>4, <4>1
      <4>3. QED
        BY <2>1, <3>1, <3>4, <4>2 DEF Follows
    <3>5. QED
      BY <3>2, <3>3, <3>4
  <2>8. QED
    BY <2>2, <2>4, <2>5, <2>6, <2>7 DEF Follows
<1>9. ClosingTellsHolders'
  <2>1. closing' = closing /\ \A v \in Workers : pc'[v] = "resolving" => pc[v] = "resolving"
    BY DEF Store, AfterStore, IInv, TypeOK
  <2>2. ASSUME NEW v \in Workers, pc[v] = "resolving", NEW u \in closing[v].recipients
        PROVE  closing[v].id \in Ids /\ Holder(closing[v].id, u)
    BY <2>2 DEF IInv, TypeOK, Closing, Ids, HInv, ClosingTellsHolders
  <2> SUFFICES ASSUME NEW v \in Workers, pc'[v] = "resolving", NEW u \in closing'[v].recipients
               PROVE  Holder(closing[v].id, u)'
    BY DEF ClosingTellsHolders
  <2>3. PICK x : x = closing[v].id
    OBVIOUS
  <2>4. x \in Ids /\ Holder(x, u)
    BY <2>1, <2>2, <2>3
  <2>5. Holder(x, u)'
    BY <1>4, <2>4
  <2>6. QED
    BY <2>1, <2>3, <2>5 DEF Holder
<1>10. QED
  BY <1>6, <1>7, <1>8, <1>9 DEF HInv

LEMMA NextHInv == IInv /\ HInv /\ [Next]_vars => HInv'
<1> SUFFICES ASSUME IInv, HInv, [Next]_vars PROVE HInv'
  OBVIOUS
<1>1. ASSUME NEW w \in Workers, CreateSubproject(w) PROVE HInv'
  BY <1>1, CreateSubprojectDecides, RequestHInv DEF CreateSubproject
<1>2. ASSUME NEW w \in Workers, CreateWorkflowitem(w) PROVE HInv'
  BY <1>2, CreateWorkflowitemDecides, RequestHInv DEF CreateWorkflowitem
<1>3. ASSUME NEW w \in Workers, Assign(w) PROVE HInv'
  BY <1>3, AssignDecides, RequestHInv DEF Assign
<1>4. ASSUME NEW w \in Workers, Update(w) PROVE HInv'
  BY <1>4, UpdateDecides, RequestHInv DEF Update
<1>5. ASSUME NEW w \in Workers, SetWorkflowitemOrdering(w) PROVE HInv'
  BY <1>5, SetWorkflowitemOrderingDecides, RequestHInv DEF SetWorkflowitemOrdering
<1>6. ASSUME NEW w \in Workers, CloseWorkflowitem(w) PROVE HInv'
  BY <1>6, CloseWorkflowitemDecides, RequestHInv DEF CloseWorkflowitem
<1>7. ASSUME NEW w \in Workers, BeginClose(w) PROVE HInv'
  BY <1>7, BeginCloseHInv
<1>8. ASSUME NEW w \in Workers, FinishClose(w) PROVE HInv'
  BY <1>8, FinishCloseHInv
<1>9. ASSUME NEW w \in Workers, Store(w) PROVE HInv'
  BY <1>9, StoreHInv
<1>10. ASSUME NEW w \in Workers, Fail(w) PROVE HInv'
  BY <1>10, FailHInv
<1>11. CASE UNCHANGED vars
  BY <1>11 DEF vars, HInv, OnlyHoldersAreNotified, HoldersRecorded, NotificationsFollow,
     ClosingTellsHolders, Follows, Holder, Exists
<1>12. QED
  BY <1>1, <1>2, <1>3, <1>4, <1>5, <1>6, <1>7, <1>8, <1>9, <1>10, <1>11 DEF Next

(* The notifications of a request are stored after the event they are      *)
(* about; so even if storing stops half-way, or the assignee changes       *)
(* meanwhile, nobody is told of a resource that was never his.             *)
THEOREM NotificationsReachHolders == Spec => []OnlyHoldersAreNotified
<1>1. HInv => OnlyHoldersAreNotified
  BY DEF HInv
<1>2. QED
  BY <1>1, InitHInv, NextHInv, Invariance, PTL DEF Spec
=============================================================================

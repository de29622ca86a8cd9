--------------------------- MODULE Access_proofs ----------------------------
(***************************************************************************)
(* Nobody but a race strands a resource without a grantor, and nothing is  *)
(* lost when a restricted workflowitem changes hands, for any users,       *)
(* groups, resources and permissions, any number of requests, and          *)
(* wherever storing their events is cut off; and an identity resolves to   *)
(* all users it stands for.                                                *)
(***************************************************************************)
EXTENDS Access, FiniteSetTheorems, SequenceTheorems, WellFoundedInduction, TLAPS

(* After the first event of a request there are but grants and revocations.*)
Shape(es) == \A k \in 2 .. Len(es) : es[k].type \in {"granted", "revoked"}

(* What was checked when a request was decided, unless there are news.     *)
Checked(es, ns) ==
    es # <<>> =>
        /\ Head(es).type = "user_disabled" =>
                {r \in Resources : assignee[r] = Head(es).target} \subseteq ns
        /\ Head(es).type \in {"user_created", "group_created"} =>
                Head(es).target \notin users \cup groups \/ Head(es).target \in ns

IsGranted(r, n, x) == <<r, n, x>> \in granted

(* Before the k-th event, somebody else may grant permissions on r, or     *)
(* will by then.                                                           *)
GrantorRemains(es, k, r) ==
    \E y \in Names :
        /\ y # es[k].identity
        /\ \/ IsGranted(r, GrantIntent(r), y)
           \/ \E j \in 1 .. k - 1 : es[j] = PermissionGranted(r, GrantIntent(r), y)
        /\ \A j \in 1 .. k - 1 : es[j] # PermissionRevoked(r, GrantIntent(r), y)

RevokesGrantor(e, r) == e.type = "revoked" /\ e.target = r /\ e.intent = GrantIntent(r)

GrantorsRemain(es, ns) ==
    \A k \in 1 .. Len(es), r \in Resources :
        RevokesGrantor(es[k], r) /\ r \notin ns => GrantorRemains(es, k, r)

IsCreation(e) == e.type = "workflowitem_created"

(* A handover: the assignee has all permissions, or will before the first  *)
(* one is revoked; the publisher has lost them, or will.  If the item is   *)
(* yet to be created, it is by the first event, which gives the publisher  *)
(* all permissions before those that follow revoke them.                   *)
Handed(es, h) ==
    h # NoOne =>
        /\ h.from # h.to /\ h.held \subseteq Range(WorkflowitemIntents)
        /\ \A k \in 1 .. Len(es) :
              /\ es[k].type = "granted" => es[k].identity # h.from
              /\ es[k].type = "revoked" =>
                    /\ es[k].identity = h.from
                    /\ \A n \in Range(WorkflowitemIntents) :
                          \/ IsGranted(h.item, n, h.to)
                          \/ \E j \in 1 .. k - 1 : es[j] = PermissionGranted(h.item, n, h.to)
        /\ Exists(h.item) /\ (\E n \in h.held : ~IsGranted(h.item, n, h.from)) =>
              \A n \in Range(WorkflowitemIntents) : IsGranted(h.item, n, h.to)
        /\ es # <<>> /\ ~IsCreation(es[1]) => Exists(h.item)
        /\ es # <<>> /\ IsCreation(es[1]) =>
              /\ es[1].target = h.item /\ es[1].publisher = h.from
              /\ \A n \in Range(WorkflowitemIntents) \ {ViewIntent} :
                    \E k \in 1 .. Len(es) : es[k] = PermissionRevoked(h.item, n, h.from)
        /\ h.complete => es = <<>>
        /\ h.complete \/ es # <<>> =>
              \A n \in Range(WorkflowitemIntents) \ {ViewIntent} :
                  \/ ~IsGranted(h.item, n, h.from)
                  \/ \E k \in 1 .. Len(es) : es[k] = PermissionRevoked(h.item, n, h.from)

WorkerInv(es, ns, h) ==
    Shape(es) /\ Checked(es, ns) /\ GrantorsRemain(es, ns) /\ Handed(es, h)

WorkersInv ==
    \A w \in Workers :
        /\ WorkerInv(pending[w], news[w], handover[w])
        /\ job[w] # NoOne => handover[w] = NoOne

IInv == TypeOK /\ WorkersInv

-----------------------------------------------------------------------------
LEMMA IntentTypes ==
    /\ \A r \in Resources : GrantIntent(r) \in AllIntents /\ IntentsOf(r) \subseteq AllIntents
    /\ \A i \in Restricted : /\ IntentsOf(i) = Range(WorkflowitemIntents)
                             /\ i \in Resources /\ i \in Targets
                             /\ GrantIntent(i) \in Range(WorkflowitemIntents)
    /\ \A r \in Resources : r \in Targets /\ r \notin Names /\ r # Global
<1>1. \A r \in Resources : IntentsOf(r) \subseteq AllIntents /\ GrantIntent(r) \in IntentsOf(r)
  BY AccessAssumption DEF IntentsOf, AllIntents, Resources
<1>2. \A i \in Restricted : /\ i \in Workflowitems /\ i \notin Projects /\ i \notin Subprojects
                            /\ i \in Resources
  BY AccessAssumption DEF Resources
<1>3. \A i \in Restricted : IntentsOf(i) = Range(WorkflowitemIntents)
  BY <1>2 DEF IntentsOf
<1>4. \A r \in Resources : r \in Targets /\ r \notin Names /\ r # Global
  BY AccessAssumption DEF Targets
<1>5. QED
  BY <1>1, <1>2, <1>3, <1>4

LEMMA IssuerTypes ==
    ASSUME TypeOK, NEW token \in Issuers
    PROVE  token \in Token /\ token.user \in Names \cup {Root}
BY DEF TypeOK, Issuers, RootToken, Token

(* A worker that nothing happens to.                                       *)
LEMMA SameWorker ==
    ASSUME NEW es, NEW ns, NEW h, WorkerInv(es, ns, h),
           UNCHANGED <<users, groups, granted, assignee>>
    PROVE  WorkerInv(es, ns, h)'
<1>1. Shape(es)' /\ Checked(es, ns)'
  BY DEF WorkerInv, Shape, Checked
<1>2. GrantorsRemain(es, ns)'
  BY DEF WorkerInv, GrantorsRemain, GrantorRemains, IsGranted
<1>3. Handed(es, h)'
  BY DEF WorkerInv, Handed, IsGranted, Exists
<1>4. QED
  BY <1>1, <1>2, <1>3 DEF WorkerInv

(* A decision: the events w has to store, and the handover they are for.   *)
LEMMA Decides ==
    ASSUME IInv, NEW w \in Workers, pending[w] = <<>>,
           NEW es \in Seq(Event), NEW h \in Handover \cup {NoOne}, WorkerInv(es, {}, h),
           pending' = [pending EXCEPT ![w] = es], handover' = [handover EXCEPT ![w] = h],
           UNCHANGED State, UNCHANGED news,
           job' \in [Workers -> Job \cup {NoOne}],
           job'[w] # NoOne => h = NoOne, \A v \in Workers \ {w} : job'[v] = job[v],
           requests' \in 0 .. MaxRequests
    PROVE  IInv'
<1>1. /\ pending \in [Workers -> Seq(Event)] /\ handover \in [Workers -> Handover \cup {NoOne}]
      /\ news[w] = {}
  BY DEF IInv, TypeOK
<1>2. /\ pending'[w] = es /\ handover'[w] = h /\ news'[w] = {}
      /\ \A v \in Workers \ {w} : /\ pending'[v] = pending[v] /\ handover'[v] = handover[v]
                                  /\ news'[v] = news[v]
  BY <1>1
<1>3. TypeOK'
  BY <1>1, <1>2 DEF IInv, TypeOK, State
<1>4. ASSUME NEW v \in Workers
      PROVE  /\ WorkerInv(pending[v], news[v], handover[v])'
             /\ job'[v] # NoOne => handover'[v] = NoOne
  <2>1. PICK e2, n2, h2 : e2 = pending'[v] /\ n2 = news'[v] /\ h2 = handover'[v]
    OBVIOUS
  <2>2. WorkerInv(e2, n2, h2) /\ (job'[v] # NoOne => h2 = NoOne)
    BY <1>2, <2>1 DEF IInv, WorkersInv
  <2>3. WorkerInv(e2, n2, h2)'
    BY <2>2, SameWorker DEF State
  <2>4. QED
    BY <2>1, <2>2, <2>3
<1>5. QED
  BY <1>3, <1>4 DEF IInv, WorkersInv

(* Most requests yield a single event and are no handover.                 *)
LEMMA OneEvent ==
    ASSUME IInv, NEW w \in Workers, Idle(w), NEW e \in Event, Yield(w, <<e>>),
           Checked(<<e>>, {}),
           \A r \in Resources : RevokesGrantor(e, r) =>
                \E y \in Names : y # e.identity /\ IsGranted(r, GrantIntent(r), y)
    PROVE  IInv'
<1> DEFINE es == <<e>>
<1>1. es \in Seq(Event) /\ Len(es) = 1 /\ es[1] = e
  OBVIOUS
<1>2. WorkerInv(es, {}, NoOne)
  <2>1. GrantorsRemain(es, {})
    <3> SUFFICES ASSUME NEW r \in Resources, RevokesGrantor(es[1], r)
                 PROVE  GrantorRemains(es, 1, r)
      BY <1>1 DEF GrantorsRemain
    <3>1. PICK y \in Names : y # e.identity /\ IsGranted(r, GrantIntent(r), y)
      BY <1>1
    <3>2. QED
      BY <1>1, <3>1 DEF GrantorRemains
  <2>2. Shape(es) /\ Handed(es, NoOne)
    BY <1>1 DEF Shape, Handed
  <2>3. QED
    BY <2>1, <2>2 DEF WorkerInv
<1> HIDE DEF es
<1>3. /\ pending' = [pending EXCEPT ![w] = es] /\ handover' = [handover EXCEPT ![w] = NoOne]
      /\ requests' = requests + 1 /\ UNCHANGED <<State, job, news>>
  BY DEF Yield, es
<1>4. pending[w] = <<>> /\ job[w] = NoOne /\ requests < MaxRequests
  BY DEF Idle
<1>5. requests' \in 0 .. MaxRequests /\ job' \in [Workers -> Job \cup {NoOne}]
  BY <1>3, <1>4, AccessAssumption DEF IInv, TypeOK
<1>6. QED
  BY <1>1, <1>2, <1>3, <1>4, <1>5, Decides

-----------------------------------------------------------------------------
(* The requests.                                                           *)

LEMMA GrantedType ==
    ASSUME NEW t \in Targets, NEW n \in AllIntents, NEW x \in Names
    PROVE  /\ PermissionGranted(t, n, x) \in Event /\ PermissionRevoked(t, n, x) \in Event
           /\ PermissionGranted(t, n, x).type = "granted"
           /\ PermissionRevoked(t, n, x).type = "revoked"
           /\ PermissionRevoked(t, n, x).target = t /\ PermissionRevoked(t, n, x).intent = n
           /\ PermissionRevoked(t, n, x).identity = x
BY DEF PermissionGranted, PermissionRevoked, Event

LEMMA GrantingStep ==
    ASSUME IInv, NEW w \in Workers, Idle(w),
           NEW t \in Targets, NEW n \in AllIntents, NEW x \in Names,
           Yield(w, <<PermissionGranted(t, n, x)>>)
    PROVE  IInv'
<1>1. PICK e : e = PermissionGranted(t, n, x)
  OBVIOUS
<1>2. e \in Event /\ e.type = "granted"
  BY <1>1, GrantedType
<1>3. Checked(<<e>>, {}) /\ \A r \in Resources : ~RevokesGrantor(e, r)
  BY <1>2 DEF Checked, RevokesGrantor
<1>4. QED
  BY <1>1, <1>2, <1>3, OneEvent

LEMMA RevokingStep ==
    ASSUME IInv, NEW w \in Workers, Idle(w),
           NEW t \in Targets, NEW n \in AllIntents, NEW x \in Names,
           Yield(w, <<PermissionRevoked(t, n, x)>>),
           t \in Resources /\ n = GrantIntent(t) =>
                \E y \in Names : y # x /\ IsGranted(t, n, y)
    PROVE  IInv'
<1>1. PICK e : e = PermissionRevoked(t, n, x)
  OBVIOUS
<1>2. e \in Event /\ e.type = "revoked" /\ e.target = t /\ e.intent = n /\ e.identity = x
  BY <1>1, GrantedType
<1>3. Checked(<<e>>, {})
  BY <1>2 DEF Checked
<1>4. \A r \in Resources : RevokesGrantor(e, r) =>
            \E y \in Names : y # e.identity /\ IsGranted(r, GrantIntent(r), y)
  BY <1>2 DEF RevokesGrantor
<1>5. QED
  BY <1>1, <1>2, <1>3, <1>4, OneEvent

LEMMA GrantStep ==
    ASSUME IInv, NEW w \in Workers, NEW token, NEW r \in Resources, NEW n \in IntentsOf(r),
           NEW x \in Names, Idle(w), Grant(w, token, r, n, x)
    PROVE  IInv'
BY IntentTypes, GrantingStep DEF Grant

(* It is not the last grantor who is revoked.                              *)
LEMMA RevokeStep ==
    ASSUME IInv, NEW w \in Workers, NEW token, NEW r \in Resources, NEW n \in IntentsOf(r),
           NEW x \in Names, Idle(w), Revoke(w, token, r, n, x)
    PROVE  IInv'
<1>1. ASSUME n = GrantIntent(r) PROVE \E y \in Names : y # x /\ IsGranted(r, n, y)
  <2>1. x \in Grantors(r) /\ Cardinality(Grantors(r)) # 1
    BY <1>1 DEF Revoke, IsLastGrantor, Grantors, Granted
  <2>2. Cardinality({x}) = 1
    BY FS_Singleton
  <2>3. Grantors(r) # {x}
    BY <2>1, <2>2
  <2>4. PICK y \in Grantors(r) : y # x
    BY <2>1, <2>3
  <2>5. QED
    BY <1>1, <2>4 DEF Grantors, Granted, IsGranted
<1>2. Idle(w) /\ Yield(w, <<PermissionRevoked(r, n, x)>>)
  BY DEF Revoke
<1>3. r \in Targets /\ n \in AllIntents
  BY IntentTypes
<1>4. QED
  BY <1>1, <1>2, <1>3, RevokingStep

LEMMA AssignStep ==
    ASSUME IInv, NEW w \in Workers, NEW token \in Issuers, Idle(w), Assign(w, token)
    PROVE  IInv'
<1>1. PICK r \in Resources, x \in Names : Idle(w) /\ Yield(w, <<Assigned(r, x)>>)
  BY DEF Assign
<1>2. PICK e : e = Assigned(r, x)
  OBVIOUS
<1>3. e \in Event /\ e.type = "assigned"
  BY <1>2 DEF Assigned, Event
<1>4. Checked(<<e>>, {}) /\ \A q \in Resources : ~RevokesGrantor(e, q)
  BY <1>3 DEF Checked, RevokesGrantor
<1>5. QED
  BY <1>1, <1>2, <1>3, <1>4, OneEvent

LEMMA UserAndGroupSteps ==
    ASSUME IInv, NEW w \in Workers, NEW token \in Issuers, Idle(w),
           \/ CreateGroup(w, token) \/ AddMember(w, token) \/ RemoveMember(w, token)
           \/ EnableUser(w, token) \/ DisableUser(w, token)
    PROVE  IInv'
<1>1. token.user \in Names \cup {Root} /\ users \subseteq Names /\ groups \subseteq Names
  BY IssuerTypes DEF IInv, TypeOK
<1>2. PICK e \in Event :
        /\ Idle(w) /\ Yield(w, <<e>>) /\ e.type # "revoked"
        /\ e.type = "user_disabled" => ~HasAssignments(e.target)
        /\ e.type \in {"user_created", "group_created"} => NameIsFree(e.target)
  <2>1. CASE CreateGroup(w, token)
    <3>1. PICK x \in Names, ms \in MemberSets :
            Idle(w) /\ NameIsFree(x) /\ Yield(w, <<GroupCreated(x, ms, token)>>)
      BY <2>1 DEF CreateGroup
    <3>2. PICK e : e = GroupCreated(x, ms, token)
      OBVIOUS
    <3>3. e \in Event /\ e.type = "group_created" /\ e.target = x
      BY <1>1, <3>2, AccessAssumption DEF GroupCreated, Event
    <3>4. QED
      BY <3>1, <3>2, <3>3
  <2>2. CASE AddMember(w, token)
    <3>1. PICK g \in groups, x \in Names : Idle(w) /\ Yield(w, <<MemberAdded(g, x)>>)
      BY <2>2 DEF AddMember
    <3>2. PICK e : e = MemberAdded(g, x)
      OBVIOUS
    <3>3. e \in Event /\ e.type = "member_added"
      BY <1>1, <3>2 DEF MemberAdded, Event
    <3>4. QED
      BY <3>1, <3>2, <3>3
  <2>3. CASE RemoveMember(w, token)
    <3>1. PICK g \in groups, x \in Names : Idle(w) /\ Yield(w, <<MemberRemoved(g, x)>>)
      BY <2>3 DEF RemoveMember
    <3>2. PICK e : e = MemberRemoved(g, x)
      OBVIOUS
    <3>3. e \in Event /\ e.type = "member_removed"
      BY <1>1, <3>2 DEF MemberRemoved, Event
    <3>4. QED
      BY <3>1, <3>2, <3>3
  <2>4. CASE EnableUser(w, token)
    <3>1. PICK x \in users : Idle(w) /\ Yield(w, <<UserEnabled(x)>>)
      BY <2>4 DEF EnableUser
    <3>2. PICK e : e = UserEnabled(x)
      OBVIOUS
    <3>3. e \in Event /\ e.type = "user_enabled"
      BY <1>1, <3>2 DEF UserEnabled, Event
    <3>4. QED
      BY <3>1, <3>2, <3>3
  <2>5. CASE DisableUser(w, token)
    <3>1. PICK x \in users : Idle(w) /\ ~HasAssignments(x) /\ Yield(w, <<UserDisabled(x)>>)
      BY <2>5 DEF DisableUser
    <3>2. PICK e : e = UserDisabled(x)
      OBVIOUS
    <3>3. e \in Event /\ e.type = "user_disabled" /\ e.target = x
      BY <1>1, <3>2 DEF UserDisabled, Event
    <3>4. QED
      BY <3>1, <3>2, <3>3
  <2>6. QED
    BY <2>1, <2>2, <2>3, <2>4, <2>5
<1>3. Checked(<<e>>, {})
  BY <1>2 DEF Checked, HasAssignments, NameIsFree
<1>4. QED
  BY <1>2, <1>3, OneEvent DEF RevokesGrantor

LEMMA GlobalAndUserPermissionSteps ==
    ASSUME IInv, NEW w \in Workers, NEW token \in Issuers, Idle(w),
           \/ GrantGlobalPermission(w, token) \/ RevokeGlobalPermission(w, token)
           \/ GrantUserPermission(w, token) \/ RevokeUserPermission(w, token)
    PROVE  IInv'
<1>1. users \subseteq Names
  BY DEF IInv, TypeOK
<1>2. /\ Global \in Targets \ Resources /\ \A u \in users : u \in Targets \ Resources
      /\ Range(GlobalIntents) \subseteq AllIntents /\ Range(UserIntents) \subseteq AllIntents
  BY <1>1, AccessAssumption DEF Targets, AllIntents
<1>3. CASE GrantGlobalPermission(w, token)
  BY <1>2, <1>3, GrantingStep DEF GrantGlobalPermission
<1>4. CASE RevokeGlobalPermission(w, token)
  BY <1>2, <1>4, RevokingStep DEF RevokeGlobalPermission
<1>5. CASE GrantUserPermission(w, token)
  BY <1>2, <1>5, GrantingStep DEF GrantUserPermission
<1>6. CASE RevokeUserPermission(w, token)
  BY <1>2, <1>6, RevokingStep DEF RevokeUserPermission
<1>7. QED
  BY <1>3, <1>4, <1>5, <1>6

LEMMA CreateUserStep ==
    ASSUME IInv, NEW w \in Workers, NEW token \in Issuers, Idle(w), CreateUser(w, token)
    PROVE  IInv'
<1>1. PICK x \in Names :
        /\ Idle(w) /\ NameIsFree(x)
        /\ Yield(w, <<UserCreated(x), PermissionGranted(Global, DefaultIntent, x)>>)
  BY DEF CreateUser
<1>2. PICK e, f : e = UserCreated(x) /\ f = PermissionGranted(Global, DefaultIntent, x)
  OBVIOUS
<1>3. Global \in Targets /\ DefaultIntent \in AllIntents
  BY AccessAssumption DEF Targets, AllIntents
<1>4. f \in Event /\ f.type = "granted"
  BY <1>2, <1>3, GrantedType
<1>5. e \in Event /\ e.type = "user_created" /\ e.target = x
  BY <1>2 DEF UserCreated, Event
<1> DEFINE es == <<e, f>>
<1>6. es \in Seq(Event) /\ Len(es) = 2 /\ es[1] = e /\ es[2] = f /\ Head(es) = e
  BY <1>4, <1>5
<1>7. WorkerInv(es, {}, NoOne)
  <2>1. \A k \in 1 .. Len(es) : es[k].type # "revoked"
    BY <1>4, <1>5, <1>6
  <2>2. GrantorsRemain(es, {})
    BY <2>1 DEF GrantorsRemain, RevokesGrantor
  <2>3. Shape(es) /\ Handed(es, NoOne)
    BY <1>4, <1>6 DEF Shape, Handed
  <2>4. Checked(es, {})
    BY <1>1, <1>5, <1>6 DEF Checked, NameIsFree
  <2>5. QED
    BY <2>2, <2>3, <2>4 DEF WorkerInv
<1> HIDE DEF es
<1>8. /\ pending' = [pending EXCEPT ![w] = es] /\ handover' = [handover EXCEPT ![w] = NoOne]
      /\ requests' = requests + 1 /\ UNCHANGED <<State, job, news>>
  BY <1>1, <1>2 DEF Yield, es
<1>9. pending[w] = <<>> /\ job[w] = NoOne /\ requests < MaxRequests
  BY <1>1 DEF Idle
<1>10. requests' \in 0 .. MaxRequests /\ job' \in [Workers -> Job \cup {NoOne}]
  BY <1>8, <1>9, AccessAssumption DEF IInv, TypeOK
<1>11. QED
  BY <1>6, <1>7, <1>8, <1>9, <1>10, Decides

(* The loop over all global intents.                                       *)
LEMMA Nothing == WorkerInv(<<>>, {}, NoOne) /\ <<>> \in Seq(Event)
BY DEF WorkerInv, Shape, Checked, GrantorsRemain, Handed

LEMMA BeginGrantAllStep ==
    ASSUME IInv, NEW w \in Workers, NEW token \in Issuers, Idle(w), BeginGrantAll(w, token)
    PROVE  IInv'
<1>1. PICK x \in Names :
        /\ Idle(w)
        /\ job' = [job EXCEPT ![w] =
                [token |-> token, grantee |-> x, todo |-> GlobalIntents,
                 skip |-> {n \in Range(GlobalIntents) :
                                <<Global, n, token.user>> \in granted}]]
        /\ requests' = requests + 1
        /\ handover' = [handover EXCEPT ![w] = NoOne]
        /\ UNCHANGED <<State, pending, news>>
  BY DEF BeginGrantAll
<1>2. pending[w] = <<>> /\ job[w] = NoOne /\ requests < MaxRequests
  BY <1>1 DEF Idle
<1>3. token \in Token /\ GlobalIntents \in Seq(Range(GlobalIntents))
  BY IssuerTypes, AccessAssumption DEF IInv
<1>4. requests' \in 0 .. MaxRequests
  BY <1>1, <1>2, AccessAssumption DEF IInv, TypeOK
<1>5. PICK j : j = [token |-> token, grantee |-> x, todo |-> GlobalIntents,
                    skip |-> {n \in Range(GlobalIntents) :
                                <<Global, n, token.user>> \in granted}]
  OBVIOUS
<1>6. j \in Job
  BY <1>3, <1>5 DEF Job
<1>7. /\ job' \in [Workers -> Job \cup {NoOne}]
      /\ \A v \in Workers \ {w} : job'[v] = job[v]
  BY <1>1, <1>5, <1>6 DEF IInv, TypeOK
<1>8. pending' = [pending EXCEPT ![w] = <<>>]
  BY <1>1, <1>2 DEF IInv, TypeOK
<1>9. QED
  BY <1>1, <1>2, <1>4, <1>7, <1>8, Nothing, Decides

LEMMA GrantAllNextStep ==
    ASSUME IInv, NEW w \in Workers, GrantAllNext(w)
    PROVE  IInv'
<1>1. /\ job[w] # NoOne /\ pending[w] = <<>> /\ job[w].todo # <<>>
      /\ UNCHANGED <<State, handover, news, requests>>
  BY DEF GrantAllNext
<1>2. /\ handover[w] = NoOne /\ handover' = [handover EXCEPT ![w] = NoOne]
      /\ requests' \in 0 .. MaxRequests /\ job[w] \in Job
  BY <1>1 DEF IInv, WorkersInv, TypeOK
<1>3. PICK n : n = Head(job[w].todo)
  OBVIOUS
<1>4. /\ n \in Range(GlobalIntents) /\ job[w].grantee \in Names
      /\ [job[w] EXCEPT !.todo = Tail(@)] \in Job
  <2>1. PICK j : j = job[w]
    OBVIOUS
  <2>2. /\ j.token \in Token /\ j.grantee \in Names /\ j.todo \in Seq(Range(GlobalIntents))
        /\ j.skip \in SUBSET Range(GlobalIntents) /\ j.todo # <<>>
        /\ j = [token |-> j.token, grantee |-> j.grantee, todo |-> j.todo, skip |-> j.skip]
    BY <1>1, <1>2, <2>1 DEF Job
  <2>3. Head(j.todo) \in Range(GlobalIntents) /\ Tail(j.todo) \in Seq(Range(GlobalIntents))
    BY <2>2
  <2>4. PICK s : s = Tail(j.todo)
    OBVIOUS
  <2>5. [j EXCEPT !.todo = s] \in Job
    BY <2>2, <2>3, <2>4 DEF Job
  <2>6. QED
    BY <1>3, <2>1, <2>2, <2>3, <2>4, <2>5
<1>5. /\ job' \in [Workers -> Job \cup {NoOne}]
      /\ \A v \in Workers \ {w} : job'[v] = job[v]
  <2>1. \/ job' = [job EXCEPT ![w].todo = Tail(@)] \/ job' = [job EXCEPT ![w] = NoOne]
    BY DEF GrantAllNext
  <2>2. QED
    BY <1>4, <2>1 DEF IInv, TypeOK
<1>6. CASE UNCHANGED pending
  <2>1. pending' = [pending EXCEPT ![w] = <<>>]
    BY <1>1, <1>6 DEF IInv, TypeOK
  <2>2. QED
    BY <1>1, <1>2, <1>5, <2>1, Nothing, Decides
<1>7. CASE pending' = [pending EXCEPT ![w] = <<PermissionGranted(Global, n, job[w].grantee)>>]
  <2>1. PICK e : e = PermissionGranted(Global, n, job[w].grantee)
    OBVIOUS
  <2>2. e \in Event /\ e.type = "granted"
    BY <1>4, <2>1, GrantedType DEF Targets, AllIntents
  <2> DEFINE es == <<e>>
  <2>3. es \in Seq(Event) /\ Len(es) = 1 /\ es[1] = e /\ Head(es) = e
    BY <2>2
  <2>4. WorkerInv(es, {}, NoOne)
    BY <2>2, <2>3 DEF WorkerInv, Shape, Checked, GrantorsRemain, RevokesGrantor, Handed
  <2>5. pending' = [pending EXCEPT ![w] = es]
    BY <1>7, <2>1
  <2> HIDE DEF es
  <2>6. QED
    BY <1>1, <1>2, <1>5, <2>3, <2>4, <2>5, Decides
<1>8. QED
  BY <1>3, <1>6, <1>7 DEF GrantAllNext

LEMMA GrantAllAnswerStep ==
    ASSUME IInv, NEW w \in Workers, GrantAllAnswer(w)
    PROVE  IInv'
<1>1. /\ job[w] # NoOne /\ pending[w] = <<>> /\ job' = [job EXCEPT ![w] = NoOne]
      /\ UNCHANGED <<State, pending, handover, news, requests>>
  BY DEF GrantAllAnswer
<1>2. /\ handover' = [handover EXCEPT ![w] = NoOne] /\ requests' \in 0 .. MaxRequests
      /\ pending' = [pending EXCEPT ![w] = <<>>]
      /\ job' \in [Workers -> Job \cup {NoOne}]
      /\ \A v \in Workers \ {w} : job'[v] = job[v]
  BY <1>1 DEF IInv, WorkersInv, TypeOK
<1>3. QED
  BY <1>1, <1>2, Nothing, Decides

(* Failures, and the tokens.                                               *)
LEMMA FailStep ==
    ASSUME IInv, NEW w \in Workers, Fail(w)
    PROVE  IInv'
<1>1. /\ pending' = [pending EXCEPT ![w] = <<>>] /\ job' = [job EXCEPT ![w] = NoOne]
      /\ news' = [news EXCEPT ![w] = {}] /\ UNCHANGED <<State, handover, requests>>
  BY DEF Fail
<1>2. TypeOK'
  BY <1>1 DEF IInv, TypeOK, State
<1>3. ASSUME NEW v \in Workers
      PROVE  /\ WorkerInv(pending[v], news[v], handover[v])'
             /\ job'[v] # NoOne => handover'[v] = NoOne
  <2>1. PICK es, ns, h : es = pending[v] /\ ns = news[v] /\ h = handover[v]
    OBVIOUS
  <2>2. WorkerInv(es, ns, h) /\ (job[v] # NoOne => h = NoOne)
    BY <2>1 DEF IInv, WorkersInv
  <2>3. CASE v # w
    <3>1. pending'[v] = es /\ news'[v] = ns /\ handover'[v] = h /\ job'[v] = job[v]
      BY <1>1, <2>1, <2>3 DEF IInv, TypeOK
    <3>2. WorkerInv(es, ns, h)'
      BY <1>1, <2>2, SameWorker DEF State
    <3>3. QED
      BY <2>2, <3>1, <3>2
  <2>4. CASE v = w
    <3>1. pending'[v] = <<>> /\ news'[v] = {} /\ handover'[v] = h /\ job'[v] = NoOne
      BY <1>1, <2>1, <2>4 DEF IInv, TypeOK
    <3>2. Handed(<<>>, h)
      BY <2>2 DEF WorkerInv, Handed
    <3>3. WorkerInv(<<>>, {}, h)
      BY <3>2, Nothing DEF WorkerInv
    <3>4. WorkerInv(<<>>, {}, h)'
      BY <1>1, <3>3, SameWorker DEF State
    <3>5. QED
      BY <3>1, <3>4
  <2>5. QED
    BY <2>3, <2>4
<1>4. QED
  BY <1>2, <1>3 DEF IInv, WorkersInv

LEMMA TokenStep ==
    ASSUME IInv, \/ \E x \in Names : Login(x)
                 \/ \E token \in tokens : Expire(token)
    PROVE  IInv'
<1>1. UNCHANGED <<users, groups, members, granted, assignee, pending, job, handover,
                  news, requests>>
  BY DEF Login, Expire
<1>2. tokens' \subseteq Token
  <2>1. ASSUME NEW x \in Names
        PROVE  [user |-> x, groups |-> {g \in groups : x \in members[g]}] \in Token
    BY DEF IInv, TypeOK, Token
  <2>2. \/ \E x \in Names : tokens' = tokens \cup
                {[user |-> x, groups |-> {g \in groups : x \in members[g]}]}
        \/ \E token \in tokens : tokens' = tokens \ {token}
    BY DEF Login, Expire
  <2>3. tokens \subseteq Token
    BY DEF IInv, TypeOK
  <2>4. QED
    BY <2>1, <2>2, <2>3
<1>3. TypeOK'
  BY <1>1, <1>2 DEF IInv, TypeOK
<1>4. ASSUME NEW v \in Workers
      PROVE  WorkerInv(pending[v], news[v], handover[v])'
  <2>1. PICK es, ns, h : es = pending[v] /\ ns = news[v] /\ h = handover[v]
    OBVIOUS
  <2>2. WorkerInv(es, ns, h)'
    BY <1>1, <2>1, SameWorker DEF IInv, WorkersInv
  <2>3. QED
    BY <1>1, <2>1, <2>2
<1>5. QED
  BY <1>1, <1>3, <1>4 DEF IInv, WorkersInv

-----------------------------------------------------------------------------
LEMMA Concatenation ==
    ASSUME NEW S, NEW s \in Seq(S), NEW u \in Seq(S), NEW c, c = s \o u
    PROVE  /\ c \in Seq(S) /\ Len(c) = Len(s) + Len(u)
           /\ \A k \in 1 .. Len(s) : c[k] = s[k]
           /\ \A k \in Len(s) + 1 .. Len(s) + Len(u) : c[k] = u[k - Len(s)]
BY ConcatProperties

LEMMA Prefixed ==
    ASSUME NEW S, NEW a \in S, NEW s \in Seq(S), NEW c, c = <<a>> \o s
    PROVE  /\ c \in Seq(S) /\ Len(c) = 1 + Len(s) /\ c # <<>>
           /\ c[1] = a
           /\ \A k \in 2 .. 1 + Len(s) : c[k] = s[k - 1]
<1>1. <<a>> \in Seq(S) /\ Len(<<a>>) = 1 /\ <<a>>[1] = a
  OBVIOUS
<1>2. /\ c \in Seq(S) /\ Len(c) = 1 + Len(s)
      /\ c[1] = a
      /\ \A k \in 2 .. 1 + Len(s) : c[k] = s[k - 1]
  BY <1>1, ConcatProperties
<1>3. c # <<>>
  BY <1>2
<1>4. QED
  BY <1>2, <1>3

(* The events that hand a restricted workflowitem over: its assignment or  *)
(* creation, then all grants, and only then the revocations.               *)
IsHandover(es, a, i, x, p) ==
    /\ es = <<a>> \o PermissionEvents(i, x, p)
    /\ es \in Seq(Event) /\ es # <<>> /\ es[1] = a
    /\ \A k \in 2 .. Len(es) :
        \/ \E n \in Range(WorkflowitemIntents) : es[k] = PermissionGranted(i, n, x)
        \/ /\ p \in Names /\ p # x /\ k > 1 + Len(WorkflowitemIntents)
           /\ \E n \in Range(WorkflowitemIntents) : es[k] = PermissionRevoked(i, n, p)
    /\ \A n \in Range(WorkflowitemIntents) :
        \E j \in 1 .. Len(es) : /\ j <= 1 + Len(WorkflowitemIntents)
                               /\ es[j] = PermissionGranted(i, n, x)
    /\ p \in Names /\ p # x =>
        \A n \in Range(WorkflowitemIntents) \ {ViewIntent} :
            \E k \in 1 .. Len(es) : es[k] = PermissionRevoked(i, n, p)

LEMMA HandoverEvents ==
    ASSUME NEW i \in Restricted, NEW x \in Names, NEW p \in Names \cup {Root},
           NEW a \in Event
    PROVE  \E es : IsHandover(es, a, i, x, p)
<1> DEFINE WI == WorkflowitemIntents
           RI == RevokedIntents
           G  == Grants(i, x)
           V  == Revocations(i, p)
           L  == Len(WI)
<1>1. WI \in Seq(Range(WI)) /\ RI \in Seq(AllIntents) /\ Range(RI) = Range(WI) \ {ViewIntent}
  BY AccessAssumption, SplitAssumption
<1>2. L \in Nat /\ DOMAIN WI = 1 .. L /\ Len(RI) \in Nat /\ DOMAIN RI = 1 .. Len(RI)
  BY <1>1
<1>3. /\ Range(WI) = {WI[k] : k \in 1 .. L} /\ Range(RI) = {RI[k] : k \in 1 .. Len(RI)}
      /\ Range(WI) \subseteq AllIntents /\ i \in Targets /\ i \in Resources
  BY <1>2, IntentTypes DEF Range, AllIntents
<1> HIDE DEF WI, RI, L
<1>5. G \in Seq(Event) /\ Len(G) = L /\ \A k \in 1 .. L : G[k] = PermissionGranted(i, WI[k], x)
  <2>0. i \in Targets /\ \A k \in 1 .. L : WI[k] \in AllIntents
    BY <1>3
  <2>1. \A k \in 1 .. L : PermissionGranted(i, WI[k], x) \in Event
    BY <2>0, GrantedType
  <2>2. G = [k \in 1 .. L |-> PermissionGranted(i, WI[k], x)]
    BY <1>2 DEF Grants, WI
  <2>3. QED
    BY <1>2, <2>1, <2>2
<1>6. ASSUME p \in Names
      PROVE  /\ V \in Seq(Event) /\ Len(V) = Len(RI)
             /\ \A k \in 1 .. Len(RI) : V[k] = PermissionRevoked(i, RI[k], p)
  <2>1. \A k \in 1 .. Len(RI) : PermissionRevoked(i, RI[k], p) \in Event
    BY <1>1, <1>2, <1>3, <1>6, GrantedType
  <2>2. V = [k \in 1 .. Len(RI) |-> PermissionRevoked(i, RI[k], p)]
    BY <1>2 DEF Revocations, RI
  <2>3. QED
    BY <1>2, <2>1, <2>2
<1> HIDE DEF G, V
<1>e. PICK gs, vs : gs = G /\ vs = V
  OBVIOUS
<1>f. gs \in Seq(Event) /\ Len(gs) = L
  BY <1>5, <1>e
<1>h. p \in Names => vs \in Seq(Event) /\ Len(vs) = Len(RI)
  BY <1>6, <1>e
<1>g. /\ \A k \in 1 .. L : gs[k] = PermissionGranted(i, WI[k], x)
      /\ p \in Names => \A k \in 1 .. Len(RI) : vs[k] = PermissionRevoked(i, RI[k], p)
  BY <1>5, <1>6, <1>e
<1>7. CASE p = x \/ p \notin Names
  <2>1. PICK es : es = <<a>> \o gs
    OBVIOUS
  <2>2. es \in Seq(Event) /\ Len(es) = 1 + L /\ es[1] = a /\ es # <<>>
    BY <1>f, <2>1, Prefixed
  <2>3. \A k \in 2 .. Len(es) : k - 1 \in 1 .. L /\ es[k] = gs[k - 1]
    BY <1>2, <1>f, <2>1, <2>2, Prefixed
  <2>4. \A k \in 2 .. Len(es) : \E n \in Range(WI) : es[k] = PermissionGranted(i, n, x)
    BY <1>3, <1>g, <2>3
  <2>5. ASSUME NEW n \in Range(WI)
        PROVE  \E j \in 1 .. Len(es) : j <= 1 + L /\ es[j] = PermissionGranted(i, n, x)
    <3>1. PICK k \in 1 .. L : n = WI[k]
      BY <1>3
    <3>2. k + 1 \in 2 .. Len(es) /\ (k + 1) - 1 = k
      BY <1>2, <2>2, <3>1
    <3>3. es[k + 1] = PermissionGranted(i, n, x)
      BY <1>g, <2>3, <3>1, <3>2
    <3>4. QED
      BY <1>2, <2>2, <3>2, <3>3
  <2>6. es = <<a>> \o PermissionEvents(i, x, p)
    BY <1>7, <1>e, <2>1 DEF PermissionEvents, G
  <2>7. QED
    BY <1>7, <2>2, <2>4, <2>5, <2>6 DEF IsHandover, WI, L
<1>8. CASE p \in Names /\ p # x
  <2>0. vs \in Seq(Event) /\ Len(vs) = Len(RI)
    BY <1>h, <1>8
  <2>1. PICK GV : GV = gs \o vs
    OBVIOUS
  <2>2. /\ GV \in Seq(Event) /\ Len(GV) = L + Len(RI)
        /\ \A k \in 1 .. L : GV[k] = gs[k]
        /\ \A k \in L + 1 .. L + Len(RI) : GV[k] = vs[k - L]
    <3>1. /\ GV \in Seq(Event) /\ Len(GV) = Len(gs) + Len(vs)
          /\ \A k \in 1 .. Len(gs) : GV[k] = gs[k]
          /\ \A k \in Len(gs) + 1 .. Len(gs) + Len(vs) : GV[k] = vs[k - Len(gs)]
      <4>1. gs \in Seq(Event) /\ vs \in Seq(Event)
        BY <1>f, <2>0
      <4>2. QED
        BY <2>1, <4>1, Concatenation
    <3>2. Len(gs) = L /\ Len(vs) = Len(RI)
      BY <1>f, <2>0
    <3>3. QED
      BY <3>1, <3>2
  <2>3. PICK es : es = <<a>> \o GV
    OBVIOUS
  <2>4. es \in Seq(Event) /\ Len(es) = 1 + L + Len(RI) /\ es[1] = a /\ es # <<>>
    BY <1>2, <1>f, <2>2, <2>3, Prefixed
  <2>5. \A k \in 2 .. Len(es) : es[k] = GV[k - 1]
    BY <1>2, <1>f, <2>2, <2>3, <2>4, Prefixed
  <2>6. \A k \in 2 .. 1 + L : es[k] = PermissionGranted(i, WI[k - 1], x)
    <3> SUFFICES ASSUME NEW k \in 2 .. 1 + L
                 PROVE  es[k] = PermissionGranted(i, WI[k - 1], x)
      OBVIOUS
    <3>1. k - 1 \in 1 .. L /\ k \in 2 .. Len(es)
      BY <1>2, <2>4
    <3>2. QED
      BY <1>g, <2>2, <2>5, <3>1
  <2>7. \A k \in 2 + L .. Len(es) :
            /\ k - 1 - L \in 1 .. Len(RI)
            /\ es[k] = PermissionRevoked(i, RI[k - 1 - L], p)
    <3> SUFFICES ASSUME NEW k \in 2 + L .. Len(es)
                 PROVE  /\ k - 1 - L \in 1 .. Len(RI)
                        /\ es[k] = PermissionRevoked(i, RI[k - 1 - L], p)
      OBVIOUS
    <3>1. k - 1 \in L + 1 .. L + Len(RI) /\ k \in 2 .. Len(es) /\ k - 1 - L \in 1 .. Len(RI)
      BY <1>2, <2>4
    <3>2. QED
      BY <1>g, <1>8, <2>2, <2>5, <3>1
  <2>8. ASSUME NEW k \in 2 .. Len(es)
        PROVE  \/ \E n \in Range(WI) : es[k] = PermissionGranted(i, n, x)
               \/ k > 1 + L /\ \E n \in Range(WI) : es[k] = PermissionRevoked(i, n, p)
    <3>1. CASE k <= 1 + L
      <4>1. k \in 2 .. 1 + L /\ k - 1 \in 1 .. L
        BY <1>2, <2>4, <3>1
      <4>2. QED
        BY <1>3, <2>6, <4>1
    <3>2. CASE k > 1 + L
      <4>1. k \in 2 + L .. Len(es)
        BY <1>2, <2>4, <3>2
      <4>2. RI[k - 1 - L] \in Range(WI)
        BY <1>1, <1>3, <2>7, <4>1 DEF WI, RI
      <4>3. QED
        BY <2>7, <3>2, <4>1, <4>2
    <3>3. QED
      BY <1>2, <2>4, <3>1, <3>2
  <2>9. ASSUME NEW n \in Range(WI)
        PROVE  \E j \in 1 .. Len(es) : j <= 1 + L /\ es[j] = PermissionGranted(i, n, x)
    <3>1. PICK k \in 1 .. L : n = WI[k]
      BY <1>3
    <3>2. k + 1 \in 2 .. 1 + L /\ k + 1 \in 1 .. Len(es) /\ (k + 1) - 1 = k
      BY <1>2, <2>4, <3>1
    <3>3. es[k + 1] = PermissionGranted(i, n, x)
      BY <2>6, <3>1, <3>2
    <3>4. QED
      BY <1>2, <3>2, <3>3
  <2>10. ASSUME NEW n \in Range(WI) \ {ViewIntent}
         PROVE  \E k \in 1 .. Len(es) : es[k] = PermissionRevoked(i, n, p)
    <3>1. PICK k \in 1 .. Len(RI) : n = RI[k]
      BY <1>1, <1>3 DEF WI, RI
    <3>2. PICK m : m = k + 1 + L
      OBVIOUS
    <3>3. m \in 2 + L .. Len(es) /\ m \in 1 .. Len(es) /\ m - 1 - L = k
      BY <1>2, <2>4, <3>1, <3>2
    <3>4. QED
      BY <2>7, <3>1, <3>3
  <2>11. es = <<a>> \o PermissionEvents(i, x, p)
    BY <1>8, <1>e, <2>1, <2>3 DEF PermissionEvents, G, V
  <2>12. QED
    BY <1>8, <2>4, <2>8, <2>9, <2>10, <2>11 DEF IsHandover, WI, L
<1>9. QED
  BY <1>7, <1>8

LEMMA EventFields ==
    ASSUME NEW t, NEW n, NEW x
    PROVE  /\ PermissionGranted(t, n, x).type = "granted"
           /\ PermissionGranted(t, n, x).target = t /\ PermissionGranted(t, n, x).intent = n
           /\ PermissionGranted(t, n, x).identity = x
           /\ PermissionRevoked(t, n, x).type = "revoked"
           /\ PermissionRevoked(t, n, x).target = t /\ PermissionRevoked(t, n, x).intent = n
           /\ PermissionRevoked(t, n, x).identity = x
           /\ Assigned(t, x).type = "assigned"
           /\ WorkflowitemCreated(t, n, x).type = "workflowitem_created"
           /\ WorkflowitemCreated(t, n, x).target = t
           /\ WorkflowitemCreated(t, n, x).publisher = x
BY DEF PermissionGranted, PermissionRevoked, Assigned, WorkflowitemCreated

(* A restricted workflowitem that is there is handed over with what the    *)
(* publisher is granted; one that is created now, with all permissions.    *)
LEMMA HandsOverStep ==
    ASSUME IInv, NEW w \in Workers, NEW token \in Issuers, Idle(w),
           NEW i \in Restricted, NEW x \in Names, NEW a \in Event,
           NEW held \in SUBSET Range(WorkflowitemIntents),
           a.type \in {"assigned", "workflowitem_created"},
           ~IsCreation(a) =>
                Exists(i) /\ \A n \in held : IsGranted(i, n, token.user),
           IsCreation(a) =>
                ~Exists(i) /\ a.target = i /\ a.publisher = token.user,
           pending' = [pending EXCEPT ![w] = <<a>> \o PermissionEvents(i, x, token.user)],
           HandsOver(w, token, i, x, held),
           requests' = requests + 1, UNCHANGED <<State, job, news>>
    PROVE  IInv'
<1>2. PICK p \in Names \cup {Root} : p = token.user
  BY IssuerTypes DEF IInv
<1> DEFINE WI == WorkflowitemIntents
<1>e. PICK es : IsHandover(es, a, i, x, p)
  BY HandoverEvents
<1>3. /\ es = <<a>> \o PermissionEvents(i, x, p)
      /\ es \in Seq(Event) /\ es # <<>> /\ es[1] = a
      /\ \A k \in 2 .. Len(es) :
            \/ \E n \in Range(WI) : es[k] = PermissionGranted(i, n, x)
            \/ /\ p \in Names /\ p # x /\ k > 1 + Len(WI)
               /\ \E n \in Range(WI) : es[k] = PermissionRevoked(i, n, p)
      /\ \A n \in Range(WI) :
            \E j \in 1 .. Len(es) : /\ j <= 1 + Len(WI)
                                   /\ es[j] = PermissionGranted(i, n, x)
      /\ p \in Names /\ p # x =>
            \A n \in Range(WI) \ {ViewIntent} :
                \E k \in 1 .. Len(es) : es[k] = PermissionRevoked(i, n, p)
  BY <1>e DEF IsHandover
<1>4. PICK h : h = IF x = p \/ p = Root THEN NoOne
                   ELSE [item |-> i, from |-> p, to |-> x, complete |-> FALSE,
                         held |-> held]
  OBVIOUS
<1>5. Len(WI) \in Nat /\ WI \in Seq(Range(WI)) /\ i \in Resources
      /\ GrantIntent(i) \in Range(WI)
  BY AccessAssumption, IntentTypes
<1> HIDE DEF WI
<1>6. h \in Handover \cup {NoOne}
  BY <1>4 DEF Handover, WI
<1>7. /\ Shape(es) /\ Checked(es, {}) /\ Len(es) \in Nat
      /\ es[1].type \notin {"granted", "revoked"}
  BY <1>3, EventFields DEF Shape, Checked
<1>8. ASSUME NEW k \in 1 .. Len(es), es[k].type = "revoked"
      PROVE  /\ p \in Names /\ p # x /\ es[k].target = i /\ es[k].identity = p
             /\ \A n \in Range(WI) : \E j \in 1 .. k - 1 : es[j] = PermissionGranted(i, n, x)
  <2>1. k \in 2 .. Len(es)
    BY <1>7, <1>8
  <2>2. p \in Names /\ p # x /\ k > 1 + Len(WI)
        /\ \E n \in Range(WI) : es[k] = PermissionRevoked(i, n, p)
    <3>1. ASSUME NEW n \in Range(WI) PROVE es[k] # PermissionGranted(i, n, x)
      BY <1>8, EventFields
    <3>2. QED
      BY <1>3, <2>1, <3>1
  <2>3. ASSUME NEW n \in Range(WI)
        PROVE  \E j \in 1 .. k - 1 : es[j] = PermissionGranted(i, n, x)
    <3>1. PICK j \in 1 .. Len(es) : j <= 1 + Len(WI) /\ es[j] = PermissionGranted(i, n, x)
      BY <1>3
    <3>2. j \in 1 .. k - 1
      BY <1>5, <1>7, <2>2, <3>1
    <3>3. QED
      BY <3>1, <3>2
  <2>4. QED
    BY <2>2, <2>3, EventFields
<1>9. GrantorsRemain(es, {})
  <2> SUFFICES ASSUME NEW k \in 1 .. Len(es), NEW r \in Resources, RevokesGrantor(es[k], r)
               PROVE  GrantorRemains(es, k, r)
    BY DEF GrantorsRemain
  <2>1. /\ es[k].type = "revoked" /\ es[k].target = r
    BY DEF RevokesGrantor
  <2>2. r = i /\ p # x /\ es[k].identity = p
    BY <1>8, <2>1
  <2>3. \E j \in 1 .. k - 1 : es[j] = PermissionGranted(r, GrantIntent(r), x)
    BY <1>5, <1>8, <2>1, <2>2
  <2>4. ASSUME NEW j \in 1 .. k - 1
        PROVE  es[j] # PermissionRevoked(r, GrantIntent(r), x)
    <3>1. j \in 1 .. Len(es)
      BY <1>7
    <3>2. es[j].type = "revoked" => es[j].identity = p
      BY <1>8, <3>1
    <3>3. QED
      BY <2>2, <3>2, EventFields
  <2>5. QED
    BY <2>2, <2>3, <2>4 DEF GrantorRemains
<1>10. Handed(es, h)
  <2>1. CASE h = NoOne
    BY <2>1 DEF Handed
  <2>2. CASE h # NoOne
    <3>1. /\ h.item = i /\ h.from = p /\ h.to = x /\ h.complete = FALSE
          /\ h.held = held /\ p # x /\ p # Root
      BY <1>4, <2>2
    <3>2. \A k \in 1 .. Len(es) : es[k].type = "granted" => es[k].identity = x
      <4> SUFFICES ASSUME NEW k \in 1 .. Len(es), es[k].type = "granted"
                   PROVE  es[k].identity = x
        OBVIOUS
      <4>1. k \in 2 .. Len(es)
        BY <1>7
      <4>2. QED
        BY <1>3, <4>1, EventFields
    <3>3. \A n \in Range(WI) \ {ViewIntent} :
                \E k \in 1 .. Len(es) : es[k] = PermissionRevoked(i, n, p)
      BY <1>3, <3>1
    <3>4. /\ Exists(i) => \A n \in h.held : IsGranted(i, n, p)
          /\ ~IsCreation(es[1]) => Exists(i)
          /\ IsCreation(es[1]) => es[1].target = i /\ es[1].publisher = p
      BY <1>2, <1>3, <3>1
    <3>5. QED
      BY <1>8, <3>1, <3>2, <3>3, <3>4 DEF Handed, WI
  <2>3. QED
    BY <2>1, <2>2
<1>11. WorkerInv(es, {}, h)
  BY <1>7, <1>9, <1>10 DEF WorkerInv
<1>12. pending[w] = <<>> /\ job[w] = NoOne /\ requests < MaxRequests
  BY DEF Idle
<1>13. requests' \in 0 .. MaxRequests /\ job' \in [Workers -> Job \cup {NoOne}]
  BY <1>12, AccessAssumption DEF IInv, TypeOK
<1>14. pending' = [pending EXCEPT ![w] = es] /\ handover' = [handover EXCEPT ![w] = h]
  BY <1>2, <1>3, <1>4 DEF HandsOver
<1>15. QED
  BY <1>3, <1>6, <1>11, <1>12, <1>13, <1>14, Decides

LEMMA AssignRestrictedStep ==
    ASSUME IInv, NEW w \in Workers, NEW token \in Issuers, Idle(w), AssignRestricted(w, token)
    PROVE  IInv'
<1>1. PICK i \in Restricted, x \in Names :
        /\ Exists(i)
        /\ pending' = [pending EXCEPT ![w] =
                <<Assigned(i, x)>> \o PermissionEvents(i, x, token.user)]
        /\ HandsOver(w, token, i, x, {n \in Range(WorkflowitemIntents) :
                                            <<i, n, token.user>> \in granted})
        /\ requests' = requests + 1
        /\ UNCHANGED <<State, job, news>>
  BY DEF AssignRestricted
<1>2. PICK a, held : /\ a = Assigned(i, x)
                     /\ held = {n \in Range(WorkflowitemIntents) :
                                    <<i, n, token.user>> \in granted}
  OBVIOUS
<1>3. a \in Event /\ a.type = "assigned" /\ i \in Resources
  BY <1>2, IntentTypes DEF Assigned, Event
<1>4. /\ held \in SUBSET Range(WorkflowitemIntents) /\ ~IsCreation(a)
      /\ \A n \in held : IsGranted(i, n, token.user)
  BY <1>2, <1>3 DEF IsGranted, IsCreation
<1>5. QED
  BY <1>1, <1>2, <1>3, <1>4, HandsOverStep

LEMMA CreateWorkflowitemStep ==
    ASSUME IInv, NEW w \in Workers, NEW token \in Issuers, Idle(w),
           CreateWorkflowitem(w, token)
    PROVE  IInv'
<1>1. PICK i \in Workflowitems, x \in Names :
        /\ ~Exists(i) /\ token.user # Root
        /\ IF i \in Restricted
             THEN /\ pending' = [pending EXCEPT ![w] =
                        <<WorkflowitemCreated(i, x, token.user)>>
                            \o PermissionEvents(i, x, token.user)]
                  /\ HandsOver(w, token, i, x, Range(WorkflowitemIntents))
                  /\ requests' = requests + 1
                  /\ UNCHANGED <<State, job, news>>
             ELSE Yield(w, <<WorkflowitemCreated(i, x, token.user)>>)
  BY DEF CreateWorkflowitem, Fresh
<1>2. PICK a : a = WorkflowitemCreated(i, x, token.user)
  OBVIOUS
<1>3. token.user \in Names
  BY <1>1, IssuerTypes DEF IInv
<1>4. /\ a \in Event /\ a.type = "workflowitem_created" /\ a.target = i
      /\ a.publisher = token.user /\ IsCreation(a)
  BY <1>2, <1>3 DEF WorkflowitemCreated, Event, IsCreation
<1>5. CASE i \in Restricted
  BY <1>1, <1>2, <1>4, <1>5, HandsOverStep
<1>6. CASE i \notin Restricted
  <2>1. Checked(<<a>>, {}) /\ \A r \in Resources : ~RevokesGrantor(a, r)
    BY <1>4 DEF Checked, RevokesGrantor
  <2>2. QED
    BY <1>1, <1>2, <1>4, <1>6, <2>1, OneEvent
<1>7. QED
  BY <1>5, <1>6

-----------------------------------------------------------------------------
(* Storing an event.                                                       *)

LEMMA EventTypes ==
    ASSUME NEW e \in Event
    PROVE  /\ e.target \in Targets
           /\ e.type = "granted" =>
                /\ e.intent \in AllIntents /\ e.identity \in Names
                /\ e = PermissionGranted(e.target, e.intent, e.identity)
           /\ e.type = "revoked" =>
                /\ e.intent \in AllIntents /\ e.identity \in Names
                /\ e = PermissionRevoked(e.target, e.intent, e.identity)
           /\ e.type = "assigned" => e.target \in Resources /\ e.identity \in Names
           /\ e.type = "workflowitem_created" =>
                e.target \in Resources /\ e.identity \in Names /\ e.publisher \in Names
           /\ e.type \in {"user_created", "user_enabled", "user_disabled"} => e.target \in Names
           /\ e.type = "group_created" => e.target \in Names /\ e.members \subseteq Names
           /\ e.type \in {"member_added", "member_removed"} =>
                e.target \in Names /\ e.identity \in Names
BY DEF Event, Targets, Resources, PermissionGranted, PermissionRevoked

Gives(e, r, n, x) ==
    \/ e = PermissionGranted(r, n, x)
    \/ IsCreation(e) /\ e.target = r /\ e.publisher = x /\ n \in Range(WorkflowitemIntents)

(* What an event does to the permissions on a resource, to assignments and *)
(* to the names in use.                                                    *)
Effect(e) ==
    /\ \A r \in Resources : \A n, x :
            IsGranted(r, n, x)' <=> \/ Gives(e, r, n, x)
                                    \/ IsGranted(r, n, x) /\ e # PermissionRevoked(r, n, x)
    /\ \A r \in Resources \ {e.target} : assignee'[r] = assignee[r]
    /\ \A r \in Resources : Exists(r) => Exists(r)'
    /\ IsCreation(e) => Exists(e.target)'
    /\ users' \subseteq users \cup {e.target} /\ groups' \subseteq groups \cup {e.target}

StateTypes ==
    /\ users \subseteq Names /\ groups \subseteq Names
    /\ members \in [Names -> SUBSET Names]
    /\ granted \subseteq Permission
    /\ assignee \in [Resources -> Names \cup {NoOne}]

(* The permissions that go with the creation of users and groups, and with *)
(* their being enabled and disabled, are not on resources.                 *)
LEMMA OtherPermissions ==
    ASSUME NEW e, e.type \notin {"granted", "revoked", "workflowitem_created"}, NEW R, NEW G,
           \A r \in Resources : \A n, x : <<r, n, x>> \notin R /\ <<r, n, x>> \notin G,
           granted' = (granted \ R) \cup G
    PROVE  \A r \in Resources : \A n, x :
            IsGranted(r, n, x)' <=> \/ Gives(e, r, n, x)
                                    \/ IsGranted(r, n, x) /\ e # PermissionRevoked(r, n, x)
<1>1. \A r, n, x : ~Gives(e, r, n, x) /\ e # PermissionRevoked(r, n, x)
  BY EventFields DEF Gives, IsCreation
<1>2. \A r \in Resources : \A n, x : <<r, n, x>> \in granted' <=> <<r, n, x>> \in granted
  OBVIOUS
<1>3. QED
  BY <1>1, <1>2 DEF IsGranted

LEMMA StoreEffect ==
    ASSUME IInv, NEW w \in Workers, Store(w)
    PROVE  /\ pending[w] # <<>> /\ Head(pending[w]) \in Event /\ AfterStore(w)
           /\ Effect(Head(pending[w])) /\ StateTypes'
<1>1. StateTypes /\ pending \in [Workers -> Seq(Event)]
  BY DEF IInv, TypeOK, StateTypes
<1>2. pending[w] # <<>> /\ AfterStore(w)
  BY DEF Store, StoreGranted, StoreRevoked, StoreAssigned, StoreWorkflowitemCreated,
         StoreUserCreated,
         StoreGroupCreated, StoreMembers, StoreAuthentication, Storing
<1>3. PICK e : e = Head(pending[w])
  OBVIOUS
<1>4. e \in Event
  BY <1>1, <1>2, <1>3
<1>5. \A r \in Resources : r \notin Names
  BY IntentTypes
<1>6. CASE StoreGranted(w)
  <2>1. /\ e.type = "granted" /\ granted' = granted \cup {<<e.target, e.intent, e.identity>>}
        /\ UNCHANGED <<users, groups, members, assignee>>
    BY <1>3, <1>6 DEF StoreGranted, Storing
  <2>2. /\ e.target \in Targets /\ e.intent \in AllIntents /\ e.identity \in Names
        /\ e = PermissionGranted(e.target, e.intent, e.identity)
    BY <1>4, <2>1, EventTypes
  <2>3. \A r, n, x : /\ e # PermissionRevoked(r, n, x)
                     /\ Gives(e, r, n, x)
                            <=> <<r, n, x>> = <<e.target, e.intent, e.identity>>
    BY <2>1, <2>2, EventFields DEF Gives, IsCreation
  <2>4. Effect(e)
    BY <2>1, <2>3 DEF Effect, IsGranted, IsCreation, Exists
  <2>5. StateTypes'
    BY <1>1, <2>1, <2>2 DEF StateTypes, Permission
  <2>6. QED
    BY <1>2, <1>3, <1>4, <2>4, <2>5
<1>7. CASE StoreRevoked(w)
  <2>1. /\ e.type = "revoked" /\ granted' = granted \ {<<e.target, e.intent, e.identity>>}
        /\ UNCHANGED <<users, groups, members, assignee>>
    BY <1>3, <1>7 DEF StoreRevoked, Storing
  <2>2. e = PermissionRevoked(e.target, e.intent, e.identity)
    BY <1>4, <2>1, EventTypes
  <2>3. \A r, n, x : /\ ~Gives(e, r, n, x)
                     /\ e = PermissionRevoked(r, n, x)
                            <=> <<r, n, x>> = <<e.target, e.intent, e.identity>>
    BY <2>1, <2>2, EventFields DEF Gives, IsCreation
  <2>4. Effect(e)
    BY <2>1, <2>3 DEF Effect, IsGranted, IsCreation, Exists
  <2>5. StateTypes'
    BY <1>1, <2>1 DEF StateTypes
  <2>6. QED
    BY <1>2, <1>3, <1>4, <2>4, <2>5
<1>8. CASE StoreAssigned(w)
  <2>1. /\ e.type = "assigned" /\ assignee' = [assignee EXCEPT ![e.target] = e.identity]
        /\ UNCHANGED <<users, groups, members, granted>>
    BY <1>3, <1>8 DEF StoreAssigned, Storing
  <2>2. e.target \in Resources /\ e.identity \in Names
    BY <1>4, <2>1, EventTypes
  <2>3. Effect(e)
    <3>1. PICK R, G : R = {} /\ G = {}
      OBVIOUS
    <3>2. /\ granted' = (granted \ R) \cup G
          /\ \A r \in Resources : \A n, x : <<r, n, x>> \notin R /\ <<r, n, x>> \notin G
      BY <2>1, <3>1
    <3>3. \A r \in Resources : Exists(r) => Exists(r)'
      BY <1>1, <2>1, <2>2, AccessAssumption DEF Exists, StateTypes
    <3>4. QED
      BY <1>1, <2>1, <2>2, <3>2, <3>3, OtherPermissions DEF Effect, StateTypes, IsCreation
  <2>4. StateTypes'
    BY <1>1, <2>1, <2>2 DEF StateTypes
  <2>5. QED
    BY <1>2, <1>3, <1>4, <2>3, <2>4
<1>9. CASE StoreUserCreated(w)
  <2>1. PICK R, G : R = {e.target} \X Range(UserIntents) \X Names
                    /\ G = {e.target} \X Range(UserIntents) \X {e.target}
    OBVIOUS
  <2>2. /\ e.type = "user_created" /\ users' = users \cup {e.target}
        /\ granted' = (granted \ R) \cup G /\ UNCHANGED <<groups, members, assignee>>
    BY <1>3, <1>9, <2>1 DEF StoreUserCreated, Storing
  <2>3. e.target \in Names /\ e.target \in Targets
    BY <1>4, <2>2, EventTypes
  <2>4. \A r \in Resources : \A n, x : <<r, n, x>> \notin R /\ <<r, n, x>> \notin G
    BY <1>5, <2>1, <2>3
  <2>5. Effect(e)
    BY <2>2, <2>4, OtherPermissions DEF Effect, IsCreation, Exists
  <2>6. G \subseteq Permission
    BY <2>1, <2>3 DEF Permission, AllIntents
  <2>7. StateTypes'
    BY <1>1, <2>2, <2>3, <2>6 DEF StateTypes
  <2>8. QED
    BY <1>2, <1>3, <1>4, <2>5, <2>7
<1>10. CASE StoreGroupCreated(w)
  <2>1. /\ e.type = "group_created" /\ UNCHANGED <<users, assignee>>
    BY <1>3, <1>10 DEF StoreGroupCreated, Storing
  <2>2. e.target \in Names /\ e.target \in Targets /\ e.members \subseteq Names
    BY <1>4, <2>1, EventTypes
  <2>3. PICK R, G : R = {}
            /\ G = IF e.target \in groups THEN {}
                   ELSE {e.target} \X Range(GroupIntents) \X (Names \cap {e.publisher})
    OBVIOUS
  <2>4. /\ granted' = (granted \ R) \cup G /\ groups' \subseteq groups \cup {e.target}
        /\ members' = members \/ members' = [members EXCEPT ![e.target] = e.members]
    BY <1>3, <1>10, <2>3 DEF StoreGroupCreated
  <2>5. \A r \in Resources : \A n, x : <<r, n, x>> \notin R /\ <<r, n, x>> \notin G
    BY <1>5, <2>2, <2>3
  <2>6. Effect(e)
    BY <2>1, <2>4, <2>5, OtherPermissions DEF Effect, IsCreation, Exists
  <2>7. G \subseteq Permission
    BY <2>2, <2>3 DEF Permission, AllIntents
  <2>8. StateTypes'
    BY <1>1, <2>1, <2>2, <2>3, <2>4, <2>7 DEF StateTypes
  <2>9. QED
    BY <1>2, <1>3, <1>4, <2>6, <2>8
<1>11. CASE StoreMembers(w)
  <2>1. /\ e.type \in {"member_added", "member_removed"}
        /\ UNCHANGED <<users, groups, granted, assignee>>
        /\ members' = [members EXCEPT ![e.target] =
                            IF e.type = "member_added" THEN @ \cup {e.identity}
                            ELSE @ \ {e.identity}]
    BY <1>3, <1>11 DEF StoreMembers, Storing
  <2>2. e.target \in Names /\ e.identity \in Names
    BY <1>4, <2>1, EventTypes
  <2>3. Effect(e)
    <3>1. PICK R, G : R = {} /\ G = {}
      OBVIOUS
    <3>2. /\ granted' = (granted \ R) \cup G
          /\ \A r \in Resources : \A n, x : <<r, n, x>> \notin R /\ <<r, n, x>> \notin G
      BY <2>1, <3>1
    <3>3. QED
      BY <2>1, <3>2, OtherPermissions DEF Effect, IsCreation, Exists
  <2>4. StateTypes'
    BY <1>1, <2>1, <2>2 DEF StateTypes
  <2>5. QED
    BY <1>2, <1>3, <1>4, <2>3, <2>4
<1>12. CASE StoreAuthentication(w)
  <2>1. PICK R, G : R = {e.target} \X {"user.authenticate"} \X Names
                    /\ G = IF e.type = "user_enabled"
                           THEN {<<e.target, "user.authenticate", e.target>>} ELSE {}
    OBVIOUS
  <2>2. /\ e.type \in {"user_enabled", "user_disabled"} /\ granted' = (granted \ R) \cup G
        /\ UNCHANGED <<users, groups, members, assignee>>
    BY <1>3, <1>12, <2>1 DEF StoreAuthentication, Storing
  <2>3. e.target \in Names /\ e.target \in Targets
    BY <1>4, <2>2, EventTypes
  <2>4. \A r \in Resources : \A n, x : <<r, n, x>> \notin R /\ <<r, n, x>> \notin G
    BY <1>5, <2>1, <2>3
  <2>5. Effect(e)
    BY <2>2, <2>4, OtherPermissions DEF Effect, IsCreation, Exists
  <2>6. G \subseteq Permission
    BY <2>1, <2>3, AccessAssumption DEF Permission, AllIntents
  <2>7. StateTypes'
    BY <1>1, <2>2, <2>6 DEF StateTypes
  <2>8. QED
    BY <1>2, <1>3, <1>4, <2>5, <2>7
<1>13. CASE StoreWorkflowitemCreated(w)
  <2>1. /\ IsCreation(e) /\ assignee' = [assignee EXCEPT ![e.target] = e.identity]
        /\ granted' = granted \cup
                ({e.target} \X Range(WorkflowitemIntents) \X {e.publisher})
        /\ UNCHANGED <<users, groups, members>>
    BY <1>3, <1>13 DEF StoreWorkflowitemCreated, Storing, IsCreation
  <2>2. e.target \in Resources /\ e.identity \in Names /\ e.publisher \in Names
    BY <1>4, <2>1, EventTypes DEF IsCreation
  <2>3. \A r, n, x : /\ e # PermissionRevoked(r, n, x)
                     /\ Gives(e, r, n, x) <=> <<r, n, x>> \in
                            {e.target} \X Range(WorkflowitemIntents) \X {e.publisher}
    BY <2>1, EventFields DEF Gives, IsCreation
  <2>4. (\A r \in Resources : Exists(r) => Exists(r)') /\ Exists(e.target)'
    BY <1>1, <2>1, <2>2, AccessAssumption DEF Exists, StateTypes
  <2>5. \A r \in Resources : \A n, x :
            IsGranted(r, n, x)' <=> \/ Gives(e, r, n, x)
                                    \/ IsGranted(r, n, x) /\ e # PermissionRevoked(r, n, x)
    BY <2>1, <2>3 DEF IsGranted
  <2>6. Effect(e)
    BY <1>1, <2>1, <2>2, <2>4, <2>5 DEF Effect, StateTypes
  <2>7. {e.target} \X Range(WorkflowitemIntents) \X {e.publisher} \subseteq Permission
    BY <2>2 DEF Permission, AllIntents, Targets
  <2>8. StateTypes'
    BY <1>1, <2>1, <2>2, <2>7 DEF StateTypes
  <2>9. QED
    BY <1>2, <1>3, <1>4, <2>6, <2>8
<1>14. QED
  BY <1>6, <1>7, <1>8, <1>9, <1>10, <1>11, <1>12, <1>13 DEF Store

(* To the other workers it is news, and the end of their handover of the   *)
(* same item.                                                              *)
LEMMA OtherWorker ==
    ASSUME NEW e, Effect(e), NEW es, NEW ns, NEW h \in Handover \cup {NoOne},
           WorkerInv(es, ns, h), NEW h2, (h2 = h /\ h.item # e.target) \/ h2 = NoOne
    PROVE  WorkerInv(es, ns \cup {e.target}, h2)'
<1> DEFINE t == e.target
           ms == ns \cup {t}
<1>1. Shape(es)'
  BY DEF WorkerInv, Shape
<1>2. Checked(es, ms)'
  <2>1. Checked(es, ns)
    BY DEF WorkerInv
  <2>2. \A x : {r \in Resources : assignee[r] = x} \subseteq ns
                => {r \in Resources : assignee'[r] = x} \subseteq ms
    BY DEF Effect
  <2>3. \A x : x \notin users \cup groups \/ x \in ns
                => x \notin users' \cup groups' \/ x \in ms
    BY DEF Effect
  <2>4. QED
    BY <2>1, <2>2, <2>3 DEF Checked
<1>3. \A r \in Resources \ {t} : \A n, x : IsGranted(r, n, x)' <=> IsGranted(r, n, x)
  <2>1. \A r \in Resources \ {t} : \A n, x :
            ~Gives(e, r, n, x) /\ e # PermissionRevoked(r, n, x)
    BY EventFields DEF Gives
  <2>2. QED
    BY <2>1 DEF Effect
<1>4. GrantorsRemain(es, ms)'
  <2> SUFFICES ASSUME NEW k \in 1 .. Len(es), NEW r \in Resources,
                      RevokesGrantor(es[k], r), r \notin ms
               PROVE  GrantorRemains(es, k, r)'
    BY DEF GrantorsRemain
  <2>1. GrantorRemains(es, k, r)
    BY DEF WorkerInv, GrantorsRemain
  <2>2. QED
    BY <1>3, <2>1 DEF GrantorRemains
<1>5. Handed(es, h2)'
  <2>1. CASE h2 = NoOne
    BY <2>1 DEF Handed
  <2>2. CASE h2 # NoOne
    <3>1. h2 = h /\ h.item # t /\ h \in Handover
      BY <2>2
    <3>2. h.item \in Resources \ {t}
      BY <3>1, IntentTypes DEF Handover
    <3>3. /\ \A n, x : IsGranted(h.item, n, x)' <=> IsGranted(h.item, n, x)
          /\ Exists(h.item)' <=> Exists(h.item)
      BY <1>3, <3>2 DEF Effect, Exists
    <3>4. QED
      BY <3>1, <3>3 DEF WorkerInv, Handed
  <2>3. QED
    BY <2>1, <2>2
<1>6. QED
  BY <1>1, <1>2, <1>4, <1>5 DEF WorkerInv

(* The worker that stores the first of its events.                         *)
LEMMA OwnWorker ==
    ASSUME NEW es \in Seq(Event), es # <<>>, Effect(es[1]), NEW ns,
           NEW h \in Handover \cup {NoOne}, WorkerInv(es, ns, h),
           NEW rest \in Seq(Event), Len(rest) + 1 = Len(es),
           \A k \in 1 .. Len(rest) : rest[k] = es[k + 1],
           NEW ms, rest # <<>> => ms = ns,
           NEW h2, h2 = IF h = NoOne THEN NoOne
                        ELSE IF rest = <<>> THEN [h EXCEPT !.complete = TRUE] ELSE h
    PROVE  WorkerInv(rest, ms, h2)'
<1>1. PICK e : e = es[1]
  OBVIOUS
<1>2. /\ Len(es) \in Nat /\ Len(rest) \in Nat /\ 1 \in 1 .. Len(es)
      /\ rest = <<>> <=> Len(rest) = 0
      /\ \A k \in 1 .. Len(rest) : k + 1 \in 2 .. Len(es)
      /\ \A k \in 2 .. Len(es) : k - 1 \in 1 .. Len(rest) /\ rest[k - 1] = es[k]
  OBVIOUS
<1>3. \A r \in Resources : \A n, x :
            IsGranted(r, n, x)' <=> \/ Gives(e, r, n, x)
                                    \/ IsGranted(r, n, x) /\ e # PermissionRevoked(r, n, x)
  BY <1>1 DEF Effect
<1>4. /\ Shape(es) /\ GrantorsRemain(es, ns) /\ Handed(es, h)
  BY DEF WorkerInv
<1>5. Shape(rest)'
  BY <1>2, <1>4 DEF Shape
<1>6. Checked(rest, ms)'
  <2>1. ASSUME rest # <<>> PROVE Head(rest).type \in {"granted", "revoked"}
    <3>1. 1 \in 1 .. Len(rest) /\ Head(rest) = rest[1]
      BY <1>2, <2>1
    <3>2. PICK k : k = 1 + 1
      OBVIOUS
    <3>3. rest[1] = es[k] /\ k \in 2 .. Len(es)
      BY <1>2, <3>1, <3>2
    <3>4. QED
      BY <1>4, <3>1, <3>3 DEF Shape
  <2>2. QED
    BY <2>1 DEF Checked
<1>7. GrantorsRemain(rest, ms)'
  <2> SUFFICES ASSUME NEW k \in 1 .. Len(rest), NEW r \in Resources,
                      RevokesGrantor(rest[k], r), r \notin ms
               PROVE  GrantorRemains(rest, k, r)'
    BY DEF GrantorsRemain
  <2>1. /\ k + 1 \in 1 .. Len(es) /\ es[k + 1] = rest[k] /\ ms = ns /\ k \in Nat
        /\ (k + 1) - 1 = k
    BY <1>2
  <2>2. GrantorRemains(es, k + 1, r)
    BY <1>4, <2>1 DEF GrantorsRemain
  <2> DEFINE n == GrantIntent(r)
  <2>3. PICK y \in Names :
            /\ y # rest[k].identity
            /\ IsGranted(r, n, y) \/ \E j \in 1 .. k : es[j] = PermissionGranted(r, n, y)
            /\ \A j \in 1 .. k : es[j] # PermissionRevoked(r, n, y)
    BY <2>1, <2>2 DEF GrantorRemains
  <2> HIDE DEF n
  <2>4. \A j \in 1 .. k - 1 : rest[j] # PermissionRevoked(r, n, y)
    <3> SUFFICES ASSUME NEW j \in 1 .. k - 1 PROVE rest[j] # PermissionRevoked(r, n, y)
      OBVIOUS
    <3>1. j + 1 \in 1 .. k /\ j \in 1 .. Len(rest)
      BY <1>2
    <3>2. QED
      BY <2>3, <3>1
  <2>5. IsGranted(r, n, y)' \/ \E j \in 1 .. k - 1 : rest[j] = PermissionGranted(r, n, y)
    <3>1. CASE IsGranted(r, n, y) \/ e = PermissionGranted(r, n, y)
      <4>1. 1 \in 1 .. k
        BY <2>1
      <4>2. e # PermissionRevoked(r, n, y)
        BY <1>1, <2>3, <4>1
      <4>3. QED
        BY <1>3, <3>1, <4>2 DEF Gives
    <3>2. CASE \E j \in 2 .. k : es[j] = PermissionGranted(r, n, y)
      <4>1. PICK j \in 2 .. k : es[j] = PermissionGranted(r, n, y)
        BY <3>2
      <4>2. j \in 2 .. Len(es) /\ j - 1 \in 1 .. k - 1
        BY <1>2
      <4>3. QED
        BY <1>2, <4>1, <4>2
    <3>3. \A j \in 1 .. k : j = 1 \/ j \in 2 .. k
      BY <2>1
    <3>4. QED
      BY <1>1, <2>3, <3>1, <3>2, <3>3
  <2>6. QED
    BY <2>3, <2>4, <2>5 DEF GrantorRemains, n
<1>8. Handed(rest, h2)'
  <2>1. CASE h = NoOne
    BY <2>1 DEF Handed
  <2>2. CASE h # NoOne
    <3> DEFINE i == h.item
               to == h.to
               from == h.from
               WI == Range(WorkflowitemIntents)
    <3>1. h \in Handover /\ i \in Resources
      BY <2>2, IntentTypes DEF Handover
    <3>2. /\ h2.item = i /\ h2.to = to /\ h2.from = from /\ h2.held = h.held
          /\ h2.complete = IF rest = <<>> THEN TRUE ELSE h.complete
      BY <2>2, <3>1 DEF Handover
    <3>3. /\ from # to /\ h.held \subseteq WI
          /\ \A k \in 1 .. Len(es) :
                /\ es[k].type = "granted" => es[k].identity # from
                /\ es[k].type = "revoked" =>
                        /\ es[k].identity = from
                        /\ \A n \in WI :
                            \/ IsGranted(i, n, to)
                            \/ \E j \in 1 .. k - 1 : es[j] = PermissionGranted(i, n, to)
          /\ Exists(i) /\ (\E n \in h.held : ~IsGranted(i, n, from)) =>
                \A n \in WI : IsGranted(i, n, to)
          /\ ~IsCreation(e) => Exists(i)
          /\ IsCreation(e) =>
                /\ e.target = i /\ e.publisher = from
                /\ \A n \in WI \ {ViewIntent} :
                        \E k \in 1 .. Len(es) : es[k] = PermissionRevoked(i, n, from)
          /\ ~h.complete
          /\ \A n \in WI \ {ViewIntent} :
                \/ ~IsGranted(i, n, from)
                \/ \E k \in 1 .. Len(es) : es[k] = PermissionRevoked(i, n, from)
      BY <1>1, <1>4, <2>2 DEF Handed
    <3> HIDE DEF i, to, from
    <3>4. \A n : e # PermissionRevoked(i, n, to) /\ e # PermissionGranted(i, n, from)
      <4>1. e.type = "granted" => e.identity # from
        BY <1>1, <1>2, <3>3
      <4>2. e.type = "revoked" => e.identity = from
        BY <1>1, <1>2, <3>3
      <4>3. QED
        BY <3>3, <4>1, <4>2, EventFields
    <3>5. \A n : IsGranted(i, n, to) \/ e = PermissionGranted(i, n, to) => IsGranted(i, n, to)'
      BY <1>3, <3>1, <3>4 DEF Gives
    <3>6. /\ ~IsCreation(e) =>
                \A n : IsGranted(i, n, from)' <=>
                        IsGranted(i, n, from) /\ e # PermissionRevoked(i, n, from)
          /\ IsCreation(e) => \A n \in WI : IsGranted(i, n, from)'
      BY <1>3, <3>1, <3>3, <3>4 DEF Gives
    <3> HIDE DEF WI
    <3>e. Exists(i)'
      BY <1>1, <3>1, <3>3 DEF Effect
    <3>7. ASSUME NEW k \in 1 .. Len(rest)
          PROVE  /\ rest[k].type = "granted" => rest[k].identity # from
                 /\ rest[k].type = "revoked" =>
                        /\ rest[k].identity = from
                        /\ \A n \in WI :
                            \/ IsGranted(i, n, to)'
                            \/ \E j \in 1 .. k - 1 : rest[j] = PermissionGranted(i, n, to)
      <4>1. k + 1 \in 1 .. Len(es) /\ es[k + 1] = rest[k] /\ (k + 1) - 1 = k
        BY <1>2
      <4>2. ASSUME rest[k].type = "revoked", NEW n \in WI, ~IsGranted(i, n, to)'
            PROVE  \E j \in 1 .. k - 1 : rest[j] = PermissionGranted(i, n, to)
        <5>1. ~IsGranted(i, n, to) /\ e # PermissionGranted(i, n, to)
          BY <3>5, <4>2
        <5>2. PICK j \in 1 .. k : es[j] = PermissionGranted(i, n, to)
          BY <3>3, <4>1, <4>2, <5>1
        <5>3. j # 1
          BY <1>1, <5>1, <5>2
        <5>4. j \in 2 .. Len(es) /\ j - 1 \in 1 .. k - 1
          BY <1>2, <5>3
        <5>5. QED
          BY <1>2, <5>2, <5>4
      <4>3. QED
        BY <3>3, <4>1, <4>2
    <3>8. (\E n \in h.held : ~IsGranted(i, n, from)') => \A n \in WI : IsGranted(i, n, to)'
      <4> SUFFICES ASSUME NEW m \in h.held, ~IsGranted(i, m, from)', NEW n \in WI
                   PROVE  IsGranted(i, n, to)'
        OBVIOUS
      <4>0. ~IsCreation(e) /\ Exists(i)
        BY <3>3, <3>6
      <4>1. CASE ~IsGranted(i, m, from)
        BY <3>3, <3>5, <4>0, <4>1
      <4>2. CASE e = PermissionRevoked(i, m, from)
        <5>1. e.type = "revoked"
          BY <4>2, EventFields
        <5>2. \A j : j \notin 1 .. 1 - 1
          OBVIOUS
        <5>3. IsGranted(i, n, to)
          BY <1>1, <1>2, <3>3, <5>1, <5>2
        <5>4. QED
          BY <3>5, <5>3
      <4>3. QED
        BY <3>6, <4>0, <4>1, <4>2
    <3>9. \A n \in WI \ {ViewIntent} :
                \/ ~IsGranted(i, n, from)'
                \/ \E k \in 1 .. Len(rest) : rest[k] = PermissionRevoked(i, n, from)
      <4> SUFFICES ASSUME NEW n \in WI \ {ViewIntent}, IsGranted(i, n, from)'
                   PROVE  \E k \in 1 .. Len(rest) : rest[k] = PermissionRevoked(i, n, from)
        OBVIOUS
      <4>1. IsCreation(e) \/ (IsGranted(i, n, from) /\ e # PermissionRevoked(i, n, from))
        BY <3>6
      <4>2. PICK k \in 1 .. Len(es) : es[k] = PermissionRevoked(i, n, from)
        BY <3>3, <4>1
      <4>3. k \in 2 .. Len(es)
        BY <1>1, <1>2, <4>1, <4>2, EventFields DEF IsCreation
      <4>4. QED
        BY <1>2, <4>2, <4>3
    <3>10. h2.complete => rest = <<>>
      BY <3>2, <3>3
    <3>11. rest # <<>> => ~IsCreation(rest[1])
      <4>1. ASSUME rest # <<>> PROVE rest[1].type \in {"granted", "revoked"}
        <5>1. 1 \in 1 .. Len(rest)
          BY <1>2, <4>1
        <5>2. rest[1] = es[2] /\ 2 \in 2 .. Len(es)
          BY <1>2, <5>1
        <5>3. QED
          BY <1>4, <5>2 DEF Shape
      <4>2. QED
        BY <4>1 DEF IsCreation
    <3>12. QED
      BY <3>2, <3>3, <3>e, <3>7, <3>8, <3>9, <3>10, <3>11 DEF Handed, i, to, from, WI
  <2>3. QED
    BY <2>1, <2>2
<1>9. QED
  BY <1>5, <1>6, <1>7, <1>8 DEF WorkerInv

LEMMA StoreStep ==
    ASSUME IInv, NEW w \in Workers, Store(w)
    PROVE  IInv'
<1>1. /\ pending[w] # <<>> /\ Head(pending[w]) \in Event /\ AfterStore(w)
      /\ Effect(Head(pending[w])) /\ StateTypes'
  BY StoreEffect
<1>2. PICK e, own : e = Head(pending[w]) /\ own = pending[w]
  OBVIOUS
<1>3. /\ own \in Seq(Event) /\ own # <<>> /\ e = own[1] /\ e \in Event
      /\ Tail(own) \in Seq(Event) /\ Len(Tail(own)) + 1 = Len(own) /\ Len(own) \in Nat
      /\ \A k \in 1 .. Len(Tail(own)) : Tail(own)[k] = own[k + 1]
      /\ Len(own) = 1 <=> Tail(own) = <<>>
  <2>1. own \in Seq(Event) /\ own # <<>> /\ e = Head(own) /\ e \in Event
    BY <1>1, <1>2 DEF IInv, TypeOK
  <2>2. e = own[1]
    BY <2>1
  <2>3. Tail(own) \in Seq(Event) /\ Len(Tail(own)) + 1 = Len(own) /\ Len(own) \in Nat
    BY <2>1
  <2>4. \A k \in 1 .. Len(Tail(own)) : Tail(own)[k] = own[k + 1]
    BY <2>1
  <2>5. Len(own) = 1 <=> Tail(own) = <<>>
    <3>1. PICK tl : tl = Tail(own)
      OBVIOUS
    <3>2. tl \in Seq(Event) /\ Len(tl) + 1 = Len(own)
      BY <2>3, <3>1
    <3>3. Len(tl) = 0 <=> tl = <<>>
      BY <3>2
    <3>4. QED
      BY <3>1, <3>2, <3>3
  <2>6. QED
    BY <2>1, <2>2, <2>3, <2>4, <2>5
<1>4. e.target \in Targets
  BY <1>3, EventTypes
<1>5. PICK t, rest, last : t = e.target /\ rest = Tail(own) /\ last = (Len(own) = 1)
  OBVIOUS
<1>6. /\ pending' = [pending EXCEPT ![w] = rest]
      /\ news' = [v \in Workers |->
                IF pending[v] = <<>> \/ (v = w /\ last) THEN {}
                ELSE IF v = w THEN news[v] ELSE news[v] \cup {t}]
      /\ handover' = [v \in Workers |->
                IF handover[v] = NoOne \/ (v # w /\ handover[v].item = t) THEN NoOne
                ELSE IF v = w /\ last THEN [handover[v] EXCEPT !.complete = TRUE]
                ELSE handover[v]]
      /\ UNCHANGED <<tokens, job, requests>>
  BY <1>1, <1>2, <1>5 DEF AfterStore
<1>7. /\ pending \in [Workers -> Seq(Event)] /\ news \in [Workers -> SUBSET Targets]
      /\ handover \in [Workers -> Handover \cup {NoOne}]
  BY DEF IInv, TypeOK
<1>8. \A h \in Handover : [h EXCEPT !.complete = TRUE] \in Handover
  BY DEF Handover
<1>9. TypeOK'
  <2>1. /\ pending' \in [Workers -> Seq(Event)] /\ news' \in [Workers -> SUBSET Targets]
        /\ handover' \in [Workers -> Handover \cup {NoOne}]
    BY <1>3, <1>4, <1>5, <1>6, <1>7, <1>8
  <2>2. \A v \in Workers : pending'[v] = <<>> => news'[v] = {}
    BY <1>3, <1>5, <1>6, <1>7
  <2>3. QED
    BY <1>1, <1>6, <2>1, <2>2 DEF IInv, TypeOK, StateTypes
<1>10. ASSUME NEW v \in Workers
       PROVE  /\ WorkerInv(pending[v], news[v], handover[v])'
              /\ job'[v] # NoOne => handover'[v] = NoOne
  <2>1. PICK es, ns, h : es = pending[v] /\ ns = news[v] /\ h = handover[v]
    OBVIOUS
  <2>2. /\ WorkerInv(es, ns, h) /\ (job[v] # NoOne => h = NoOne)
        /\ h \in Handover \cup {NoOne} /\ es \in Seq(Event)
    BY <1>7, <2>1 DEF IInv, WorkersInv
  <2>3. PICK ms, h2 : ms = news'[v] /\ h2 = handover'[v]
    OBVIOUS
  <2>4. job'[v] # NoOne => h2 = NoOne
    BY <1>6, <2>1, <2>2, <2>3
  <2>5. CASE v = w
    <3>1. es = own /\ pending'[v] = rest
      BY <1>2, <1>6, <1>7, <2>1, <2>5
    <3>2. /\ rest # <<>> => ms = ns
          /\ h2 = IF h = NoOne THEN NoOne
                  ELSE IF rest = <<>> THEN [h EXCEPT !.complete = TRUE] ELSE h
      BY <1>2, <1>3, <1>5, <1>6, <2>1, <2>3, <2>5
    <3>3. Effect(es[1])
      BY <1>1, <1>2, <1>3, <3>1
    <3>4. /\ rest \in Seq(Event) /\ Len(rest) + 1 = Len(es) /\ es # <<>>
          /\ \A k \in 1 .. Len(rest) : rest[k] = es[k + 1]
      BY <1>3, <1>5, <3>1
    <3>5. WorkerInv(rest, ms, h2)'
      BY <2>2, <3>2, <3>3, <3>4, OwnWorker
    <3>6. QED
      BY <2>3, <2>4, <3>1, <3>5
  <2>6. CASE v # w
    <3>1. /\ pending'[v] = es
          /\ (h2 = h /\ h.item # t) \/ h2 = NoOne
          /\ ms = IF es = <<>> THEN {} ELSE ns \cup {t}
      BY <1>6, <1>7, <2>1, <2>3, <2>6
    <3>2. WorkerInv(es, ns \cup {t}, h2)'
      BY <1>1, <1>2, <1>5, <2>2, <3>1, OtherWorker
    <3>3. WorkerInv(es, ms, h2)'
      <4>1. CASE es # <<>>
        BY <3>1, <3>2, <4>1
      <4>2. CASE es = <<>>
        <5>1. Handed(es, h2)'
          BY <3>2 DEF WorkerInv
        <5>2. Shape(<<>>)' /\ Checked(<<>>, ms)' /\ GrantorsRemain(<<>>, ms)'
          BY DEF Shape, Checked, GrantorsRemain
        <5>3. QED
          BY <4>2, <5>1, <5>2 DEF WorkerInv
      <4>3. QED
        BY <4>1, <4>2
    <3>4. QED
      BY <2>3, <2>4, <3>1, <3>3
  <2>7. QED
    BY <2>5, <2>6
<1>11. QED
  BY <1>9, <1>10 DEF IInv, WorkersInv

LEMMA Initially == Init => IInv
<1> SUFFICES ASSUME Init PROVE IInv
  OBVIOUS
<1>1. TypeOK
  BY AccessAssumption DEF Init, TypeOK, FirstMembers
<1>2. \A w \in Workers : WorkerInv(pending[w], news[w], handover[w])
  BY Nothing DEF Init
<1>3. QED
  BY <1>1, <1>2 DEF Init, IInv, WorkersInv

LEMMA RequestStep ==
    ASSUME IInv, NEW w \in Workers, NEW token \in Issuers, Request(w, token)
    PROVE  IInv'
<1>0. Idle(w)
  BY DEF Request
<1>1. CASE GrantProjectPermission(w, token)
  BY <1>0, <1>1, GrantStep DEF GrantProjectPermission, Resources
<1>2. CASE GrantSubprojectPermission(w, token)
  BY <1>0, <1>2, GrantStep DEF GrantSubprojectPermission, Resources
<1>3. CASE GrantWorkflowitemPermission(w, token)
  BY <1>0, <1>3, GrantStep DEF GrantWorkflowitemPermission, Resources
<1>4. CASE RevokeProjectPermission(w, token)
  BY <1>0, <1>4, RevokeStep DEF RevokeProjectPermission, Resources
<1>5. CASE RevokeSubprojectPermission(w, token)
  BY <1>0, <1>5, RevokeStep DEF RevokeSubprojectPermission, Resources
<1>6. CASE RevokeWorkflowitemPermission(w, token)
  BY <1>0, <1>6, RevokeStep DEF RevokeWorkflowitemPermission, Resources
<1>7. QED
  BY <1>0, <1>1, <1>2, <1>3, <1>4, <1>5, <1>6, AssignStep, AssignRestrictedStep,
     GlobalAndUserPermissionSteps, BeginGrantAllStep, CreateUserStep, UserAndGroupSteps,
     CreateWorkflowitemStep
     DEF Request

LEMMA Step == IInv /\ [Next]_vars => IInv'
<1> SUFFICES ASSUME IInv, [Next]_vars PROVE IInv'
  OBVIOUS
<1>1. CASE UNCHANGED vars
  <2>1. TypeOK'
    BY <1>1 DEF IInv, TypeOK, vars
  <2>2. ASSUME NEW v \in Workers
        PROVE  WorkerInv(pending[v], news[v], handover[v])'
    <3>1. PICK es, ns, h : es = pending[v] /\ ns = news[v] /\ h = handover[v]
      OBVIOUS
    <3>2. WorkerInv(es, ns, h)'
      BY <1>1, <3>1, SameWorker DEF IInv, WorkersInv, vars
    <3>3. QED
      BY <1>1, <3>1, <3>2 DEF vars
  <2>3. QED
    BY <1>1, <2>1, <2>2 DEF IInv, WorkersInv, vars
<1>2. CASE \E w \in Workers : \E token \in Issuers : Request(w, token)
  BY <1>2, RequestStep
<1>3. CASE \E w \in Workers : GrantAllNext(w) \/ GrantAllAnswer(w) \/ Store(w) \/ Fail(w)
  BY <1>3, GrantAllNextStep, GrantAllAnswerStep, StoreStep, FailStep
<1>4. CASE (\E x \in Names : Login(x)) \/ \E token \in tokens : Expire(token)
  BY <1>4, TokenStep
<1>5. QED
  BY <1>1, <1>2, <1>3, <1>4 DEF Next

LEMMA Invariant == Spec => []IInv
<1>1. Init => IInv
  BY Initially
<1>2. IInv /\ [Next]_vars => IInv'
  BY Step
<1>3. QED
  BY <1>1, <1>2, PTL DEF Spec

-----------------------------------------------------------------------------
(* The theorems.                                                           *)

(* The state always has its type: users and groups have permissions only   *)
(* on what there is, and an idle worker has missed nothing.                *)
THEOREM TypeCorrect == Spec => []TypeOK
<1>1. IInv => TypeOK
  BY DEF IInv
<1>2. QED
  BY <1>1, Invariant, PTL

(* restricted.ts: at no moment between the events of a handover, be it at  *)
(* an assignment or a creation, nor when storing them fails, has the       *)
(* publisher lost what the assignee was not given.                         *)
THEOREM NothingIsLost == Spec => []NothingIsLostInHandover
<1>1. IInv => NothingIsLostInHandover
  BY DEF IInv, WorkersInv, WorkerInv, Handed, IsGranted, Exists, NothingIsLostInHandover
<1>2. QED
  BY <1>1, Invariant, PTL

(* restricted.ts: a handover that is complete has taken all but the view   *)
(* permission from the publisher, though the split of the revocations      *)
(* swaps its two lists.                                                    *)
THEOREM OnlyTheView == Spec => []OnlyTheViewIsKept
<1>1. IInv => OnlyTheViewIsKept
  <2> SUFFICES ASSUME IInv, NEW w \in Workers, handover[w] # NoOne, handover[w].complete
               PROVE  \A n \in Range(WorkflowitemIntents) \ {ViewIntent} :
                        <<handover[w].item, n, handover[w].from>> \notin granted
    BY DEF OnlyTheViewIsKept
  <2>1. PICK es, h : es = pending[w] /\ h = handover[w]
    OBVIOUS
  <2>2. Handed(es, h)
    BY <2>1 DEF IInv, WorkersInv, WorkerInv
  <2>3. h # NoOne /\ h.complete /\ es = <<>>
    BY <2>1, <2>2 DEF Handed
  <2>4. \A k : k \notin 1 .. Len(es)
    BY <2>3
  <2>5. \A n \in Range(WorkflowitemIntents) \ {ViewIntent} : ~IsGranted(h.item, n, h.from)
    BY <2>2, <2>3, <2>4 DEF Handed
  <2>6. QED
    BY <2>1, <2>5 DEF IsGranted
<1>2. QED
  BY <1>1, Invariant, PTL

(* user_disable.ts, user_create.ts and group_create.ts: what they check    *)
(* still holds when their event is stored, unless another request has      *)
(* stored an event about the same user, resource or group in between.      *)
THEOREM RacesOnly == Spec => []ChecksFailOnlyByRaces
<1>1. IInv => ChecksFailOnlyByRaces
  <2> SUFFICES ASSUME IInv, NEW w \in Workers, pending[w] # <<>>
               PROVE  LET e == Head(pending[w])
                      IN  /\ e.type = "user_disabled" =>
                               {r \in Resources : assignee[r] = e.target} \subseteq news[w]
                          /\ e.type \in {"user_created", "group_created"} =>
                               e.target \notin users \cup groups \/ e.target \in news[w]
    BY DEF ChecksFailOnlyByRaces
  <2>1. Checked(pending[w], news[w])
    BY DEF IInv, WorkersInv, WorkerInv
  <2>2. QED
    BY <2>1 DEF Checked
<1>2. QED
  BY <1>1, Invariant, PTL

(* The *_permission_revoke.ts refuse to revoke the last grantor of what    *)
(* they see; so the last grantor of a project, subproject or workflowitem  *)
(* goes only if the permissions on it changed after the decision, and no   *)
(* handover of a restricted item takes him away before there is another.   *)
THEOREM LastGrantor == Spec => LastGrantorNeedsRace
<1>1. IInv /\ [Next]_vars =>
        \A r \in Resources : Grantors(r) # {} /\ Grantors(r)' = {} =>
            \E w \in Workers : pending'[w] # pending[w] /\ r \in news[w]
  <2> SUFFICES ASSUME IInv, [Next]_vars, NEW r \in Resources,
                      Grantors(r) # {}, Grantors(r)' = {}
               PROVE  \E w \in Workers : pending'[w] # pending[w] /\ r \in news[w]
    OBVIOUS
  <2> DEFINE n == GrantIntent(r)
  <2>1. granted' # granted
    BY DEF Grantors, Granted
  <2>2. PICK w \in Workers : Store(w)
    <3>1. \A w \in Workers : \A token \in Issuers : Request(w, token) => granted' = granted
      <4> SUFFICES ASSUME NEW w \in Workers, NEW token \in Issuers, Request(w, token)
                   PROVE  granted' = granted
        OBVIOUS
      <4>1. \A q, m, x : Grant(w, token, q, m, x) \/ Revoke(w, token, q, m, x)
                => granted' = granted
        BY DEF Grant, Revoke, Yield, State
      <4>2. CASE \/ GrantProjectPermission(w, token) \/ RevokeProjectPermission(w, token)
                 \/ GrantSubprojectPermission(w, token) \/ RevokeSubprojectPermission(w, token)
                 \/ GrantWorkflowitemPermission(w, token)
                 \/ RevokeWorkflowitemPermission(w, token)
        BY <4>1, <4>2 DEF GrantProjectPermission, GrantSubprojectPermission,
           GrantWorkflowitemPermission, RevokeProjectPermission, RevokeSubprojectPermission,
           RevokeWorkflowitemPermission
      <4>3. CASE \/ Assign(w, token) \/ AssignRestricted(w, token)
                 \/ CreateWorkflowitem(w, token) \/ BeginGrantAll(w, token)
        BY <4>3 DEF Assign, AssignRestricted, CreateWorkflowitem, BeginGrantAll, Yield, State
      <4>4. CASE \/ GrantGlobalPermission(w, token) \/ RevokeGlobalPermission(w, token)
                 \/ GrantUserPermission(w, token) \/ RevokeUserPermission(w, token)
        BY <4>4 DEF GrantGlobalPermission, RevokeGlobalPermission, GrantUserPermission,
           RevokeUserPermission, Yield, State
      <4>5. CASE \/ CreateUser(w, token) \/ EnableUser(w, token) \/ DisableUser(w, token)
                 \/ CreateGroup(w, token) \/ AddMember(w, token) \/ RemoveMember(w, token)
        BY <4>5 DEF CreateUser, EnableUser, DisableUser, CreateGroup, AddMember,
           RemoveMember, Yield, State
      <4>6. QED
        BY <4>2, <4>3, <4>4, <4>5 DEF Request
    <3>2. \A w \in Workers : GrantAllNext(w) \/ GrantAllAnswer(w) \/ Fail(w)
                => granted' = granted
      BY DEF GrantAllNext, GrantAllAnswer, Fail, State
    <3>3. (\E x \in Names : Login(x)) \/ (\E token \in tokens : Expire(token))
                \/ UNCHANGED vars => granted' = granted
      BY DEF Login, Expire, vars
    <3>4. QED
      BY <2>1, <3>1, <3>2, <3>3 DEF Next
  <2>3. PICK es, ns, e : es = pending[w] /\ ns = news[w] /\ e = es[1]
    OBVIOUS
  <2>4. /\ es \in Seq(Event) /\ es # <<>> /\ e \in Event /\ Effect(e) /\ GrantorsRemain(es, ns)
        /\ AfterStore(w)
    <3>1. es \in Seq(Event) /\ es # <<>> /\ Effect(Head(es)) /\ AfterStore(w)
      BY <2>2, <2>3, StoreEffect DEF IInv, TypeOK
    <3>2. e = Head(es) /\ e \in Event
      BY <2>3, <3>1
    <3>3. GrantorsRemain(es, ns)
      BY <2>3 DEF IInv, WorkersInv, WorkerInv
    <3>4. QED
      BY <3>1, <3>2, <3>3
  <2>5. pending'[w] # pending[w]
    <3>1. pending'[w] = Tail(es)
      BY <2>3, <2>4 DEF AfterStore, IInv, TypeOK
    <3>2. Len(Tail(es)) # Len(es)
      BY <2>4
    <3>3. QED
      BY <2>3, <3>1, <3>2
  <2>6. \A x \in Names : ~IsGranted(r, n, x)'
    BY DEF Grantors, Granted, IsGranted
  <2>7. PICK x \in Names : IsGranted(r, n, x)
    BY DEF Grantors, Granted, IsGranted
  <2> HIDE DEF n
  <2>8. e = PermissionRevoked(r, n, x)
    BY <2>4, <2>6, <2>7 DEF Effect
  <2>9. RevokesGrantor(es[1], r) /\ es[1].identity = x
    BY <2>3, <2>8, EventFields DEF RevokesGrantor, n
  <2>10. r \in ns
    <3> SUFFICES ASSUME r \notin ns PROVE FALSE
      OBVIOUS
    <3>1. 1 \in 1 .. Len(es) /\ \A j : j \notin 1 .. 1 - 1
      BY <2>4
    <3>2. GrantorRemains(es, 1, r)
      BY <2>4, <2>9, <3>1 DEF GrantorsRemain
    <3>3. PICK y \in Names : y # x /\ IsGranted(r, n, y)
      BY <2>9, <3>1, <3>2 DEF GrantorRemains, n
    <3>4. e # PermissionRevoked(r, n, y)
      BY <2>3, <2>9, <3>3, EventFields
    <3>5. IsGranted(r, n, y)'
      BY <2>4, <3>3, <3>4 DEF Effect
    <3>6. QED
      BY <2>6, <3>5
  <2>11. QED
    BY <2>3, <2>5, <2>10
<1>2. QED
  BY <1>1, Invariant, PTL DEF Spec, LastGrantorNeedsRace

-----------------------------------------------------------------------------
(* resolveUsers finds whom an identity stands for.  The walk is compared   *)
(* with what can be reached from the identities that are left, without     *)
(* passing through those seen.  That solves the equation the walk is       *)
(* defined by; and nothing else does, because what is left to do gets less *)
(* with every step.                                                        *)

LEMMA Least ==
    ASSUME NEW T \in SUBSET Nat, T # {}
    PROVE  \E n \in T : \A m \in T : n <= m
<1>1. \E n \in T : \A m \in T : ~(<<m, n>> \in OpToRel(<, Nat))
  BY NatLessThanWellFounded, WFMin, Zenon
<1>2. \E n \in T : \A m \in T : ~(m < n)
  BY <1>1 DEF OpToRel
<1>3. QED
  BY <1>2

Closed(S, seen) == \A g \in S \cap groups : members[g] \ seen \subseteq S

IsReached(R, seen, ns) ==
    /\ R \in SUBSET Names /\ ns \ seen \subseteq R /\ Closed(R, seen)
    /\ \A S \in SUBSET Names : ns \ seen \subseteq S /\ Closed(S, seen) => R \subseteq S

LEMMA IsReachedExists ==
    ASSUME TypeOK, NEW seen, NEW ns \in SUBSET Names
    PROVE  \E R : IsReached(R, seen, ns)
<1>1. PICK R : R = {y \in Names : \A S \in SUBSET Names :
                                    ns \ seen \subseteq S /\ Closed(S, seen) => y \in S}
  OBVIOUS
<1>2. ns \ seen \subseteq R
  BY <1>1
<1>3. ASSUME NEW g \in R \cap groups, NEW x \in members[g] \ seen
      PROVE  x \in R
  <2>1. x \in Names
    BY <1>1 DEF TypeOK
  <2>2. ASSUME NEW S \in SUBSET Names, ns \ seen \subseteq S, Closed(S, seen)
        PROVE  x \in S
    <3>1. g \in S
      BY <1>1, <2>2
    <3>2. QED
      BY <1>3, <2>2, <3>1 DEF Closed
  <2>3. QED
    BY <1>1, <2>1, <2>2
<1>4. Closed(R, seen)
  BY <1>3 DEF Closed
<1>5. R \in SUBSET Names /\ \A S \in SUBSET Names :
            ns \ seen \subseteq S /\ Closed(S, seen) => R \subseteq S
  BY <1>1
<1>6. IsReached(R, seen, ns)
  BY <1>2, <1>4, <1>5 DEF IsReached
<1>7. QED
  BY <1>6

(* One identity further.                                                   *)
LEMMA ReachedStep ==
    ASSUME TypeOK, NEW seen, NEW ns \in SUBSET Names, NEW m \in Names, m \notin seen,
           NEW more, more = IF m \in groups THEN members[m] ELSE {},
           NEW B, IsReached(B, seen \cup {m}, more \cup ns)
    PROVE  IsReached({m} \cup B, seen, ns \cup {m})
<1>1. /\ (more \cup ns) \ (seen \cup {m}) \subseteq B /\ Closed(B, seen \cup {m})
      /\ B \in SUBSET Names
      /\ \A S \in SUBSET Names : (more \cup ns) \ (seen \cup {m}) \subseteq S
                                    /\ Closed(S, seen \cup {m}) => B \subseteq S
  BY DEF IsReached
<1>2. (ns \cup {m}) \ seen \subseteq {m} \cup B
  BY <1>1
<1>3. Closed({m} \cup B, seen)
  BY <1>1 DEF Closed
<1>4. ASSUME NEW S \in SUBSET Names, (ns \cup {m}) \ seen \subseteq S, Closed(S, seen)
      PROVE  {m} \cup B \subseteq S
  <2>1. m \in S
    BY <1>4
  <2>2. (more \cup ns) \ (seen \cup {m}) \subseteq S
    BY <1>4, <2>1 DEF Closed
  <2>3. Closed(S, seen \cup {m})
    BY <1>4 DEF Closed
  <2>4. QED
    BY <1>1, <2>1, <2>2, <2>3
<1>5. QED
  BY <1>1, <1>2, <1>3, <1>4 DEF IsReached

(* A sequence of the members of a set.                                     *)
LEMMA SetToSeqIs ==
    ASSUME NEW S \in SUBSET Names
    PROVE  /\ SetToSeq(S) \in Seq(Names) /\ Len(SetToSeq(S)) = Cardinality(S)
           /\ Range(SetToSeq(S)) = S /\ Cardinality(S) \in Nat
           /\ Cardinality(S) <= Cardinality(Names)
<1>1. PICK n : n = Cardinality(S)
  OBVIOUS
<1>2. IsFiniteSet(S) /\ n \in Nat /\ n <= Cardinality(Names) /\ ExistsBijection(1 .. n, S)
  BY <1>1, AccessAssumption, FS_Subset, FS_CardinalityType
<1>3. PICK f \in [1 .. n -> S] : IsInjective(f)
  BY <1>2 DEF ExistsBijection, Bijection, Injection, IsInjective
<1>4. PICK s : s = SetToSeq(S)
  OBVIOUS
<1>5. s \in [1 .. n -> S] /\ IsInjective(s)
  BY <1>1, <1>3, <1>4 DEF SetToSeq
<1>6. s \in Seq(Names) /\ Len(s) = n
  BY <1>2, <1>5
<1>7. ASSUME NEW y \in S, y \notin Range(s)
      PROVE  FALSE
  <2>1. s \in [1 .. n -> S \ {y}]
    BY <1>5, <1>7 DEF Range
  <2>2. IsFiniteSet(S \ {y}) /\ Cardinality(S \ {y}) = n - 1
    BY <1>1, <1>2, FS_RemoveElement
  <2>3. IsFiniteSet(1 .. n) /\ Cardinality(1 .. n) = n
    BY <1>2, FS_Interval
  <2>4. n - 1 < n
    BY <1>2
  <2>5. \E x, z \in 1 .. n : x # z /\ s[x] = s[z]
    BY <2>1, <2>2, <2>3, <2>4, FS_PigeonHole
  <2>6. QED
    BY <1>5, <2>5 DEF IsInjective
<1>8. Range(s) = S
  BY <1>5, <1>7 DEF Range
<1>9. QED
  BY <1>1, <1>2, <1>4, <1>6, <1>8

(* The identities on a list.                                               *)
LEMMA FirstOfList ==
    ASSUME NEW todo \in Seq(Names), todo # <<>>
    PROVE  /\ Head(todo) \in Names /\ Tail(todo) \in Seq(Names) /\ Len(Tail(todo)) \in Nat
           /\ Len(todo) = Len(Tail(todo)) + 1
           /\ Range(todo) = {Head(todo)} \cup Range(Tail(todo))
<1>1. PICK m, rest : m = Head(todo) /\ rest = Tail(todo)
  OBVIOUS
<1>2. m \in Names /\ rest \in Seq(Names) /\ todo = <<m>> \o rest /\ <<m>> \in Seq(Names)
  BY <1>1
<1>3. Len(todo) = Len(rest) + 1 /\ Len(rest) \in Nat
  BY <1>1, <1>2
<1>4. Range(todo) = Range(<<m>>) \cup Range(rest)
  BY <1>2, RangeConcatenation
<1>5. Range(<<m>>) = {m}
  BY DEF Range
<1>6. QED
  BY <1>1, <1>2, <1>3, <1>4, <1>5

(* What is left to do: each identity that is not seen may add as many as   *)
(* there are.                                                              *)
Left(seen, length) == (Cardinality(Names) + 1) * Cardinality(Names \ seen) + length

LEMMA LeftIs ==
    ASSUME NEW seen, NEW n \in Nat
    PROVE  Left(seen, n) \in Nat
<1>1. PICK N, k : N = Cardinality(Names) /\ k = Cardinality(Names \ seen)
  OBVIOUS
<1>2. N \in Nat /\ k \in Nat
  BY <1>1, AccessAssumption, FS_Difference, FS_CardinalityType
<1>3. (N + 1) * k \in Nat
  BY <1>2
<1>4. QED
  BY <1>1, <1>3 DEF Left

LEMMA LessLeft ==
    ASSUME NEW seen, NEW m \in Names \ seen, NEW j \in Nat, j <= Cardinality(Names), NEW n \in Nat
    PROVE  Left(seen \cup {m}, j + n) < Left(seen, n + 1)
<1>1. PICK N, k, more, S : /\ N = Cardinality(Names) /\ k = Cardinality(S) /\ S = Names \ seen
                           /\ more = S \ {m}
  OBVIOUS
<1>2. N \in Nat /\ k \in Nat /\ IsFiniteSet(S) /\ m \in S
  BY <1>1, AccessAssumption, FS_Difference, FS_CardinalityType
<1>3. IsFiniteSet(more) /\ Cardinality(more) = k - 1
  BY <1>1, <1>2, FS_RemoveElement
<1>4. k - 1 \in Nat
  BY <1>3, FS_CardinalityType
<1>5. Left(seen, n + 1) = (N + 1) * k + (n + 1)
  BY <1>1 DEF Left
<1>6. Names \ (seen \cup {m}) = more
  BY <1>1
<1>7. Left(seen \cup {m}, j + n) = (N + 1) * (k - 1) + (j + n)
  BY <1>1, <1>3, <1>6 DEF Left
<1>8. PICK p : p = (N + 1) * (k - 1)
  OBVIOUS
<1>9. p \in Nat /\ (N + 1) * k = p + (N + 1)
  BY <1>2, <1>4, <1>8
<1>10. p + (j + n) < p + (N + 1) + (n + 1)
  BY <1>1, <1>2, <1>9
<1>11. QED
  BY <1>5, <1>7, <1>8, <1>9, <1>10

(* The equation of the walk, and what solves it.                           *)
Walks == (SUBSET Names) \X Seq(Names)

Further(f, seen, m, rest) ==
    IF m \in seen THEN f[<<seen, rest>>]
    ELSE IF m \in groups THEN f[<<seen \cup {m}, SetToSeq(members[m]) \o rest>>]
    ELSE {m} \cup f[<<seen \cup {m}, rest>>]

IsWalk(f) ==
    f = [st \in Walks |->
            IF st[2] = <<>> THEN {} ELSE Further(f, st[1], Head(st[2]), Tail(st[2]))]

(* What is found, as a relation.                                           *)
Finds(found, seen, todo) == \E R : IsReached(R, seen, Range(todo)) /\ found = R \ groups

LEMMA FindsSomething ==
    ASSUME TypeOK, NEW seen, NEW todo \in Seq(Names)
    PROVE  \E found : Finds(found, seen, todo)
<1>1. PICK ns : ns = Range(todo)
  OBVIOUS
<1>2. ns \in SUBSET Names
  BY <1>1, RangeOfSeq
<1>3. PICK R : IsReached(R, seen, ns)
  BY <1>2, IsReachedExists
<1>4. QED
  BY <1>1, <1>3 DEF Finds

LEMMA FindsOnce ==
    ASSUME NEW seen, NEW todo, NEW found, NEW other,
           Finds(found, seen, todo), Finds(other, seen, todo)
    PROVE  found = other
<1>1. PICK R : IsReached(R, seen, Range(todo)) /\ found = R \ groups
  BY DEF Finds
<1>2. PICK S : IsReached(S, seen, Range(todo)) /\ other = S \ groups
  BY DEF Finds
<1>3. R \subseteq S /\ S \subseteq R
  BY <1>1, <1>2 DEF IsReached
<1>4. QED
  BY <1>1, <1>2, <1>3

LEMMA FindsNone ==
    ASSUME TypeOK, NEW seen
    PROVE  Finds({}, seen, <<>>)
<1>1. Range(<<>>) = {}
  BY DEF Range
<1>2. IsReached({}, seen, {})
  BY DEF IsReached, Closed
<1>3. QED
  BY <1>1, <1>2 DEF Finds

(* Where the walk goes next: what it finds there is what it finds here,    *)
(* and it gets nearer to its end.                                          *)
Going(seen, m, rest) ==
    IF m \in seen THEN <<seen, rest>>
    ELSE IF m \in groups THEN <<seen \cup {m}, SetToSeq(members[m]) \o rest>>
    ELSE <<seen \cup {m}, rest>>

Towards(seen, todo, past, next) ==
    /\ past \in SUBSET Names /\ next \in Seq(Names)
    /\ Left(past, Len(next)) < Left(seen, Len(todo))

LEMMA SeenBefore ==
    ASSUME NEW seen \in SUBSET Names, NEW todo \in Seq(Names), todo # <<>>,
           NEW m, m = Head(todo), NEW rest, rest = Tail(todo), m \in seen
    PROVE  /\ Towards(seen, todo, seen, rest)
           /\ \A found : Finds(found, seen, rest) => Finds(found, seen, todo)
<1>1. /\ rest \in Seq(Names) /\ Range(todo) = {m} \cup Range(rest) /\ Len(rest) \in Nat
      /\ Len(todo) = Len(rest) + 1
  BY FirstOfList
<1>2. Left(seen, Len(rest)) < Left(seen, Len(todo))
  <2>1. PICK n, p : n = Len(rest) /\ p = (Cardinality(Names) + 1) * Cardinality(Names \ seen)
    OBVIOUS
  <2>2. Left(seen, 0) = p + 0 /\ Left(seen, n) = p + n /\ Left(seen, n + 1) = p + (n + 1)
    BY <2>1 DEF Left
  <2>3. PICK N, k : N = Cardinality(Names) /\ k = Cardinality(Names \ seen)
    OBVIOUS
  <2>4. N \in Nat /\ k \in Nat
    BY <2>3, AccessAssumption, FS_Difference, FS_CardinalityType
  <2>5. p \in Nat
    BY <2>1, <2>3, <2>4
  <2>6. p + n < p + (n + 1)
    BY <1>1, <2>1, <2>5
  <2>7. QED
    BY <1>1, <2>1, <2>2, <2>6
<1>3. Range(todo) \ seen = Range(rest) \ seen
  BY <1>1
<1>4. \A R : IsReached(R, seen, Range(rest)) => IsReached(R, seen, Range(todo))
  BY <1>3 DEF IsReached
<1>5. QED
  BY <1>1, <1>2, <1>4 DEF Towards, Finds

LEMMA SeenNow ==
    ASSUME TypeOK, NEW seen \in SUBSET Names, NEW todo \in Seq(Names), todo # <<>>,
           NEW m, m = Head(todo), NEW rest, rest = Tail(todo), m \notin seen,
           NEW more \in SUBSET Names, more = IF m \in groups THEN members[m] ELSE {},
           NEW next \in Seq(Names), Range(next) = more \cup Range(rest),
           NEW j \in Nat, j <= Cardinality(Names), Len(next) = j + Len(rest)
    PROVE  /\ Towards(seen, todo, seen \cup {m}, next)
           /\ \A found : Finds(found, seen \cup {m}, next) =>
                    Finds(IF m \in groups THEN found ELSE {m} \cup found, seen, todo)
<1>1. /\ m \in Names /\ rest \in Seq(Names) /\ Range(todo) = {m} \cup Range(rest)
      /\ Len(rest) \in Nat /\ Len(todo) = Len(rest) + 1
  BY FirstOfList
<1>2. Left(seen \cup {m}, Len(next)) < Left(seen, Len(todo))
  <2>1. m \in Names \ seen
    BY <1>1
  <2>2. Left(seen \cup {m}, j + Len(rest)) < Left(seen, Len(rest) + 1)
    BY <1>1, <2>1, LessLeft
  <2>3. QED
    BY <1>1, <2>2
<1>3. Towards(seen, todo, seen \cup {m}, next)
  BY <1>1, <1>2 DEF Towards
<1>4. PICK ns : ns = Range(rest)
  OBVIOUS
<1>5. ns \in SUBSET Names /\ ns \cup {m} = Range(todo) /\ more \cup ns = Range(next)
  BY <1>1, <1>4, RangeOfSeq
<1>6. ASSUME NEW found, Finds(found, seen \cup {m}, next)
      PROVE  Finds(IF m \in groups THEN found ELSE {m} \cup found, seen, todo)
  <2>1. PICK R : IsReached(R, seen \cup {m}, more \cup ns) /\ found = R \ groups
    BY <1>5, <1>6 DEF Finds
  <2>2. IsReached({m} \cup R, seen, ns \cup {m})
    BY <1>1, <1>5, <2>1, ReachedStep
  <2>3. ({m} \cup R) \ groups = IF m \in groups THEN found ELSE {m} \cup found
    BY <2>1
  <2>4. QED
    BY <1>5, <2>2, <2>3 DEF Finds
<1>7. QED
  BY <1>3, <1>6

LEMMA ListOfMembers ==
    ASSUME NEW S \in SUBSET Names, NEW rest \in Seq(Names), NEW next, next = SetToSeq(S) \o rest
    PROVE  /\ next \in Seq(Names) /\ Range(next) = S \cup Range(rest)
           /\ Len(next) = Cardinality(S) + Len(rest)
<1>1. PICK s : s = SetToSeq(S)
  OBVIOUS
<1>2. s \in Seq(Names) /\ Len(s) = Cardinality(S) /\ Range(s) = S
  BY <1>1, SetToSeqIs
<1>3. next = s \o rest
  BY <1>1
<1>4. s \o rest \in Seq(Names) /\ Len(s \o rest) = Len(s) + Len(rest)
  BY <1>2, ConcatProperties
<1>5. Range(s \o rest) = Range(s) \cup Range(rest)
  BY <1>2, RangeConcatenation
<1>6. QED
  BY <1>2, <1>3, <1>4, <1>5

(* What the equation gives for a function that is right wherever less is   *)
(* left to do.                                                             *)
LEMMA FindsFurther ==
    ASSUME TypeOK, NEW seen \in SUBSET Names, NEW todo \in Seq(Names), todo # <<>>, NEW f,
           \A past, next : Towards(seen, todo, past, next) => Finds(f[<<past, next>>], past, next)
    PROVE  Finds(Further(f, seen, Head(todo), Tail(todo)), seen, todo)
<1>1. PICK m, rest : m = Head(todo) /\ rest = Tail(todo)
  OBVIOUS
<1>2. m \in Names /\ rest \in Seq(Names) /\ Len(rest) \in Nat
  BY <1>1, FirstOfList
<1>3. CASE m \in seen
  <2>1. /\ Towards(seen, todo, seen, rest)
        /\ \A found : Finds(found, seen, rest) => Finds(found, seen, todo)
    BY <1>1, <1>3, SeenBefore
  <2>2. Finds(f[<<seen, rest>>], seen, todo)
    BY <2>1
  <2>3. Further(f, seen, m, rest) = f[<<seen, rest>>]
    BY <1>3 DEF Further
  <2>4. QED
    BY <1>1, <2>2, <2>3
<1>4. ASSUME m \notin seen, NEW more \in SUBSET Names, NEW next \in Seq(Names), NEW j \in Nat,
             more = IF m \in groups THEN members[m] ELSE {}, Range(next) = more \cup Range(rest),
             j <= Cardinality(Names), Len(next) = j + Len(rest),
             Further(f, seen, m, rest) = IF m \in groups THEN f[<<seen \cup {m}, next>>]
                                         ELSE {m} \cup f[<<seen \cup {m}, next>>]
      PROVE  Finds(Further(f, seen, m, rest), seen, todo)
  <2>1. /\ Towards(seen, todo, seen \cup {m}, next)
        /\ \A found : Finds(found, seen \cup {m}, next) =>
                Finds(IF m \in groups THEN found ELSE {m} \cup found, seen, todo)
    BY <1>1, <1>4, SeenNow
  <2>2. PICK found : found = f[<<seen \cup {m}, next>>]
    OBVIOUS
  <2>3. Finds(found, seen \cup {m}, next)
    BY <2>1, <2>2
  <2>4. Finds(IF m \in groups THEN found ELSE {m} \cup found, seen, todo)
    BY <2>1, <2>3
  <2>5. QED
    BY <1>4, <2>2, <2>4
<1>5. CASE m \notin seen /\ m \in groups
  <2>1. PICK more, next, j : /\ more = members[m] /\ next = SetToSeq(more) \o rest
                             /\ j = Cardinality(more)
    OBVIOUS
  <2>2. more \in SUBSET Names /\ more = IF m \in groups THEN members[m] ELSE {}
    BY <1>2, <1>5, <2>1 DEF TypeOK
  <2>3. /\ next \in Seq(Names) /\ Range(next) = more \cup Range(rest) /\ Len(next) = j + Len(rest)
    BY <1>2, <2>1, <2>2, ListOfMembers
  <2>4. j \in Nat /\ j <= Cardinality(Names)
    BY <2>1, <2>2, SetToSeqIs
  <2>5. Further(f, seen, m, rest) = IF m \in groups THEN f[<<seen \cup {m}, next>>]
                                    ELSE {m} \cup f[<<seen \cup {m}, next>>]
    BY <1>5, <2>1 DEF Further
  <2>6. QED
    BY <1>1, <1>4, <1>5, <2>2, <2>3, <2>4, <2>5
<1>6. CASE m \notin seen /\ m \notin groups
  <2>1. PICK more, j : more = {} /\ j = 0
    OBVIOUS
  <2>2. more \in SUBSET Names /\ more = IF m \in groups THEN members[m] ELSE {}
    BY <1>6, <2>1
  <2>3. Range(rest) = more \cup Range(rest)
    BY <2>1
  <2>4. j \in Nat /\ j <= Cardinality(Names) /\ Len(rest) = j + Len(rest)
    BY <1>2, <2>1, AccessAssumption, FS_CardinalityType
  <2>5. Further(f, seen, m, rest) = IF m \in groups THEN f[<<seen \cup {m}, rest>>]
                                    ELSE {m} \cup f[<<seen \cup {m}, rest>>]
    BY <1>6 DEF Further
  <2>6. QED
    BY <1>1, <1>2, <1>4, <1>6, <2>2, <2>3, <2>4, <2>5
<1>7. QED
  BY <1>3, <1>5, <1>6

LEMMA WalkExists ==
    ASSUME TypeOK
    PROVE  \E f : IsWalk(f)
<1> DEFINE Right(seen, todo) == CHOOSE found : Finds(found, seen, todo)
<1>1. PICK f : f = [st \in Walks |-> Right(st[1], st[2])]
  OBVIOUS
<1>2. ASSUME NEW seen \in SUBSET Names, NEW todo \in Seq(Names)
      PROVE  f[<<seen, todo>>] = Right(seen, todo) /\ Finds(Right(seen, todo), seen, todo)
  <2>1. f[<<seen, todo>>] = Right(seen, todo)
    <3> HIDE DEF Right
    <3>1. QED
      BY <1>1 DEF Walks
  <2>2. \E found : Finds(found, seen, todo)
    BY FindsSomething
  <2>3. QED
    BY <2>1, <2>2
<1> HIDE DEF Right
<1>3. ASSUME NEW st \in Walks
      PROVE  Right(st[1], st[2]) =
                IF st[2] = <<>> THEN {} ELSE Further(f, st[1], Head(st[2]), Tail(st[2]))
  <2>1. PICK seen, todo, right : seen = st[1] /\ todo = st[2] /\ right = Right(seen, todo)
    OBVIOUS
  <2>2. seen \in SUBSET Names /\ todo \in Seq(Names)
    BY <2>1 DEF Walks
  <2>3. Finds(right, seen, todo)
    BY <1>2, <2>1, <2>2
  <2>4. CASE todo = <<>>
    <3>1. Finds({}, seen, todo)
      BY <2>4, FindsNone
    <3>2. right = {}
      BY <2>3, <3>1, FindsOnce
    <3>3. QED
      BY <2>1, <2>4, <3>2
  <2>5. CASE todo # <<>>
    <3>1. PICK further : further = Further(f, seen, Head(todo), Tail(todo))
      OBVIOUS
    <3>2. ASSUME NEW past, NEW next, Towards(seen, todo, past, next)
          PROVE  Finds(f[<<past, next>>], past, next)
      BY <1>2, <3>2 DEF Towards
    <3>3. Finds(further, seen, todo)
      BY <2>2, <2>5, <3>1, <3>2, FindsFurther
    <3>4. right = further
      BY <2>3, <3>3, FindsOnce
    <3>5. QED
      BY <2>1, <2>5, <3>1, <3>4
  <2>6. QED
    BY <2>4, <2>5
<1>4. IsWalk(f)
  BY <1>1, <1>3, Zenon DEF IsWalk
<1>5. QED
  BY <1>4

LEMMA WalkFinds ==
    ASSUME TypeOK, NEW f, IsWalk(f), NEW seen \in SUBSET Names, NEW todo \in Seq(Names)
    PROVE  Finds(f[<<seen, todo>>], seen, todo)
<1> DEFINE Fails(past, next) == /\ past \in SUBSET Names /\ next \in Seq(Names)
                                /\ ~Finds(f[<<past, next>>], past, next)
           T == {n \in Nat : \E past, next : Fails(past, next) /\ n = Left(past, Len(next))}
<1>1. SUFFICES ASSUME Fails(seen, todo) PROVE FALSE
  OBVIOUS
<1>2. ASSUME NEW past, NEW next, Fails(past, next)
      PROVE  Left(past, Len(next)) \in T
  <2>1. Len(next) \in Nat
    BY <1>2
  <2>2. Left(past, Len(next)) \in Nat
    BY <2>1, LeftIs
  <2>3. QED
    BY <1>2, <2>2
<1>3. T # {} /\ T \in SUBSET Nat
  BY <1>1, <1>2
<1>4. PICK n \in T : \A k \in T : n <= k
  <2> HIDE DEF T
  <2>1. QED
    BY <1>3, Least
<1>5. PICK past, next : Fails(past, next) /\ n = Left(past, Len(next))
  BY <1>4
<1>6. past \in SUBSET Names /\ next \in Seq(Names) /\ <<past, next>> \in Walks
  BY <1>5 DEF Walks
<1>7. f[<<past, next>>] = IF next = <<>> THEN {} ELSE Further(f, past, Head(next), Tail(next))
  <2>1. PICK st : st = <<past, next>>
    OBVIOUS
  <2>2. f[st] = IF st[2] = <<>> THEN {} ELSE Further(f, st[1], Head(st[2]), Tail(st[2]))
    BY <1>6, <2>1 DEF IsWalk
  <2>3. st[1] = past /\ st[2] = next
    BY <2>1
  <2>4. QED
    BY <2>1, <2>2, <2>3
<1>8. next # <<>>
  BY <1>5, <1>7, FindsNone
<1>9. ASSUME NEW p, NEW t, Towards(past, next, p, t)
      PROVE  Finds(f[<<p, t>>], p, t)
  <2>1. p \in SUBSET Names /\ t \in Seq(Names) /\ Left(p, Len(t)) < n
    BY <1>5, <1>9 DEF Towards
  <2>2. Left(p, Len(t)) \in Nat /\ n \in Nat
    BY <1>3, <1>4, <2>1, LeftIs
  <2>3. Left(p, Len(t)) \notin T
    <3>1. PICK k : k = Left(p, Len(t))
      OBVIOUS
    <3>2. k < n /\ k \in Nat /\ n \in Nat
      BY <2>1, <2>2, <3>1
    <3>3. ~(n <= k)
      BY <3>2
    <3> HIDE DEF T
    <3>4. k \notin T
      BY <1>4, <3>3
    <3>5. QED
      BY <3>1, <3>4
  <2>4. QED
    BY <1>2, <2>1, <2>3, Zenon
<1>10. PICK further : further = Further(f, past, Head(next), Tail(next))
  OBVIOUS
<1>11. Finds(further, past, next)
  BY <1>6, <1>8, <1>9, <1>10, FindsFurther
<1>12. QED
  BY <1>5, <1>7, <1>8, <1>10, <1>11

LEMMA WalkIs ==
    ASSUME TypeOK, NEW seen \in SUBSET Names, NEW todo \in Seq(Names)
    PROVE  Finds(Walk(seen, todo), seen, todo)
<1>1. PICK walk : walk = CHOOSE f : IsWalk(f)
  OBVIOUS
<1>2. IsWalk(walk)
  BY <1>1, WalkExists
<1>3. Walk(seen, todo) = walk[<<seen, todo>>]
  BY <1>1 DEF Walk, IsWalk, Walks, Further
<1>4. QED
  BY <1>2, <1>3, WalkFinds

-----------------------------------------------------------------------------
(* A group stands for what is reached from its members, and a user for     *)
(* himself.                                                                *)
LEMMA Resolved ==
    ASSUME TypeOK, NEW x \in Names
    PROVE  ResolveUsers(x) = StandsFor(x)
<1>1. CASE x \in groups
  <2>1. PICK ms, todo, found : /\ ms = members[x] /\ todo = SetToSeq(ms)
                               /\ found = Walk({}, todo)
    OBVIOUS
  <2>2. ms \in SUBSET Names
    BY <2>1 DEF TypeOK
  <2>3. todo \in Seq(Names) /\ Range(todo) = ms
    BY <2>1, <2>2, SetToSeqIs
  <2>4. Finds(found, {}, todo)
    BY <2>1, <2>3, WalkIs
  <2>5. PICK R : IsReached(R, {}, ms) /\ found = R \ groups
    BY <2>3, <2>4 DEF Finds
  <2>6. /\ ms \ {} \subseteq R /\ Closed(R, {}) /\ R \in SUBSET Names
        /\ \A S \in SUBSET Names : ms \ {} \subseteq S /\ Closed(S, {}) => R \subseteq S
    BY <2>5 DEF IsReached
  <2>7. ASSUME NEW y \in R \ groups
        PROVE  y \in StandsFor(x)
    <3>1. ASSUME NEW S \in SUBSET Names, x \in S, \A g \in S \cap groups : members[g] \subseteq S
          PROVE  y \in S
      <4>1. ms \ {} \subseteq S /\ Closed(S, {})
        BY <1>1, <2>1, <3>1 DEF Closed
      <4>2. QED
        BY <2>6, <4>1
    <3>2. QED
      BY <2>6, <3>1 DEF StandsFor
  <2>8. ASSUME NEW y \in StandsFor(x)
        PROVE  y \in R \ groups
    <3>1. PICK S : S = R \cup {x}
      OBVIOUS
    <3>2. S \in SUBSET Names /\ x \in S /\ \A g \in S \cap groups : members[g] \subseteq S
      BY <1>1, <2>1, <2>6, <3>1 DEF Closed
    <3>3. y \in S /\ y \notin groups
      BY <3>2 DEF StandsFor
    <3>4. QED
      BY <1>1, <3>1, <3>3
  <2>9. ResolveUsers(x) = found
    BY <1>1, <2>1 DEF ResolveUsers
  <2>10. R \ groups = StandsFor(x)
    BY <2>7, <2>8
  <2>11. QED
    BY <2>5, <2>9, <2>10
<1>2. CASE x \notin groups
  <2>1. ResolveUsers(x) = {x}
    BY <1>2 DEF ResolveUsers
  <2>2. {x} \in SUBSET Names /\ \A g \in {x} \cap groups : members[g] \subseteq {x}
    BY <1>2
  <2>3. StandsFor(x) \subseteq {x}
    BY <2>2 DEF StandsFor
  <2>4. x \in StandsFor(x)
    BY <1>2 DEF StandsFor
  <2>5. QED
    BY <2>1, <2>3, <2>4
<1>3. QED
  BY <1>1, <1>2

(* Whatever groups there are and however they contain one another, to      *)
(* resolve an identity is to find all users it stands for.                 *)
THEOREM AllUsersAreFound == Spec => []ResolveUsersFindsAll
<1>1. TypeOK => ResolveUsersFindsAll
  BY Resolved DEF ResolveUsersFindsAll
<1>2. QED
  BY <1>1, TypeCorrect, PTL
=============================================================================

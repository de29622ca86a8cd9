-------------------------- MODULE Documents_proofs --------------------------
(***************************************************************************)
(* Documents, references and secrets agree with the storage services,      *)
(* secrets are only given with permissions, and whoever may see a          *)
(* workflowitem has those of its documents, for any organizations, users,  *)
(* groups, documents and workflowitems, any number of requests, and        *)
(* whichever of their steps fail.                                          *)
(***************************************************************************)
EXTENDS Documents, TLAPS

(* What a request for a creation or an update relies on.  Its documents    *)
(* are announced by nobody else, and lie where its issuer belongs.         *)
UploadInv(r) ==
    /\ ~r.refused => /\ r.issuer.id \in Users
                     /\ \A d \in r.docs : \/ r.step = "upload" /\ d \in r.left
                                          \/ <<d, OrganizationOf[r.issuer.id]>> \in stored
    /\ r.step # "upload" => ~r.refused
    /\ r.step \in {"upload", "store"} => \A d \in r.docs : uploaded[d] = NoOne
    /\ r.step = "announce" => \A d \in r.left : uploaded[d] = NoOne
    /\ r.half # NoOne => uploaded[r.half] = OrganizationOf[r.issuer.id]
    /\ r.step \in {"announce", "share"} => r.docs \subseteq references[r.item]
    /\ r.step = "share" =>
          \A p \in r.pairs :
              /\ p[1] \in r.docs
              /\ \E u \in Users : OrganizationOf[u] = p[2] /\ <<r.item, u>> \in given

(* An organization with a user who is x, or was a member of it.            *)
Belongs(o, x) == \E u \in Users : OrganizationOf[u] = o /\ (u = x \/ WasMember(u, x))

(* What a grant relies on: the secrets it has yet to store.                *)
GrantInv(r) ==
    /\ r.op = "grant" /\ r.grantee \in Identities
    /\ \A p \in r.pairs :
          /\ p[1] \in references[r.item] /\ uploaded[p[1]] # NoOne
          /\ Belongs(p[2], r.grantee)
    /\ r.step = "secrets" => <<r.item, r.grantee>> \in given

(* The steps of a handover.                                                *)
Handing == {"assign", "hand over", "withdraw"}

JobInv(r) ==
    /\ r.docs \subseteq ids
    /\ r.step \in {"grant", "secrets"} => GrantInv(r)
    /\ r.step \in Handing => r.grantee \in Identities
    /\ r.step \notin Handing \cup {"grant", "secrets"} => UploadInv(r)

JobsInv == \A w \in Workers : job[w] # NoOne => JobInv(job[w])

(* No document id is given twice.                                          *)
IdsAreFresh ==
    /\ \A w, v \in Workers : w # v /\ job[w] # NoOne /\ job[v] # NoOne =>
            job[w].docs \cap job[v].docs = {}
    /\ \A d \in Docs : uploaded[d] # NoOne => d \in ids

PermissionsAreGiven ==
    \A i \in Items, n \in Intents, x \in Identities :
        <<i, n, x>> \in permissions => <<i, x>> \in given

(* What is said of past members holds of the present ones.                 *)
TokensAreKept == \A u \in Users : TokenOf(u) \in tokens

IInv == TypeOK /\ JobsInv /\ IdsAreFresh /\ PermissionsAreGiven /\ TokensAreKept
          /\ TheChainIsRight /\ SecretsAreGiven

-----------------------------------------------------------------------------
(* Nothing is ever taken back but permissions and memberships.             *)
Grows ==
    /\ stored \subseteq stored' /\ ids \subseteq ids' /\ given \subseteq given'
    /\ tokens \subseteq tokens'
    /\ \A i \in Items : references[i] \subseteq references'[i]
    /\ \A d \in Docs : uploaded[d] # NoOne => uploaded'[d] = uploaded[d]

JobTypeOK(r) ==
    /\ r \in Job /\ r.left \subseteq r.docs /\ r.half \in r.docs \cup {NoOne}
    /\ r.half # NoOne => r.step = "announce"
    /\ r.step = "share" => r.left = {}

(* A request that is not worked on is not disturbed by what grows.         *)
LEMMA OtherJob ==
    ASSUME NEW r, JobTypeOK(r), JobInv(r), Grows,
           \A d \in r.docs : uploaded'[d] = uploaded[d]
    PROVE  JobInv(r)'
<1>1. /\ r.docs \subseteq Docs /\ r.left \subseteq r.docs /\ r.item \in Items
      /\ r.half \in r.docs \cup {NoOne} /\ r.pairs \subseteq Docs \X Organizations
  BY DEF JobTypeOK, Job
<1>2. r.docs \subseteq ids'
  BY DEF JobInv, Grows
<1>3. \A o \in Organizations, x \in Identities : Belongs(o, x) => Belongs(o, x)'
  BY DEF Belongs, WasMember, Grows
<1>4. ASSUME r.step \in {"grant", "secrets"}
      PROVE  GrantInv(r)'
  <2>1. GrantInv(r)
    BY <1>4 DEF JobInv
  <2>2. \A p \in r.pairs : p[1] \in Docs /\ p[2] \in Organizations
    BY <1>1
  <2>3. \A p \in r.pairs : Belongs(p[2], r.grantee)'
    BY <1>3, <2>1, <2>2 DEF GrantInv
  <2>4. QED
    BY <1>1, <2>1, <2>2, <2>3 DEF GrantInv, Grows
<1>5. ASSUME r.step \notin Handing \cup {"grant", "secrets"}
      PROVE  UploadInv(r)'
  <2>1. UploadInv(r)
    BY <1>5 DEF JobInv
  <2>2. QED
    BY <1>1, <2>1 DEF UploadInv, Grows
<1>6. QED
  BY <1>2, <1>4, <1>5 DEF JobInv

(* A step of a worker: what has to be shown of the request it goes on      *)
(* with, so that the invariants of the requests hold after it.             *)
LEMMA WorkerStep ==
    ASSUME IInv, Grows, NEW w \in Workers, NEW r,
           job' = [job EXCEPT ![w] = r],
           r # NoOne => /\ JobTypeOK(r) /\ JobInv(r)'
                        /\ \/ job[w] # NoOne /\ r.docs = job[w].docs
                           \/ r.docs \cap ids = {},
           \A d \in Docs : uploaded'[d] # uploaded[d] => job[w] # NoOne /\ d \in job[w].docs
    PROVE  /\ job' \in [Workers -> Job \cup {NoOne}]
           /\ \A v \in Workers : job'[v] # NoOne => JobTypeOK(job'[v])
           /\ JobsInv'
           /\ IdsAreFresh'
<1>1. /\ job \in [Workers -> Job \cup {NoOne}] /\ uploaded \in [Docs -> Organizations \cup {NoOne}]
      /\ \A v \in Workers : job[v] # NoOne => JobTypeOK(job[v])
  BY DEF IInv, TypeOK, JobTypeOK
<1>2. job'[w] = r /\ \A v \in Workers \ {w} : job'[v] = job[v]
  BY <1>1
<1>3. job' \in [Workers -> Job \cup {NoOne}]
  BY <1>1 DEF JobTypeOK
<1>4. \A v \in Workers : job'[v] # NoOne => JobTypeOK(job'[v])
  BY <1>1, <1>2
<1>5. \A v \in Workers : job[v] # NoOne => job[v].docs \subseteq ids /\ job[v].docs \subseteq Docs
  BY <1>1 DEF IInv, JobsInv, JobInv, JobTypeOK, Job
<1>6. JobsInv'
  <2> SUFFICES ASSUME NEW v \in Workers, job'[v] # NoOne PROVE JobInv(job[v])'
    BY DEF JobsInv
  <2>1. CASE v = w
    BY <1>2, <2>1 DEF JobInv, UploadInv, GrantInv, Belongs, WasMember
  <2>2. CASE v # w
    <3>1. job[v] # NoOne /\ job'[v] = job[v]
      BY <1>2, <2>2
    <3>2. \A d \in job[v].docs : uploaded'[d] = uploaded[d]
      BY <1>5, <2>2, <3>1 DEF IInv, IdsAreFresh
    <3> DEFINE q == job[v]
    <3>3. JobTypeOK(q) /\ JobInv(q) /\ \A d \in q.docs : uploaded'[d] = uploaded[d]
      BY <1>1, <3>1, <3>2 DEF IInv, JobsInv
    <3>4. PICK c : c = q
      OBVIOUS
    <3>5. JobInv(c)'
      BY <3>3, <3>4, OtherJob
    <3>6. QED
      BY <3>1, <3>4, <3>5 DEF JobInv, UploadInv, GrantInv, Belongs, WasMember
  <2>3. QED
    BY <2>1, <2>2
<1>7. IdsAreFresh'
  <2>1. ASSUME NEW v \in Workers, NEW x \in Workers, v # x, job'[v] # NoOne, job'[x] # NoOne
        PROVE  job'[v].docs \cap job'[x].docs = {}
    <3>1. CASE v # w /\ x # w
      BY <1>2, <2>1, <3>1 DEF IInv, IdsAreFresh
    <3>2. CASE v = w
      BY <1>2, <1>5, <2>1, <3>2 DEF IInv, IdsAreFresh
    <3>3. CASE x = w
      BY <1>2, <1>5, <2>1, <3>3 DEF IInv, IdsAreFresh
    <3>4. QED
      BY <3>1, <3>2, <3>3
  <2>2. ASSUME NEW d \in Docs, uploaded'[d] # NoOne PROVE d \in ids'
    <3>1. d \in ids
      BY <1>5, <2>2 DEF IInv, IdsAreFresh
    <3>2. QED
      BY <3>1 DEF Grows
  <2>3. QED
    BY <2>1, <2>2 DEF IdsAreFresh
<1>8. QED
  BY <1>3, <1>4, <1>6, <1>7

LEMMA JobsUnmoved ==
    ASSUME IInv, Grows, UNCHANGED <<job, uploaded>>
    PROVE  JobsInv' /\ IdsAreFresh'
<1>1. JobsInv'
  <2> SUFFICES ASSUME NEW v \in Workers, job[v] # NoOne PROVE JobInv(job[v])'
    BY DEF JobsInv
  <2>1. PICK c : c = job[v]
    OBVIOUS
  <2>2. JobTypeOK(c) /\ JobInv(c)
    BY <2>1 DEF IInv, TypeOK, JobTypeOK, JobsInv
  <2>3. JobInv(c)'
    BY <2>2, OtherJob
  <2>4. c = job'[v]
    BY <2>1
  <2>5. QED
    BY <2>3, <2>4 DEF JobInv, UploadInv, GrantInv, Belongs, WasMember
<1>2. IdsAreFresh'
  BY DEF IInv, IdsAreFresh, Grows
<1>3. QED
  BY <1>1, <1>2

(* What is said of the chain stays true if nothing of it changes.          *)
LEMMA ChainUnchanged ==
    ASSUME IInv, Grows, UNCHANGED <<items, references, uploaded, secrets>>
    PROVE  TheChainIsRight' /\ SecretsAreGiven'
<1>1. TheChainIsRight'
  BY DEF IInv, TypeOK, TheChainIsRight, Grows
<1>2. SecretsAreGiven'
  BY DEF IInv, SecretsAreGiven, WasMember, Grows
<1>3. QED
  BY <1>1, <1>2

LEMMA InitIInv == Init => IInv
<1> SUFFICES ASSUME Init PROVE IInv
  OBVIOUS
<1>1. TypeOK
  BY DocumentsAssumption DEF Init, TypeOK, ServiceUser, TokenOf
<1>2. JobsInv /\ IdsAreFresh /\ PermissionsAreGiven /\ TokensAreKept
  BY DEF Init, JobsInv, IdsAreFresh, PermissionsAreGiven, TokensAreKept
<1>3. TheChainIsRight /\ SecretsAreGiven
  BY DEF Init, TheChainIsRight, SecretsAreGiven
<1>4. QED
  BY <1>1, <1>2, <1>3 DEF IInv

-----------------------------------------------------------------------------
(* The request a worker handles.                                           *)
LEMMA TheJob ==
    ASSUME IInv, NEW w \in Workers, job[w] # NoOne
    PROVE  JobTypeOK(job[w]) /\ JobInv(job[w])
BY DEF IInv, TypeOK, JobTypeOK, JobsInv

(* A request that begins.                                                  *)
LEMMA NewJob ==
    ASSUME IInv, NEW w \in Workers, NEW r, Begin(w, r), requests < MaxRequests,
           JobTypeOK(r), JobInv(r)', r.docs \cap ids = {},
           ids \subseteq ids', ids' \subseteq Items \cup Docs,
           UNCHANGED <<stored, Item, Announced, given>>, leftOut' \subseteq leftOut
    PROVE  IInv'
<1>1. Grows
  BY DEF Grows, Begin, Item, Announced, Group
<1>2. /\ job' = [job EXCEPT ![w] = r]
      /\ UNCHANGED <<stored, items, references, permissions, assignee, uploaded, secrets,
                     members, tokens, given>>
  BY DEF Begin, Item, Announced, Group
<1>3. /\ job' \in [Workers -> Job \cup {NoOne}]
      /\ \A v \in Workers : job'[v] # NoOne => JobTypeOK(job'[v])
      /\ JobsInv' /\ IdsAreFresh'
  BY <1>1, <1>2, WorkerStep
<1>4. TypeOK'
  <2>1. r.item \in Items
    BY DEF JobTypeOK, Job
  <2>2. excused' \subseteq Items /\ requests' \in 0 .. MaxRequests
    BY <2>1, DocumentsAssumption DEF Begin, IInv, TypeOK
  <2>3. QED
    BY <1>2, <1>3, <2>2 DEF IInv, TypeOK, JobTypeOK
<1>5. PermissionsAreGiven'
  BY <1>2 DEF IInv, PermissionsAreGiven
<1>6. TokensAreKept'
  BY <1>2 DEF IInv, TokensAreKept, TokenOf
<1>7. TheChainIsRight' /\ SecretsAreGiven'
  BY <1>1, <1>2, ChainUnchanged
<1>8. QED
  BY <1>3, <1>4, <1>5, <1>6, <1>7 DEF IInv

(* Root is not among the creators, and is refused updates.                 *)
LEMMA CreateStep ==
    ASSUME IInv, NEW w \in Workers, NEW s \in tokens, CreateWorkflowitem(w, s)
    PROVE  IInv'
<1>1. PICK i \in Items \ ids, ds \in SUBSET (Docs \ ids), x \in Identities \cup {NoOne} :
        /\ Idle(w) /\ Begin(w, [Request("create", "upload", s, i, ds)
                                    EXCEPT !.refused = s.id \notin Creators, !.grantee = x])
        /\ ids' = ids \cup ds \cup {i}
        /\ UNCHANGED <<stored, Item, Announced, given, leftOut>>
  BY DEF CreateWorkflowitem
<1>2. PICK r : r = [Request("create", "upload", s, i, ds)
                        EXCEPT !.refused = s.id \notin Creators, !.grantee = x]
  OBVIOUS
<1>3. /\ r.op = "create" /\ r.step = "upload" /\ r.issuer = s /\ r.item = i
      /\ r.docs = ds /\ r.left = ds /\ r.refused = (s.id \notin Creators) /\ r.half = NoOne
      /\ r.pairs = {} /\ r.grantee = x /\ r.intents = {}
  BY <1>2 DEF Request
<1>4. JobTypeOK(r)
  <2>1. r \in Job
    BY <1>2 DEF Request, Job, IInv, TypeOK
  <2>2. QED
    BY <1>3, <2>1 DEF JobTypeOK
<1>5. JobInv(r)'
  <2>1. \A d \in ds : uploaded'[d] = NoOne
    BY <1>1 DEF IInv, IdsAreFresh, Announced
  <2>2. UploadInv(r)'
    BY <1>3, <2>1, DocumentsAssumption DEF UploadInv
  <2>3. QED
    BY <1>1, <1>3, <2>2 DEF JobInv, Handing
<1>6. r.docs \cap ids = {} /\ ids' \subseteq Items \cup Docs
  BY <1>1, <1>3 DEF IInv, TypeOK
<1>7. QED
  BY <1>1, <1>2, <1>4, <1>5, <1>6, NewJob DEF Idle

LEMMA UpdateStep ==
    ASSUME IInv, NEW w \in Workers, NEW s \in tokens, UpdateWorkflowitem(w, s)
    PROVE  IInv'
<1>1. PICK i \in items, ds \in SUBSET (Docs \ ids) :
        /\ Idle(w) /\ Begin(w, [Request("update", "upload", s, i, ds)
                                    EXCEPT !.refused = s.id = Root \/ ~Permits(i, s, UpdateIntent)])
        /\ ids' = ids \cup ds
        /\ UNCHANGED <<stored, Item, Announced, given, leftOut>>
  BY DEF UpdateWorkflowitem
<1>2. PICK r : r = [Request("update", "upload", s, i, ds)
                        EXCEPT !.refused = s.id = Root \/ ~Permits(i, s, UpdateIntent)]
  OBVIOUS
<1>3. /\ r.op = "update" /\ r.step = "upload" /\ r.issuer = s /\ r.item = i
      /\ r.docs = ds /\ r.left = ds /\ r.half = NoOne
      /\ r.refused = (s.id = Root \/ ~Permits(i, s, UpdateIntent))
      /\ r.pairs = {} /\ r.grantee = NoOne /\ r.intents = {}
  BY <1>2 DEF Request
<1>4. JobTypeOK(r)
  <2>1. i \in Items
    BY DEF IInv, TypeOK
  <2>2. r \in Job
    BY <1>2, <2>1 DEF Request, Job, IInv, TypeOK
  <2>3. QED
    BY <1>3, <2>2 DEF JobTypeOK
<1>5. JobInv(r)'
  <2>1. \A d \in ds : uploaded'[d] = NoOne
    BY <1>1 DEF IInv, IdsAreFresh, Announced
  <2>2. s.id # Root => s.id \in Users
    BY DEF IInv, TypeOK, ServiceUser
  <2>3. UploadInv(r)'
    BY <1>3, <2>1, <2>2 DEF UploadInv
  <2>4. QED
    BY <1>1, <1>3, <2>3 DEF JobInv, Handing
<1>6. r.docs \cap ids = {} /\ ids' \subseteq Items \cup Docs
  BY <1>1, <1>3 DEF IInv, TypeOK
<1>7. QED
  BY <1>1, <1>2, <1>4, <1>5, <1>6, NewJob DEF Idle

(* Who is, or is a member of, an identity belongs to it.                   *)
LEMMA MembersBelong ==
    ASSUME IInv, NEW x \in Identities, NEW o \in OrganizationsOf(x)
    PROVE  o \in Organizations /\ Belongs(o, x)
<1>1. PICK u \in UsersOf(x) : o = OrganizationOf[u]
  BY DEF OrganizationsOf
<1>2. CASE x \in Users
  <2>1. u = x
    BY <1>1, <1>2 DEF UsersOf
  <2>2. QED
    BY <1>1, <1>2, <2>1, DocumentsAssumption DEF Belongs
<1>3. CASE x \notin Users
  <2>1. x \in Groups /\ u \in members[x] /\ u \in Users
    BY <1>1, <1>3 DEF UsersOf, Identities, IInv, TypeOK
  <2>2. TokenOf(u) \in tokens /\ TokenOf(u).id = u /\ x \in TokenOf(u).groups
    BY <2>1 DEF IInv, TokensAreKept, TokenOf
  <2>3. WasMember(u, x)
    BY <2>2 DEF WasMember
  <2>4. QED
    BY <1>1, <2>1, <2>3, DocumentsAssumption DEF Belongs
<1>4. QED
  BY <1>2, <1>3

LEMMA GrantStep ==
    ASSUME IInv, NEW w \in Workers, NEW s \in tokens, GrantPermission(w, s)
    PROVE  IInv'
<1>1. PICK i \in items, n \in Intents, x \in Identities :
        LET pairs == {p \in references[i] \X OrganizationsOf(x) : ToShare(p[1], p[2])}
        IN  /\ Idle(w)
            /\ Begin(w, [Request("grant", "grant", s, i, {})
                            EXCEPT !.pairs = pairs, !.grantee = x, !.intents = {n}])
            /\ leftOut' = leftOut \ ({i} \X UsersOf(x))
            /\ UNCHANGED <<stored, ids, Item, Announced, given>>
  BY DEF GrantPermission
<1> DEFINE pairs == {p \in references[i] \X OrganizationsOf(x) : ToShare(p[1], p[2])}
<1>2. PICK r : r = [Request("grant", "grant", s, i, {})
                        EXCEPT !.pairs = pairs, !.grantee = x, !.intents = {n}]
  OBVIOUS
<1>3. /\ r.op = "grant" /\ r.step = "grant" /\ r.issuer = s /\ r.item = i
      /\ r.docs = {} /\ r.left = {} /\ r.half = NoOne /\ r.refused = FALSE
      /\ r.pairs = pairs /\ r.grantee = x /\ r.intents = {n}
  BY <1>2 DEF Request
<1>4. JobTypeOK(r)
  <2>1. i \in Items /\ references[i] \subseteq Docs /\ s \in ServiceUser
    BY DEF IInv, TypeOK
  <2>2. OrganizationsOf(x) \subseteq Organizations
    BY MembersBelong
  <2>3. pairs \subseteq Docs \X Organizations
    BY <2>1, <2>2
  <2> HIDE DEF pairs
  <2>4. r \in Job
    BY <1>2, <2>1, <2>3 DEF Request, Job
  <2>5. QED
    BY <1>3, <2>4 DEF JobTypeOK
<1>5. JobInv(r)'
  <2>1. UNCHANGED <<references, uploaded, given, tokens>>
    BY <1>1 DEF Item, Announced, Begin, Group
  <2>2. \A p \in r.pairs : /\ p[1] \in references[i] /\ uploaded[p[1]] # NoOne
                           /\ Belongs(p[2], x)
    BY <1>3, MembersBelong DEF ToShare
  <2>3. GrantInv(r)'
    BY <1>3, <2>1, <2>2 DEF GrantInv, Belongs, WasMember
  <2>4. QED
    BY <1>3, <2>3 DEF JobInv, Handing
<1>6. r.docs \cap ids = {} /\ ids' \subseteq Items \cup Docs /\ ids \subseteq ids'
  BY <1>1, <1>3 DEF IInv, TypeOK
<1>7. QED
  BY <1>1, <1>2, <1>4, <1>5, <1>6, NewJob DEF Idle

LEMMA AssignStep ==
    ASSUME IInv, NEW w \in Workers, NEW s \in tokens, AssignRestricted(w, s)
    PROVE  IInv'
<1>1. PICK i \in items, x \in Identities :
        /\ Idle(w)
        /\ Begin(w, [Request("assign", "assign", s, i, {}) EXCEPT !.grantee = x])
        /\ UNCHANGED <<stored, ids, Item, Announced, given, leftOut>>
  BY DEF AssignRestricted
<1>2. PICK r : r = [Request("assign", "assign", s, i, {}) EXCEPT !.grantee = x]
  OBVIOUS
<1>3. /\ r.step = "assign" /\ r.docs = {} /\ r.left = {} /\ r.half = NoOne /\ r.grantee = x
  BY <1>2 DEF Request
<1>4. JobTypeOK(r)
  <2>1. r \in Job
    BY <1>2 DEF Request, Job, IInv, TypeOK
  <2>2. QED
    BY <1>3, <2>1 DEF JobTypeOK
<1>5. JobInv(r)'
  BY <1>3 DEF JobInv, Handing
<1>6. r.docs \cap ids = {} /\ ids' \subseteq Items \cup Docs /\ ids \subseteq ids'
  BY <1>1, <1>3 DEF IInv, TypeOK
<1>7. QED
  BY <1>1, <1>2, <1>4, <1>5, <1>6, NewJob DEF Idle

-----------------------------------------------------------------------------
(* A request that goes on, or ends: what has to be shown of the rest.      *)
LEMMA NextJob ==
    ASSUME IInv, Grows, NEW w \in Workers, job[w] # NoOne, NEW r,
           job' = [job EXCEPT ![w] = r],
           r # NoOne => JobTypeOK(r) /\ JobInv(r)' /\ r.docs = job[w].docs,
           \A d \in Docs : uploaded'[d] # uploaded[d] => d \in job[w].docs,
           stored' \subseteq Docs \X Organizations, UNCHANGED <<ids, requests>>,
           excused' \subseteq excused \cup {job[w].item}
    PROVE  /\ job' \in [Workers -> Job \cup {NoOne}]
           /\ \A v \in Workers : job'[v] # NoOne => JobTypeOK(job'[v])
           /\ excused' \subseteq Items
           /\ JobsInv' /\ IdsAreFresh'
<1>1. job[w].item \in Items
  BY TheJob DEF JobTypeOK, Job
<1>2. excused' \subseteq Items
  BY <1>1 DEF IInv, TypeOK
<1>3. QED
  BY <1>2, WorkerStep

(* The steps that do not change the chain.                                 *)
LEMMA QuietStep ==
    ASSUME IInv, NEW w \in Workers, job[w] # NoOne, NEW r,
           job' = [job EXCEPT ![w] = r],
           r # NoOne => JobTypeOK(r) /\ JobInv(r)' /\ r.docs = job[w].docs,
           stored \subseteq stored', stored' \subseteq Docs \X Organizations,
           excused' \subseteq excused \cup {job[w].item},
           UNCHANGED <<ids, Item, Announced, Group, given, leftOut, requests>>
    PROVE  IInv'
<1>1. UNCHANGED <<items, references, permissions, assignee, uploaded, secrets, members, tokens>>
  BY DEF Item, Announced, Group
<1>2. Grows
  BY <1>1 DEF Grows
<1>3. /\ job' \in [Workers -> Job \cup {NoOne}]
      /\ \A v \in Workers : job'[v] # NoOne => JobTypeOK(job'[v])
      /\ excused' \subseteq Items
      /\ JobsInv' /\ IdsAreFresh'
  BY <1>1, <1>2, NextJob
<1>4. TypeOK'
  BY <1>1, <1>3 DEF IInv, TypeOK, JobTypeOK
<1>5. PermissionsAreGiven' /\ TokensAreKept'
  BY <1>1 DEF IInv, PermissionsAreGiven, TokensAreKept, TokenOf
<1>6. TheChainIsRight' /\ SecretsAreGiven'
  BY <1>1, <1>2, ChainUnchanged
<1>7. QED
  BY <1>3, <1>4, <1>5, <1>6 DEF IInv

LEMMA PutStep ==
    ASSUME IInv, NEW w \in Workers, Put(w) \/ PutFails(w)
    PROVE  IInv'
<1>1. PICK d \in job[w].left, o \in StorageOf(job[w].issuer.id), fails \in BOOLEAN :
        /\ IF fails
             THEN /\ stored' \in {stored, stored \cup {<<d, o>>}}
                  /\ job' = [job EXCEPT ![w].left = @ \ {d}, ![w].refused = TRUE]
             ELSE /\ stored' = stored \cup {<<d, o>>}
                  /\ job' = [job EXCEPT ![w].left = @ \ {d}]
        /\ At(w, "upload")
        /\ UNCHANGED <<ids, Item, Announced, Group, given, excused, leftOut, requests>>
  <2>1. CASE Put(w)
    BY <2>1 DEF Put
  <2>2. CASE PutFails(w)
    BY <2>2 DEF PutFails
  <2>3. QED
    BY <2>1, <2>2
<1>2. job[w] # NoOne /\ job[w].step = "upload"
  BY <1>1 DEF At
<1>3. JobTypeOK(job[w]) /\ JobInv(job[w]) /\ job \in [Workers -> Job \cup {NoOne}]
  BY <1>2, TheJob DEF IInv, TypeOK
<1>4. PICK r : r = IF fails THEN [job[w] EXCEPT !.left = @ \ {d}, !.refused = TRUE]
                            ELSE [job[w] EXCEPT !.left = @ \ {d}]
  OBVIOUS
<1>5. job[w] \in Job /\ job[w].refused \in BOOLEAN
  BY <1>3 DEF JobTypeOK, Job
<1>6. /\ r.op = job[w].op /\ r.step = "upload" /\ r.issuer = job[w].issuer
      /\ r.item = job[w].item /\ r.docs = job[w].docs /\ r.left = job[w].left \ {d}
      /\ r.half = job[w].half /\ r.pairs = job[w].pairs /\ r.grantee = job[w].grantee
      /\ r.refused = (fails \/ job[w].refused)
  BY <1>2, <1>4, <1>5 DEF Job
<1>7. job' = [job EXCEPT ![w] = r]
  BY <1>1, <1>4
<1>8. JobTypeOK(r)
  <2>1. r \in Job
    BY <1>4, <1>5 DEF Job
  <2>2. QED
    BY <1>2, <1>3, <1>6, <2>1 DEF JobTypeOK
<1>9. <<d, o>> \in Docs \X Organizations
  BY <1>1, <1>3, <1>5, DocumentsAssumption DEF JobTypeOK, Job, ServiceUser, StorageOf
<1>10. JobInv(r)'
  <2>1. UploadInv(job[w])
    BY <1>2, <1>3 DEF JobInv, Handing
  <2>2. /\ UNCHANGED <<references, uploaded, given>> /\ stored \subseteq stored'
        /\ ~fails => <<d, o>> \in stored'
    BY <1>1 DEF Item, Announced
  <2>3. ~r.refused => o = OrganizationOf[r.issuer.id]
    BY <1>1, <1>6, <2>1, DocumentsAssumption DEF StorageOf, UploadInv, Identities
  <2>4. ~r.refused => r.issuer.id \in Users /\ ~fails
    BY <1>6, <2>1 DEF UploadInv
  <2>5. ~r.refused => \A e \in r.docs : \/ r.step = "upload" /\ e \in r.left
                                        \/ <<e, OrganizationOf[r.issuer.id]>> \in stored'
    BY <1>6, <2>1, <2>2, <2>3, <2>4 DEF UploadInv
  <2>6. UploadInv(r)'
    BY <1>2, <1>6, <2>1, <2>2, <2>4, <2>5 DEF UploadInv
  <2>7. QED
    BY <1>1, <1>3, <1>6, <2>1, <2>6 DEF JobInv, Handing
<1>11. stored \subseteq stored' /\ stored' \subseteq Docs \X Organizations
  BY <1>1, <1>9 DEF IInv, TypeOK
<1>12. QED
  BY <1>1, <1>2, <1>6, <1>7, <1>8, <1>10, <1>11, QuietStep

LEMMA DecideStep ==
    ASSUME IInv, NEW w \in Workers, Decide(w)
    PROVE  IInv'
<1>1. job[w] # NoOne /\ job[w].step = "upload" /\ job[w].left = {}
  BY DEF Decide, At, AllDone
<1>2. JobTypeOK(job[w]) /\ JobInv(job[w]) /\ stored \subseteq Docs \X Organizations
  BY <1>1, TheJob DEF IInv, TypeOK
<1>3. PICK r : r = IF job[w].refused THEN NoOne
                   ELSE [job[w] EXCEPT !.step = "store", !.left = job[w].docs]
  OBVIOUS
<1>4. r # NoOne => JobTypeOK(r) /\ JobInv(r)' /\ r.docs = job[w].docs
  <2> SUFFICES ASSUME r # NoOne PROVE JobTypeOK(r) /\ JobInv(r)' /\ r.docs = job[w].docs
    OBVIOUS
  <2>1. job[w] \in Job /\ ~job[w].refused
    BY <1>2, <1>3 DEF JobTypeOK
  <2>2. /\ r.op = job[w].op /\ r.step = "store" /\ r.issuer = job[w].issuer
        /\ r.item = job[w].item /\ r.docs = job[w].docs /\ r.left = job[w].docs
        /\ r.half = job[w].half /\ r.refused = FALSE /\ r.pairs = job[w].pairs
    BY <1>3, <2>1 DEF Job
  <2>3. r \in Job
    BY <1>3, <2>1 DEF Job
  <2>4. JobTypeOK(r)
    BY <1>1, <1>2, <2>2, <2>3 DEF JobTypeOK
  <2>5. UploadInv(job[w])
    BY <1>1, <1>2 DEF JobInv, Handing
  <2>6. UNCHANGED <<stored, ids, references, uploaded, given>>
    BY DEF Decide, Item, Announced
  <2>7. UploadInv(r)'
    BY <1>1, <2>1, <2>2, <2>5, <2>6 DEF UploadInv
  <2>8. QED
    BY <1>2, <2>2, <2>4, <2>5, <2>6, <2>7 DEF JobInv, Handing
<1>5. QED
  BY <1>1, <1>2, <1>3, <1>4, QuietStep DEF Decide

LEMMA StoreWorkflowitemStep ==
    ASSUME IInv, NEW w \in Workers, StoreWorkflowitem(w)
    PROVE  IInv'
<1>1. job[w] # NoOne /\ job[w].step = "store"
  BY DEF StoreWorkflowitem, At
<1>2. JobTypeOK(job[w]) /\ JobInv(job[w]) /\ job[w] \in Job /\ TypeOK
  BY <1>1, TheJob DEF IInv, JobTypeOK
<1>3. UploadInv(job[w])
  BY <1>1, <1>2 DEF JobInv, Handing
<1>4. PICK r : r = [job[w] EXCEPT !.step = "announce"]
  OBVIOUS
<1>5. /\ r.op = job[w].op /\ r.step = "announce" /\ r.issuer = job[w].issuer
      /\ r.item = job[w].item /\ r.docs = job[w].docs /\ r.left = job[w].left
      /\ r.half = job[w].half /\ r.refused = job[w].refused /\ r.pairs = job[w].pairs
      /\ r.grantee = job[w].grantee
  BY <1>2, <1>4 DEF Job
<1> DEFINE own == IF r.op = "create" THEN {r.item} \X Intents \X {r.issuer.id} ELSE {}
<1>6. /\ items' = items \cup {r.item}
      /\ references' = [references EXCEPT ![r.item] = @ \cup r.docs]
      /\ permissions' = permissions \cup own
      /\ assignee' = IF r.op = "create" THEN [assignee EXCEPT ![r.item] = r.grantee]
                                        ELSE assignee
      /\ given' = given \cup {<<p[1], p[3]>> : p \in own}
      /\ job' = [job EXCEPT ![w] = r]
      /\ UNCHANGED <<stored, ids, uploaded, secrets, members, tokens, excused, leftOut, requests>>
  BY <1>4, <1>5 DEF StoreWorkflowitem, Announced, Group
<1>7. r.item \in Items /\ r.issuer.id \in Users /\ r.docs \subseteq Docs
  BY <1>1, <1>2, <1>3, <1>5 DEF Job, UploadInv
<1>8. references'[r.item] = references[r.item] \cup r.docs
      /\ \A i \in Items \ {r.item} : references'[i] = references[i]
  BY <1>2, <1>6, <1>7 DEF TypeOK
<1>9. Grows
  BY <1>2, <1>6, <1>7, <1>8 DEF Grows, TypeOK
<1>10. JobTypeOK(r)
  <2>1. r \in Job
    BY <1>2, <1>4 DEF Job
  <2>2. QED
    BY <1>1, <1>2, <1>5, <2>1 DEF JobTypeOK
<1>11. JobInv(r)'
  <2>1. r.left \subseteq r.docs
    BY <1>10 DEF JobTypeOK
  <2>2. UploadInv(r)'
    BY <1>1, <1>3, <1>5, <1>6, <1>8, <2>1 DEF UploadInv
  <2>3. QED
    BY <1>2, <1>3, <1>5, <1>6, <2>2 DEF JobInv, Handing
<1>12. /\ job' \in [Workers -> Job \cup {NoOne}]
       /\ \A v \in Workers : job'[v] # NoOne => JobTypeOK(job'[v])
       /\ JobsInv' /\ IdsAreFresh'
  BY <1>1, <1>2, <1>5, <1>6, <1>9, <1>10, <1>11, NextJob DEF TypeOK
<1>13. TypeOK'
  <2>1. /\ references' \in [Items -> SUBSET Docs] /\ items' \subseteq Items
        /\ \A i \in Items \ items' : references'[i] = {}
    BY <1>2, <1>6, <1>7, <1>8 DEF TypeOK
  <2>2. permissions' \subseteq Items \X Intents \X Identities /\ given' \subseteq Items \X Identities
    BY <1>2, <1>6, <1>7 DEF TypeOK, Identities
  <2>3. assignee' \in [Items -> Identities \cup {NoOne}]
    BY <1>2, <1>5, <1>6, <1>7 DEF TypeOK, Job
  <2>4. QED
    BY <1>2, <1>6, <1>12, <2>1, <2>2, <2>3 DEF TypeOK, JobTypeOK
<1>14. PermissionsAreGiven' /\ TokensAreKept'
  <2>1. ASSUME NEW k \in Items, NEW n \in Intents, NEW x \in Identities, <<k, n, x>> \in permissions'
        PROVE  <<k, x>> \in given'
    <3>1. CASE <<k, n, x>> \in permissions
      BY <1>6, <3>1 DEF IInv, PermissionsAreGiven
    <3>2. CASE <<k, n, x>> \in own
      BY <1>6, <3>2
    <3>3. QED
      BY <1>6, <2>1, <3>1, <3>2
  <2>2. TokensAreKept'
    BY <1>6 DEF IInv, TokensAreKept, TokenOf
  <2>3. QED
    BY <2>1, <2>2 DEF PermissionsAreGiven
<1>15. TheChainIsRight'
  <2>1. \A d \in r.docs : <<d, OrganizationOf[r.issuer.id]>> \in stored
    BY <1>1, <1>3, <1>5 DEF UploadInv
  <2>2. OrganizationOf[r.issuer.id] \in Organizations
    BY <1>7, DocumentsAssumption
  <2>3. \A i \in items' : \A d \in references'[i] : \E o \in Organizations : <<d, o>> \in stored'
    BY <1>2, <1>6, <1>7, <1>8, <2>1, <2>2 DEF IInv, TypeOK, TheChainIsRight
  <2>4. QED
    BY <1>6, <2>3 DEF IInv, TheChainIsRight
<1>16. SecretsAreGiven'
  <2>1. \A i \in Items : references[i] \subseteq references'[i]
    BY <1>9 DEF Grows
  <2>2. QED
    BY <1>2, <1>6, <2>1 DEF IInv, TypeOK, SecretsAreGiven, WasMember
<1>17. QED
  BY <1>12, <1>13, <1>14, <1>15, <1>16 DEF IInv

LEMMA StoreDocumentUploadedStep ==
    ASSUME IInv, NEW w \in Workers, StoreDocumentUploaded(w)
    PROVE  IInv'
<1>1. job[w] # NoOne /\ job[w].step = "announce" /\ job[w].half = NoOne
  BY DEF StoreDocumentUploaded, At
<1>2. JobTypeOK(job[w]) /\ JobInv(job[w]) /\ job[w] \in Job /\ TypeOK
  BY <1>1, TheJob DEF IInv, JobTypeOK
<1>3. UploadInv(job[w])
  BY <1>1, <1>2 DEF JobInv, Handing
<1>4. PICK d \in job[w].left :
        /\ uploaded' = [uploaded EXCEPT ![d] =
                            IF @ = NoOne THEN OrganizationOf[job[w].issuer.id] ELSE @]
        /\ job' = [job EXCEPT ![w].left = @ \ {d}, ![w].half = d]
        /\ UNCHANGED <<stored, ids, Item, secrets, Group, given, excused, leftOut, requests>>
  BY DEF StoreDocumentUploaded
<1>5. PICK r : r = [job[w] EXCEPT !.left = @ \ {d}, !.half = d]
  OBVIOUS
<1>6. /\ r.op = job[w].op /\ r.step = "announce" /\ r.issuer = job[w].issuer
      /\ r.item = job[w].item /\ r.docs = job[w].docs /\ r.left = job[w].left \ {d}
      /\ r.half = d /\ r.refused = job[w].refused /\ r.pairs = job[w].pairs
  BY <1>1, <1>2, <1>5 DEF Job
<1>7. d \in Docs /\ d \in r.docs /\ r.docs \subseteq Docs /\ uploaded[d] = NoOne
  BY <1>1, <1>2, <1>3, <1>6 DEF Job, JobTypeOK, UploadInv
<1>8. r.issuer.id \in Users /\ OrganizationOf[r.issuer.id] \in Organizations
  BY <1>1, <1>3, <1>6, DocumentsAssumption DEF UploadInv
<1>9. /\ uploaded'[d] = OrganizationOf[r.issuer.id]
      /\ \A e \in Docs \ {d} : uploaded'[e] = uploaded[e]
      /\ uploaded' \in [Docs -> Organizations \cup {NoOne}]
  BY <1>2, <1>4, <1>6, <1>7, <1>8 DEF TypeOK
<1>10. job' = [job EXCEPT ![w] = r]
       /\ UNCHANGED <<stored, ids, items, references, permissions, assignee, secrets, members,
                      tokens, given, excused, leftOut, requests>>
  BY <1>4, <1>5 DEF Item, Group
<1>11. Grows
  BY <1>7, <1>9, <1>10 DEF Grows
<1>12. JobTypeOK(r)
  <2>1. r \in Job
    BY <1>2, <1>5, <1>7 DEF Job
  <2>2. QED
    BY <1>2, <1>6, <1>7, <2>1 DEF JobTypeOK
<1>13. JobInv(r)'
  <2>1. r.left \subseteq Docs \ {d}
    BY <1>2, <1>6 DEF Job
  <2>2. UploadInv(r)'
    BY <1>1, <1>3, <1>6, <1>7, <1>9, <1>10, <2>1 DEF UploadInv
  <2>3. QED
    BY <1>2, <1>3, <1>6, <1>10, <2>2 DEF JobInv, Handing
<1>14. /\ job' \in [Workers -> Job \cup {NoOne}]
       /\ \A v \in Workers : job'[v] # NoOne => JobTypeOK(job'[v])
       /\ JobsInv' /\ IdsAreFresh'
  <2>1. \A e \in Docs : uploaded'[e] # uploaded[e] => e \in job[w].docs
    BY <1>6, <1>7, <1>9
  <2>2. QED
    BY <1>1, <1>2, <1>6, <1>10, <1>11, <1>12, <1>13, <2>1, NextJob DEF TypeOK
<1>15. TypeOK'
  BY <1>2, <1>9, <1>10, <1>14 DEF TypeOK, JobTypeOK
<1>16. PermissionsAreGiven' /\ TokensAreKept'
  BY <1>10 DEF IInv, PermissionsAreGiven, TokensAreKept, TokenOf
<1>17. TheChainIsRight'
  <2>1. <<d, OrganizationOf[r.issuer.id]>> \in stored
    BY <1>1, <1>3, <1>6, <1>7 DEF UploadInv
  <2>2. \A e \in Docs : uploaded'[e] # NoOne => <<e, uploaded'[e]>> \in stored'
    BY <1>9, <1>10, <2>1 DEF IInv, TheChainIsRight
  <2>3. \A s \in secrets' : uploaded'[s[1]] # NoOne
    BY <1>2, <1>8, <1>9, <1>10, DocumentsAssumption DEF IInv, TheChainIsRight, TypeOK
  <2>4. QED
    BY <1>10, <2>2, <2>3 DEF IInv, TheChainIsRight
<1>18. SecretsAreGiven'
  <2>1. \A s \in secrets : uploaded'[s[1]] = uploaded[s[1]]
    BY <1>2, <1>7, <1>9 DEF IInv, TheChainIsRight, TypeOK
  <2>2. QED
    BY <1>10, <2>1 DEF IInv, SecretsAreGiven, WasMember
<1>19. QED
  BY <1>14, <1>15, <1>16, <1>17, <1>18 DEF IInv

-----------------------------------------------------------------------------
(* The steps that publish a secret.                                        *)
LEMMA SecretStep ==
    ASSUME IInv, NEW w \in Workers, job[w] # NoOne, NEW r, NEW s \in Docs \X Organizations,
           job' = [job EXCEPT ![w] = r], secrets' = secrets \cup {s},
           JobTypeOK(r), JobInv(r)', r.docs = job[w].docs,
           UNCHANGED <<stored, ids, Item, uploaded, Group, given, excused, leftOut, requests>>,
           uploaded[s[1]] # NoOne,
           \/ uploaded[s[1]] = s[2]
           \/ \E g \in given : s[1] \in references[g[1]] /\ Belongs(s[2], g[2])
    PROVE  IInv'
<1>1. UNCHANGED <<items, references, permissions, assignee, members, tokens>>
  BY DEF Item, Group
<1>2. Grows /\ stored' \subseteq Docs \X Organizations
  BY <1>1 DEF Grows, IInv, TypeOK
<1>3. /\ job' \in [Workers -> Job \cup {NoOne}]
      /\ \A v \in Workers : job'[v] # NoOne => JobTypeOK(job'[v])
      /\ JobsInv' /\ IdsAreFresh'
  BY <1>2, NextJob
<1>4. TypeOK'
  BY <1>1, <1>3 DEF IInv, TypeOK, JobTypeOK
<1>5. PermissionsAreGiven' /\ TokensAreKept'
  BY <1>1 DEF IInv, PermissionsAreGiven, TokensAreKept, TokenOf
<1>6. TheChainIsRight'
  BY <1>1 DEF IInv, TheChainIsRight
<1>7. SecretsAreGiven'
  BY <1>1 DEF IInv, SecretsAreGiven, Belongs, WasMember
<1>8. QED
  BY <1>3, <1>4, <1>5, <1>6, <1>7 DEF IInv

LEMMA StoreSecretPublishedStep ==
    ASSUME IInv, NEW w \in Workers, StoreSecretPublished(w)
    PROVE  IInv'
<1>1. job[w] # NoOne /\ job[w].step = "announce" /\ job[w].half # NoOne
  BY DEF StoreSecretPublished, At
<1>2. JobTypeOK(job[w]) /\ JobInv(job[w]) /\ job[w] \in Job
  BY <1>1, TheJob DEF JobTypeOK
<1>3. UploadInv(job[w])
  BY <1>1, <1>2 DEF JobInv, Handing
<1>4. PICK r : r = [job[w] EXCEPT !.half = NoOne]
  OBVIOUS
<1>5. /\ r.op = job[w].op /\ r.step = "announce" /\ r.issuer = job[w].issuer
      /\ r.item = job[w].item /\ r.docs = job[w].docs /\ r.left = job[w].left
      /\ r.half = NoOne /\ r.refused = job[w].refused /\ r.pairs = job[w].pairs
  BY <1>1, <1>2, <1>4 DEF Job
<1>6. JobTypeOK(r)
  <2>1. r \in Job
    BY <1>2, <1>4 DEF Job
  <2>2. QED
    BY <1>2, <1>5, <2>1 DEF JobTypeOK
<1>7. UNCHANGED <<stored, ids, items, references, permissions, uploaded, given>>
  BY DEF StoreSecretPublished, Item
<1>8. JobInv(r)'
  <2>1. UploadInv(r)'
    BY <1>1, <1>3, <1>5, <1>7 DEF UploadInv
  <2>2. QED
    BY <1>2, <1>3, <1>5, <1>7, <2>1 DEF JobInv, Handing
<1> DEFINE s == <<job[w].half, OrganizationOf[job[w].issuer.id]>>
<1>9. s \in Docs \X Organizations
  BY <1>1, <1>2, <1>3, DocumentsAssumption DEF Job, UploadInv
<1>10. uploaded[s[1]] = s[2] /\ s[2] # NoOne
  BY <1>1, <1>3, <1>9, DocumentsAssumption DEF UploadInv
<1>11. secrets' = secrets \cup {s} /\ job' = [job EXCEPT ![w] = r]
       /\ UNCHANGED <<stored, ids, Item, uploaded, Group, given, excused, leftOut, requests>>
  BY <1>4 DEF StoreSecretPublished
<1>12. PICK c \in Docs \X Organizations : c = s
  BY <1>9
<1>13. QED
  BY <1>1, <1>5, <1>6, <1>8, <1>9, <1>10, <1>11, <1>12, SecretStep

LEMMA EndAnnouncingStep ==
    ASSUME IInv, NEW w \in Workers, EndAnnouncing(w)
    PROVE  IInv'
<1>1. /\ job[w] # NoOne /\ job[w].step = "announce" /\ job[w].left = {} /\ job[w].half = NoOne
      /\ job[w].op = "update"
  BY DEF EndAnnouncing, At, AllAnnounced
<1>2. JobTypeOK(job[w]) /\ JobInv(job[w]) /\ job[w] \in Job /\ TypeOK
  BY <1>1, TheJob DEF IInv, JobTypeOK
<1>3. UploadInv(job[w])
  BY <1>1, <1>2 DEF JobInv, Handing
<1> DEFINE readers == Readers(job[w].item)
           pairs == job[w].docs \X UNION {OrganizationsOf(x) : x \in readers}
<1>4. UNCHANGED <<stored, ids, items, references, permissions, uploaded, secrets, given>>
  BY DEF EndAnnouncing, Item, Announced
<1>5. CASE readers \subseteq Users
  <2>1. PICK r : r = [job[w] EXCEPT !.step = "share", !.pairs = pairs]
    OBVIOUS
  <2>2. /\ r.op = "update" /\ r.step = "share" /\ r.issuer = job[w].issuer
        /\ r.item = job[w].item /\ r.docs = job[w].docs /\ r.left = {}
        /\ r.half = NoOne /\ r.refused = job[w].refused /\ r.pairs = pairs
    BY <1>1, <1>2, <1>5, <2>1 DEF Job
  <2>3. \A x \in readers : /\ OrganizationsOf(x) = {OrganizationOf[x]}
                           /\ OrganizationOf[x] \in Organizations
                           /\ <<job[w].item, x>> \in given
    <3> SUFFICES ASSUME NEW x \in readers
                 PROVE  /\ OrganizationsOf(x) = {OrganizationOf[x]}
                        /\ OrganizationOf[x] \in Organizations
                        /\ <<job[w].item, x>> \in given
      OBVIOUS
    <3>1. x \in Users /\ x \in Identities /\ <<job[w].item, ListIntent, x>> \in permissions
      BY <1>5 DEF Readers
    <3>2. <<job[w].item, x>> \in given
      BY <1>2, <3>1, DocumentsAssumption DEF IInv, PermissionsAreGiven, Job
    <3>3. QED
      BY <3>1, <3>2, DocumentsAssumption DEF OrganizationsOf, UsersOf
  <2>4. \A p \in pairs : /\ p[1] \in job[w].docs /\ p[2] \in Organizations
                         /\ \E x \in readers : OrganizationOf[x] = p[2]
    <3> SUFFICES ASSUME NEW p \in pairs
                 PROVE  /\ p[1] \in job[w].docs /\ p[2] \in Organizations
                        /\ \E x \in readers : OrganizationOf[x] = p[2]
      OBVIOUS
    <3>1. PICK x \in readers : p[2] \in OrganizationsOf(x)
      OBVIOUS
    <3>2. OrganizationOf[x] = p[2]
      BY <2>3, <3>1
    <3>3. p[2] \in Organizations
      BY <2>3, <3>2
    <3>4. QED
      BY <3>2, <3>3
  <2>5. pairs \subseteq Docs \X Organizations
    BY <1>2, <2>4 DEF Job
  <2>6. JobTypeOK(r)
    <3> HIDE DEF pairs
    <3>1. r \in Job
      BY <1>2, <2>1, <2>5 DEF Job
    <3>2. QED
      BY <1>2, <2>2, <3>1 DEF JobTypeOK
  <2>7. JobInv(r)'
    <3>1. \A p \in r.pairs :
            /\ p[1] \in r.docs
            /\ \E u \in Users : OrganizationOf[u] = p[2] /\ <<r.item, u>> \in given
      BY <1>5, <2>2, <2>3, <2>4
    <3> HIDE DEF pairs
    <3>2. UploadInv(r)'
      BY <1>1, <1>3, <1>4, <2>2, <3>1 DEF UploadInv
    <3>3. QED
      BY <1>2, <1>3, <1>4, <2>2, <3>2 DEF JobInv, Handing
  <2>8. job' = [job EXCEPT ![w] = r] /\ excused' = excused
    BY <1>5, <2>1 DEF EndAnnouncing
  <2>9. QED
    BY <1>1, <1>2, <2>2, <2>6, <2>7, <2>8, QuietStep DEF EndAnnouncing, TypeOK
<1>6. CASE ~(readers \subseteq Users)
  <2>1. job' = [job EXCEPT ![w] = NoOne] /\ excused' \subseteq excused \cup {job[w].item}
    BY <1>6 DEF EndAnnouncing
  <2>2. QED
    BY <1>1, <1>2, <2>1, QuietStep DEF EndAnnouncing, TypeOK
<1>7. QED
  BY <1>5, <1>6

LEMMA ShareDocumentStep ==
    ASSUME IInv, NEW w \in Workers, ShareDocument(w)
    PROVE  IInv'
<1>1. job[w] # NoOne /\ job[w].step = "share"
  BY DEF ShareDocument, At
<1>2. JobTypeOK(job[w]) /\ JobInv(job[w]) /\ job[w] \in Job /\ TypeOK
  BY <1>1, TheJob DEF IInv, JobTypeOK
<1>3. UploadInv(job[w])
  BY <1>1, <1>2 DEF JobInv, Handing
<1>4. PICK p \in job[w].pairs :
        \/ /\ job' = [job EXCEPT ![w].pairs = @ \ {p}]
           /\ UNCHANGED <<secrets, excused>>
        \/ /\ ToShare(p[1], p[2]) /\ secrets' = secrets \cup {p}
           /\ job' = [job EXCEPT ![w].pairs = @ \ {p}]
           /\ UNCHANGED excused
        \/ /\ job' = [job EXCEPT ![w] = NoOne]
           /\ excused' = excused \cup {job[w].item}
           /\ UNCHANGED secrets
  BY DEF ShareDocument
<1>5. UNCHANGED <<stored, ids, Item, items, references, permissions, uploaded, Group, given,
                  leftOut, requests>>
  BY DEF ShareDocument, Item
<1>6. PICK r : r = [job[w] EXCEPT !.pairs = @ \ {p}]
  OBVIOUS
<1>7. /\ r.op = job[w].op /\ r.step = "share" /\ r.issuer = job[w].issuer
      /\ r.item = job[w].item /\ r.docs = job[w].docs /\ r.left = job[w].left
      /\ r.half = job[w].half /\ r.refused = job[w].refused /\ r.pairs = job[w].pairs \ {p}
  BY <1>1, <1>2, <1>6 DEF Job
<1>8. JobTypeOK(r)
  <2>1. r \in Job
    BY <1>2, <1>6 DEF Job
  <2>2. QED
    BY <1>1, <1>2, <1>7, <2>1 DEF JobTypeOK
<1>9. JobInv(r)'
  <2>1. UploadInv(r)'
    BY <1>1, <1>3, <1>5, <1>7 DEF UploadInv
  <2>2. QED
    BY <1>2, <1>3, <1>5, <1>7, <2>1 DEF JobInv, Handing
<1>10. CASE job' = [job EXCEPT ![w].pairs = @ \ {p}] /\ UNCHANGED <<secrets, excused>>
  BY <1>1, <1>2, <1>5, <1>6, <1>7, <1>8, <1>9, <1>10, QuietStep DEF TypeOK, Announced
<1>11. CASE /\ ToShare(p[1], p[2]) /\ secrets' = secrets \cup {p}
            /\ job' = [job EXCEPT ![w].pairs = @ \ {p}]
            /\ UNCHANGED excused
  <2>1. p \in Docs \X Organizations /\ uploaded[p[1]] # NoOne
    BY <1>2, <1>11 DEF Job, ToShare
  <2>2. PICK u \in Users : OrganizationOf[u] = p[2] /\ <<job[w].item, u>> \in given
    BY <1>1, <1>3 DEF UploadInv
  <2>3. p[1] \in references[job[w].item]
    BY <1>1, <1>3 DEF UploadInv
  <2>4. \E g \in given : p[1] \in references[g[1]] /\ Belongs(p[2], g[2])
    BY <2>2, <2>3 DEF Belongs
  <2>5. QED
    BY <1>1, <1>5, <1>6, <1>7, <1>8, <1>9, <1>11, <2>1, <2>4, SecretStep
<1>12. CASE /\ job' = [job EXCEPT ![w] = NoOne] /\ excused' = excused \cup {job[w].item}
            /\ UNCHANGED secrets
  BY <1>1, <1>2, <1>5, <1>12, QuietStep DEF TypeOK, Announced
<1>13. QED
  BY <1>4, <1>10, <1>11, <1>12

LEMMA StorePermissionGrantedStep ==
    ASSUME IInv, NEW w \in Workers, StorePermissionGranted(w)
    PROVE  IInv'
<1>1. job[w] # NoOne /\ job[w].step = "grant"
  BY DEF StorePermissionGranted, At
<1>2. JobTypeOK(job[w]) /\ JobInv(job[w]) /\ job[w] \in Job /\ TypeOK
  BY <1>1, TheJob DEF IInv, JobTypeOK
<1>3. GrantInv(job[w])
  BY <1>1, <1>2 DEF JobInv
<1>4. PICK r : r = [job[w] EXCEPT !.step = "secrets"]
  OBVIOUS
<1>5. /\ r.op = job[w].op /\ r.step = "secrets" /\ r.item = job[w].item
      /\ r.docs = job[w].docs /\ r.left = job[w].left /\ r.half = job[w].half
      /\ r.pairs = job[w].pairs /\ r.grantee = job[w].grantee /\ r.intents = job[w].intents
  BY <1>2, <1>4 DEF Job
<1>6. /\ permissions' = permissions \cup ({r.item} \X r.intents \X {r.grantee})
      /\ given' = given \cup {<<r.item, r.grantee>>}
      /\ job' = [job EXCEPT ![w] = r]
      /\ UNCHANGED <<stored, ids, items, references, assignee, uploaded, secrets, members,
                     tokens, excused, leftOut, requests>>
  BY <1>4, <1>5 DEF StorePermissionGranted, Announced, Group
<1>7. r.item \in Items /\ r.intents \subseteq Intents /\ r.grantee \in Identities
  BY <1>2, <1>3, <1>5 DEF Job, GrantInv
<1>8. JobTypeOK(r)
  <2>1. r \in Job
    BY <1>2, <1>4 DEF Job
  <2>2. QED
    BY <1>1, <1>2, <1>5, <2>1 DEF JobTypeOK
<1>9. JobInv(r)'
  <2>1. GrantInv(r)'
    BY <1>3, <1>5, <1>6 DEF GrantInv, Belongs, WasMember
  <2>2. QED
    BY <1>2, <1>3, <1>5, <1>6, <2>1 DEF JobInv, Handing
<1>10. Grows
  BY <1>6 DEF Grows
<1>11. /\ job' \in [Workers -> Job \cup {NoOne}]
       /\ \A v \in Workers : job'[v] # NoOne => JobTypeOK(job'[v])
       /\ JobsInv' /\ IdsAreFresh'
  BY <1>1, <1>2, <1>5, <1>6, <1>8, <1>9, <1>10, NextJob DEF TypeOK
<1>12. TypeOK'
  BY <1>2, <1>6, <1>7, <1>11 DEF TypeOK, JobTypeOK
<1>13. PermissionsAreGiven' /\ TokensAreKept'
  BY <1>6 DEF IInv, PermissionsAreGiven, TokensAreKept, TokenOf
<1>14. TheChainIsRight' /\ SecretsAreGiven'
  BY <1>6, <1>10, ChainUnchanged
<1>15. QED
  BY <1>11, <1>12, <1>13, <1>14 DEF IInv

LEMMA StoreSharedSecretStep ==
    ASSUME IInv, NEW w \in Workers, StoreSharedSecret(w)
    PROVE  IInv'
<1>1. job[w] # NoOne /\ job[w].step = "secrets"
  BY DEF StoreSharedSecret, At
<1>2. JobTypeOK(job[w]) /\ JobInv(job[w]) /\ job[w] \in Job
  BY <1>1, TheJob DEF JobTypeOK
<1>3. GrantInv(job[w])
  BY <1>1, <1>2 DEF JobInv
<1>4. PICK p \in job[w].pairs :
        /\ secrets' = secrets \cup {p}
        /\ job' = [job EXCEPT ![w].pairs = @ \ {p}]
        /\ UNCHANGED <<stored, ids, Item, uploaded, Group, given, excused, leftOut, requests>>
  BY DEF StoreSharedSecret
<1>5. PICK r : r = [job[w] EXCEPT !.pairs = @ \ {p}]
  OBVIOUS
<1>6. /\ r.op = job[w].op /\ r.step = "secrets" /\ r.item = job[w].item
      /\ r.docs = job[w].docs /\ r.left = job[w].left /\ r.half = job[w].half
      /\ r.pairs = job[w].pairs \ {p} /\ r.grantee = job[w].grantee
  BY <1>1, <1>2, <1>5 DEF Job
<1>7. JobTypeOK(r)
  <2>1. r \in Job
    BY <1>2, <1>5 DEF Job
  <2>2. QED
    BY <1>1, <1>2, <1>6, <2>1 DEF JobTypeOK
<1>8. JobInv(r)'
  <2>1. UNCHANGED <<references, uploaded, given, ids, tokens>>
    BY <1>4 DEF Item, Group
  <2>2. GrantInv(r)'
    BY <1>1, <1>3, <1>6, <2>1 DEF GrantInv, Belongs, WasMember
  <2>3. QED
    BY <1>2, <1>3, <1>6, <2>1, <2>2 DEF JobInv, Handing
<1>9. /\ p \in Docs \X Organizations /\ uploaded[p[1]] # NoOne
      /\ p[1] \in references[r.item] /\ Belongs(p[2], r.grantee)
      /\ <<r.item, r.grantee>> \in given
  BY <1>1, <1>2, <1>3, <1>6 DEF Job, GrantInv
<1>10. \E g \in given : p[1] \in references[g[1]] /\ Belongs(p[2], g[2])
  BY <1>9
<1>11. job' = [job EXCEPT ![w] = r]
  BY <1>4, <1>5
<1>12. QED
  BY <1>1, <1>4, <1>6, <1>7, <1>8, <1>9, <1>10, <1>11, SecretStep

(* A creation ends, or goes on with the handover of the item.              *)
LEMMA EndCreationStep ==
    ASSUME IInv, NEW w \in Workers, EndCreation(w)
    PROVE  IInv'
<1>1. job[w] # NoOne /\ job[w].step = "announce" /\ job[w].left = {} /\ job[w].half = NoOne
  BY DEF EndCreation, At, AllAnnounced
<1>2. JobTypeOK(job[w]) /\ JobInv(job[w]) /\ job[w] \in Job /\ TypeOK
  BY <1>1, TheJob DEF IInv, JobTypeOK
<1>3. PICK r : r = IF job[w].grantee = NoOne THEN NoOne
                   ELSE [job[w] EXCEPT !.step = "hand over", !.intents = Intents]
  OBVIOUS
<1>4. job' = [job EXCEPT ![w] = r]
  BY <1>3 DEF EndCreation
<1>5. ASSUME r # NoOne
      PROVE  JobTypeOK(r) /\ JobInv(r)' /\ r.docs = job[w].docs
  <2>1. /\ r \in Job /\ r.step = "hand over" /\ r.grantee = job[w].grantee
        /\ r.grantee # NoOne /\ r.docs = job[w].docs /\ r.left = {} /\ r.half = NoOne
    BY <1>1, <1>2, <1>3, <1>5 DEF Job
  <2>2. UNCHANGED ids
    BY DEF EndCreation
  <2>3. QED
    BY <1>2, <2>1, <2>2 DEF JobTypeOK, JobInv, Job, Handing
<1>6. QED
  BY <1>1, <1>2, <1>4, <1>5, QuietStep DEF EndCreation, TypeOK

(* The steps of a handover: the new assignee is granted something, or not, *)
(* and the old one loses something, or not.                                *)
LEMMA HandoverStep ==
    ASSUME IInv, NEW w \in Workers, job[w] # NoOne, job[w].step \in Handing, NEW r,
           job' = [job EXCEPT ![w] = r], JobTypeOK(r), r.step \in Handing,
           r.docs = job[w].docs, r.grantee = job[w].grantee,
           NEW n \in Intents,
           permissions' \subseteq permissions \cup {<<job[w].item, n, job[w].grantee>>},
           given' \subseteq given \cup {<<job[w].item, job[w].grantee>>}, given \subseteq given',
           permissions' \subseteq permissions \/ <<job[w].item, job[w].grantee>> \in given',
           assignee' \in [Items -> Identities \cup {NoOne}], leftOut' \subseteq Items \X Users,
           UNCHANGED <<stored, ids, items, references, Announced, Group, excused, requests>>
    PROVE  IInv'
<1>1. /\ JobTypeOK(job[w]) /\ JobInv(job[w]) /\ job[w] \in Job /\ TypeOK
      /\ job[w].item \in Items /\ job[w].grantee \in Identities
  BY TheJob DEF IInv, JobTypeOK, Job, JobInv
<1>2. UNCHANGED <<uploaded, secrets, members, tokens>>
  BY DEF Announced, Group
<1>3. Grows
  BY <1>2 DEF Grows
<1>4. JobInv(r)'
  BY <1>1 DEF JobInv, Handing
<1>5. /\ job' \in [Workers -> Job \cup {NoOne}]
      /\ \A v \in Workers : job'[v] # NoOne => JobTypeOK(job'[v])
      /\ JobsInv' /\ IdsAreFresh'
  BY <1>1, <1>2, <1>3, <1>4, NextJob DEF TypeOK
<1>6. TypeOK'
  <2>1. permissions' \subseteq Items \X Intents \X Identities /\ given' \subseteq Items \X Identities
    BY <1>1 DEF TypeOK
  <2>2. QED
    BY <1>1, <1>2, <1>5, <2>1 DEF TypeOK, JobTypeOK
<1>7. PermissionsAreGiven' /\ TokensAreKept'
  BY <1>2 DEF IInv, PermissionsAreGiven, TokensAreKept, TokenOf
<1>8. TheChainIsRight' /\ SecretsAreGiven'
  BY <1>2, <1>3, ChainUnchanged
<1>9. QED
  BY <1>5, <1>6, <1>7, <1>8 DEF IInv

LEMMA StoreAssignedStep ==
    ASSUME IInv, NEW w \in Workers, StoreAssigned(w)
    PROVE  IInv'
<1>1. job[w] # NoOne /\ job[w].step = "assign"
  BY DEF StoreAssigned, At
<1>2. JobTypeOK(job[w]) /\ JobInv(job[w]) /\ job[w] \in Job /\ TypeOK
  BY <1>1, TheJob DEF IInv, JobTypeOK
<1>3. PICK r : r = [job[w] EXCEPT !.step = "hand over", !.intents = Intents]
  OBVIOUS
<1>4. /\ r \in Job /\ r.step = "hand over" /\ r.docs = job[w].docs /\ r.left = job[w].left
      /\ r.half = job[w].half /\ r.grantee = job[w].grantee
  BY <1>2, <1>3 DEF Job
<1>5. JobTypeOK(r)
  BY <1>1, <1>2, <1>4 DEF JobTypeOK
<1>6. assignee' \in [Items -> Identities \cup {NoOne}]
  BY <1>1, <1>2 DEF StoreAssigned, TypeOK, JobInv, Handing
<1>7. /\ job' = [job EXCEPT ![w] = r]
      /\ UNCHANGED <<stored, ids, items, references, permissions, Announced, Group, given,
                     excused, leftOut, requests>>
  BY <1>3 DEF StoreAssigned
<1>8. ListIntent \in Intents
  BY DocumentsAssumption
<1>9. QED
  BY <1>1, <1>2, <1>4, <1>5, <1>6, <1>7, <1>8, HandoverStep DEF Handing, TypeOK

LEMMA HandOverStep ==
    ASSUME IInv, NEW w \in Workers, HandOver(w) \/ Withdraw(w)
    PROVE  IInv'
<1>1. job[w] # NoOne /\ job[w].step \in {"hand over", "withdraw"} /\ job[w].intents # {}
  BY DEF HandOver, Withdraw, At
<1>2. JobTypeOK(job[w]) /\ JobInv(job[w]) /\ job[w] \in Job /\ TypeOK
  BY <1>1, TheJob DEF IInv, JobTypeOK
<1>3. PICK n : n = NextOf(job[w].intents)
  OBVIOUS
<1>4. n \in Intents /\ job[w].item \in Items /\ job[w].grantee \in Identities
  BY <1>1, <1>2, <1>3 DEF NextOf, Job, JobInv, Handing
<1>5. PICK r : r = [job[w] EXCEPT !.intents = @ \ {n}]
  OBVIOUS
<1>6. /\ r \in Job /\ r.step = job[w].step /\ r.docs = job[w].docs /\ r.left = job[w].left
      /\ r.half = job[w].half /\ r.grantee = job[w].grantee
  BY <1>2, <1>5 DEF Job
<1>7. JobTypeOK(r)
  BY <1>1, <1>2, <1>6 DEF JobTypeOK
<1>8. /\ job' = [job EXCEPT ![w] = r]
      /\ UNCHANGED <<stored, ids, items, references, assignee, Announced, Group, excused, requests>>
  BY <1>3, <1>5 DEF HandOver, Withdraw
<1>9. CASE HandOver(w)
  <2>1. /\ permissions' = permissions \cup {<<job[w].item, n, job[w].grantee>>}
        /\ given' = given \cup {<<job[w].item, job[w].grantee>>}
        /\ leftOut' \subseteq leftOut \cup ({job[w].item} \X UsersOf(job[w].grantee))
    BY <1>3, <1>9 DEF HandOver
  <2>2. UsersOf(job[w].grantee) \subseteq Users
    BY <1>2, <1>4 DEF UsersOf, TypeOK, Identities
  <2>3. leftOut' \subseteq Items \X Users
    BY <1>2, <1>4, <2>1, <2>2 DEF TypeOK
  <2>4. QED
    BY <1>1, <1>2, <1>4, <1>6, <1>7, <1>8, <2>1, <2>3, HandoverStep DEF Handing, TypeOK
<1>10. CASE Withdraw(w)
  <2>1. permissions' \subseteq permissions /\ UNCHANGED <<given, leftOut>>
    BY <1>10 DEF Withdraw
  <2>2. QED
    BY <1>1, <1>2, <1>4, <1>6, <1>7, <1>8, <2>1, HandoverStep DEF Handing, TypeOK
<1>11. QED
  BY <1>9, <1>10

LEMMA EndHandOverStep ==
    ASSUME IInv, NEW w \in Workers, EndHandOver(w)
    PROVE  IInv'
<1>1. job[w] # NoOne /\ job[w].step = "hand over"
  BY DEF EndHandOver, At
<1>2. JobTypeOK(job[w]) /\ JobInv(job[w]) /\ job[w] \in Job /\ TypeOK
  BY <1>1, TheJob DEF IInv, JobTypeOK
<1>3. PICK r : r = [job[w] EXCEPT !.step = "withdraw",
            !.intents = IF job[w].grantee = job[w].issuer.id THEN {} ELSE Intents \ {ListIntent}]
  OBVIOUS
<1>4. /\ r \in Job /\ r.step = "withdraw" /\ r.docs = job[w].docs /\ r.left = job[w].left
      /\ r.half = job[w].half /\ r.grantee = job[w].grantee
  BY <1>2, <1>3 DEF Job
<1>5. JobTypeOK(r)
  BY <1>1, <1>2, <1>4 DEF JobTypeOK
<1>6. JobInv(r)'
  <2>1. UNCHANGED ids
    BY DEF EndHandOver
  <2>2. QED
    BY <1>1, <1>2, <1>4, <2>1 DEF JobInv, Handing
<1>7. job' = [job EXCEPT ![w] = r]
  BY <1>3 DEF EndHandOver
<1>8. /\ r # NoOne => JobTypeOK(r) /\ JobInv(r)' /\ r.docs = job[w].docs
      /\ stored \subseteq stored' /\ stored' \subseteq Docs \X Organizations
      /\ excused' \subseteq excused \cup {job[w].item}
      /\ UNCHANGED <<ids, Item, Announced, Group, given, leftOut, requests>>
  BY <1>2, <1>4, <1>5, <1>6 DEF EndHandOver, TypeOK
<1>9. QED
  BY <1>1, <1>7, <1>8, QuietStep

(* A request that ends, well or not.                                       *)
LEMMA EndStep ==
    ASSUME IInv, NEW w \in Workers,
           EndSharing(w) \/ EndGrant(w) \/ EndWithdraw(w) \/ Fail(w)
    PROVE  IInv'
<1>1. /\ job[w] # NoOne /\ job' = [job EXCEPT ![w] = NoOne]
      /\ excused' \subseteq excused \cup {job[w].item}
      /\ UNCHANGED <<stored, ids, Item, Announced, Group, given, leftOut, requests>>
  BY DEF EndSharing, EndGrant, EndWithdraw, Fail, At
<1>2. stored' \subseteq Docs \X Organizations
  BY <1>1 DEF IInv, TypeOK
<1>3. QED
  BY <1>1, <1>2, QuietStep

(* A revocation takes no secret back and gives none; nor does a change of  *)
(* a group.                                                                *)
LEMMA OtherStep ==
    ASSUME IInv, permissions' \subseteq permissions, requests' = requests + 1,
           requests < MaxRequests, tokens \subseteq tokens', tokens' \subseteq ServiceUser,
           members' \in [Groups -> SUBSET Users], leftOut' \subseteq Items \X Users,
           TokensAreKept',
           UNCHANGED <<stored, ids, items, references, assignee, Announced, job, given, excused>>
    PROVE  IInv'
<1>1. UNCHANGED <<uploaded, secrets>>
  BY DEF Announced
<1>2. TypeOK'
  BY <1>1, DocumentsAssumption DEF IInv, TypeOK
<1>3. Grows
  BY <1>1 DEF Grows
<1>4. JobsInv' /\ IdsAreFresh'
  BY <1>1, <1>3, JobsUnmoved
<1>5. PermissionsAreGiven'
  BY DEF IInv, PermissionsAreGiven
<1>6. TheChainIsRight' /\ SecretsAreGiven'
  BY <1>1, <1>3, ChainUnchanged
<1>7. QED
  BY <1>2, <1>4, <1>5, <1>6 DEF IInv

LEMMA RevokeStep ==
    ASSUME IInv, NEW s \in tokens, RevokePermission(s)
    PROVE  IInv'
<1>1. /\ permissions' \subseteq permissions /\ requests' = requests + 1 /\ requests < MaxRequests
      /\ UNCHANGED <<stored, ids, items, references, assignee, Announced, job, given, excused,
                     members, tokens, leftOut>>
  BY DEF RevokePermission, Group
<1>2. TokensAreKept'
  BY <1>1 DEF IInv, TokensAreKept, TokenOf
<1>3. QED
  BY <1>1, <1>2, OtherStep DEF IInv, TypeOK

LEMMA GroupStep ==
    ASSUME IInv, NEW g \in Groups, NEW u \in Users, AddMember(g, u) \/ RemoveMember(g, u)
    PROVE  IInv'
<1>1. /\ requests' = requests + 1 /\ requests < MaxRequests
      /\ tokens' = tokens \cup {TokenOf(v)' : v \in Users}
      /\ UNCHANGED <<stored, ids, items, references, permissions, assignee, Announced, job,
                     given, excused>>
  BY DEF AddMember, RemoveMember, ChangeGroup, Item
<1>2. members' \in [Groups -> SUBSET Users] /\ leftOut' \subseteq Items \X Users
  <2>1. /\ members \in [Groups -> SUBSET Users] /\ leftOut \subseteq Items \X Users
        /\ items \subseteq Items
    BY DEF IInv, TypeOK
  <2>2. CASE AddMember(g, u)
    <3>1. members' = [members EXCEPT ![g] = @ \cup {u}] /\ leftOut' \subseteq leftOut \cup (items \X {u})
      BY <2>2 DEF AddMember
    <3>2. QED
      BY <2>1, <3>1
  <2>3. CASE RemoveMember(g, u)
    <3>1. members' = [members EXCEPT ![g] = @ \ {u}] /\ leftOut' = leftOut
      BY <2>3 DEF RemoveMember
    <3>2. QED
      BY <2>1, <3>1
  <2>4. QED
    BY <2>2, <2>3
<1>3. TokensAreKept'
  BY <1>1 DEF TokensAreKept
<1>4. tokens \subseteq tokens' /\ tokens' \subseteq ServiceUser
  BY <1>1 DEF IInv, TypeOK, TokenOf, ServiceUser
<1>5. QED
  BY <1>1, <1>2, <1>3, <1>4, OtherStep

LEMMA NextIInv == IInv /\ [Next]_vars => IInv'
<1> SUFFICES ASSUME IInv, [Next]_vars PROVE IInv'
  OBVIOUS
<1>1. ASSUME NEW w \in Workers, NEW s \in tokens,
             \/ CreateWorkflowitem(w, s) \/ UpdateWorkflowitem(w, s)
             \/ GrantPermission(w, s) \/ AssignRestricted(w, s)
      PROVE  IInv'
  BY <1>1, CreateStep, UpdateStep, GrantStep, AssignStep
<1>2. ASSUME NEW w \in Workers, Upload(w)
      PROVE  IInv'
  BY <1>2, PutStep, DecideStep DEF Upload
<1>3. ASSUME NEW w \in Workers, Store(w)
      PROVE  IInv'
  BY <1>3, StoreWorkflowitemStep, StoreDocumentUploadedStep, StoreSecretPublishedStep,
     EndCreationStep, StoreAssignedStep, HandOverStep, EndHandOverStep, EndStep DEF Store
<1>4. ASSUME NEW w \in Workers, Share(w)
      PROVE  IInv'
  BY <1>4, EndAnnouncingStep, ShareDocumentStep, StorePermissionGrantedStep,
     StoreSharedSecretStep, EndStep DEF Share
<1>5. ASSUME NEW w \in Workers, Fail(w)
      PROVE  IInv'
  BY <1>5, EndStep
<1>6. ASSUME NEW s \in tokens, RevokePermission(s)
      PROVE  IInv'
  BY <1>6, RevokeStep
<1>7. ASSUME NEW g \in Groups, NEW u \in Users, AddMember(g, u) \/ RemoveMember(g, u)
      PROVE  IInv'
  BY <1>7, GroupStep
<1>8. CASE UNCHANGED vars
  <2>1. UNCHANGED <<stored, ids, items, references, permissions, assignee, uploaded, secrets,
                    members, tokens, job, given, excused, leftOut, requests>>
    BY <1>8 DEF vars, Item, Announced, Group
  <2>2. JobsInv' /\ IdsAreFresh'
    BY <2>1, JobsUnmoved DEF Grows
  <2>3. TypeOK' /\ PermissionsAreGiven' /\ TokensAreKept'
    BY <2>1 DEF IInv, TypeOK, PermissionsAreGiven, TokensAreKept, TokenOf
  <2>4. TheChainIsRight' /\ SecretsAreGiven'
    BY <2>1, ChainUnchanged DEF Grows
  <2>5. QED
    BY <2>2, <2>3, <2>4 DEF IInv
<1>9. QED
  BY <1>1, <1>2, <1>3, <1>4, <1>5, <1>6, <1>7, <1>8 DEF Next

LEMMA Invariance == Spec => []IInv
BY InitIInv, NextIInv, PTL DEF Spec

-----------------------------------------------------------------------------
(* Every state has the types given in Documents, and no request holds on   *)
(* to a document it has not been given.                                    *)
THEOREM TypeCorrect == Spec => []TypeOK
<1>1. IInv => TypeOK
  BY DEF IInv
<1>2. QED
  BY <1>1, Invariance, PTL

(* Whatever fails and whoever else is at work, a workflowitem refers to    *)
(* documents that are stored, the events say where, and there is no secret *)
(* of a document that was not announced.                                   *)
THEOREM ChainIsRight == Spec => []TheChainIsRight
<1>1. IInv => TheChainIsRight
  BY DEF IInv
<1>2. QED
  BY <1>1, Invariance, PTL

(* No organization holds the secret of a document unless the document lies *)
(* there, or one of its users was granted something on a workflowitem that *)
(* refers to it.                                                           *)
THEOREM SecretsOnlyWithPermissions == Spec => []SecretsAreGiven
<1>1. IInv => SecretsAreGiven
  BY DEF IInv
<1>2. QED
  BY <1>1, Invariance, PTL

-----------------------------------------------------------------------------
(* Those to whom the documents of a workflowitem are due: who may see it   *)
(* and was not left out.                                                   *)
Due(i, u) == Reads(i, u) /\ <<i, u>> \notin leftOut

(* They have the secrets of its documents, except for those that are not   *)
(* announced yet and those that are about to be shared.                    *)
ServedBut(i, ds, pairs) ==
    \A d \in references[i] \ ds :
        /\ uploaded[d] # NoOne
        /\ \A u \in Users : Due(i, u) => <<d, OrganizationOf[u]>> \in secrets \cup pairs

(* What a request has to do with this when no other one is about its item. *)
(* A creation has no readers but its issuer; a grant has secrets for all   *)
(* organizations of the grantee that lack them; a handover shares nothing. *)
JobServes(r) ==
    /\ r.op = "create" /\ r.step \in {"upload", "store"} => r.item \notin items
    /\ r.step \in {"upload", "store"} \cup Handing => ServedBut(r.item, {}, {})
    /\ r.step = "store" => r.left = r.docs
    /\ r.step = "announce" =>
          /\ ServedBut(r.item, r.docs, {})
          /\ \A d \in r.docs \ r.left :
                /\ uploaded[d] # NoOne
                /\ d # r.half => <<d, OrganizationOf[r.issuer.id]>> \in secrets
          /\ r.op = "create" =>
                \A n \in Intents, x \in Identities :
                    <<r.item, n, x>> \in permissions => x = r.issuer.id
    /\ r.step \in {"share", "grant", "secrets"} => ServedBut(r.item, {}, r.pairs)
    /\ r.step \in {"grant", "secrets"} =>
          \A d \in references[r.item], u \in UsersOf(r.grantee) :
              <<r.item, u>> \notin leftOut => <<d, OrganizationOf[u]>> \in secrets \cup r.pairs

About(w, i) == job[w] # NoOne /\ job[w].item = i

ItemInv(i) ==
    /\ \A w, v \in Workers : About(w, i) /\ About(v, i) => w = v
    /\ (\A w \in Workers : ~About(w, i)) => ServedBut(i, {}, {})
    /\ \A w \in Workers : About(w, i) => JobServes(job[w])

(* Nothing is known of an item before it has got its id, and no permission *)
(* on it is granted before it is there.                                    *)
ItemsAreFresh ==
    /\ items \subseteq ids
    /\ \A w \in Workers : job[w] # NoOne =>
            /\ job[w].item \in ids
            /\ job[w].step \notin {"upload", "store"} => job[w].item \in items
    /\ \A i \in Items, n \in Intents, x \in Identities : <<i, n, x>> \in permissions => i \in items

DownloadInv == ItemsAreFresh /\ \A i \in Items \ excused : ItemInv(i)

(* A grant to x that the documents of k are shared with.                   *)
Granting(k, x) ==
    \E w \in Workers : /\ About(w, k) /\ job[w].grantee = x
                       /\ job[w].op = "grant" /\ job[w].step \in {"grant", "secrets"}

(* To nobody else are documents due, and nobody joins the group that they  *)
(* are being shared with, unless he is left out or has been served before. *)
NobodyNew(changed) ==
    \A k \in Items \ changed :
        /\ \A u \in Users : Due(k, u)' => Due(k, u)
        /\ \A x \in Identities : Granting(k, x) =>
              \A u \in UsersOf(x)' : <<k, u>> \notin leftOut' =>
                  \/ u \in Users /\ Due(k, u)
                  \/ u \in UsersOf(x) /\ <<k, u>> \notin leftOut

(* The rest of the chain is as it was, for all items but those.            *)
Elsewhere(changed) ==
    /\ secrets \subseteq secrets' /\ ids \subseteq ids' /\ excused \subseteq excused'
    /\ items \subseteq items' /\ items' \subseteq items \cup changed
    /\ \A d \in Docs : uploaded[d] # NoOne => uploaded'[d] = uploaded[d]
    /\ \A k \in Items \ changed :
          /\ references'[k] = references[k]
          /\ \A n \in Intents, x \in Identities :
                <<k, n, x>> \in permissions' => <<k, n, x>> \in permissions

(* With the same members, fewer permissions and nobody forgotten there is  *)
(* nobody new.                                                             *)
LEMMA DueBefore ==
    ASSUME TypeOK, NEW i \in Items, NEW u \in Users, UNCHANGED members, Due(i, u)',
           \A n \in Intents, x \in Identities :
                <<i, n, x>> \in permissions' => <<i, n, x>> \in permissions,
           <<i, u>> \in leftOut => <<i, u>> \in leftOut'
    PROVE  Due(i, u)
<1>1. u # Root /\ ListIntent \in Intents
  BY DocumentsAssumption DEF Identities
<1>2. TokenOf(u).id = u /\ TokenOf(u).groups = {g \in Groups : u \in members[g]}
      /\ TokenOf(u)' = TokenOf(u)
  BY DEF TokenOf
<1>3. PICK x \in {u} \cup {g \in Groups : u \in members[g]} : <<i, ListIntent, x>> \in permissions'
  BY <1>1, <1>2 DEF Due, Reads, Permits
<1>4. x \in Identities
  BY <1>3 DEF Identities
<1>5. <<i, ListIntent, x>> \in permissions
  BY <1>1, <1>3, <1>4
<1>6. Permits(i, TokenOf(u), ListIntent)
  BY <1>2, <1>3, <1>5 DEF Permits
<1>7. QED
  BY <1>6 DEF Due, Reads

LEMMA SameMembers ==
    ASSUME TypeOK, NEW changed, Elsewhere(changed), UNCHANGED members,
           \A k \in Items \ changed, u \in Users : <<k, u>> \in leftOut => <<k, u>> \in leftOut'
    PROVE  NobodyNew(changed)
<1> SUFFICES ASSUME NEW k \in Items \ changed
             PROVE  /\ \A u \in Users : Due(k, u)' => Due(k, u)
                    /\ \A x \in Identities : \A u \in UsersOf(x)' : <<k, u>> \notin leftOut' =>
                            u \in UsersOf(x) /\ <<k, u>> \notin leftOut
  BY DEF NobodyNew
<1>1. \A n \in Intents, x \in Identities : <<k, n, x>> \in permissions' => <<k, n, x>> \in permissions
  BY DEF Elsewhere
<1>2. ASSUME NEW u \in Users, Due(k, u)' PROVE Due(k, u)
  BY <1>1, <1>2, DueBefore
<1>3. \A x \in Identities : UsersOf(x)' = UsersOf(x) /\ UsersOf(x) \subseteq Users
  BY DEF UsersOf, Identities, TypeOK
<1>4. QED
  BY <1>2, <1>3

LEMMA StillServed ==
    ASSUME TypeOK, NEW i \in Items, NEW ds, NEW pairs, ServedBut(i, ds, pairs),
           references'[i] \subseteq references[i] \cup ds, secrets \subseteq secrets',
           \A d \in Docs : uploaded[d] # NoOne => uploaded'[d] = uploaded[d],
           \A u \in Users : Due(i, u)' => Due(i, u)
    PROVE  ServedBut(i, ds, pairs)'
<1>1. ASSUME NEW d \in references'[i] \ ds
      PROVE  /\ uploaded'[d] # NoOne
             /\ \A u \in Users : Due(i, u)' => <<d, OrganizationOf[u]>> \in secrets' \cup pairs
  <2>1. d \in references[i] \ ds /\ d \in Docs
    BY DEF TypeOK
  <2>2. /\ uploaded[d] # NoOne
        /\ \A u \in Users : Due(i, u) => <<d, OrganizationOf[u]>> \in secrets \cup pairs
    BY <2>1 DEF ServedBut
  <2>3. QED
    BY <2>1, <2>2
<1>2. QED
  BY <1>1 DEF ServedBut

(* A request about another item serves its readers as before.               *)
LEMMA OtherServes ==
    ASSUME TypeOK, NEW changed, Elsewhere(changed), NobodyNew(changed), NEW w \in Workers,
           NEW r, r = job[w], r # NoOne, JobTypeOK(r), JobInv(r),
           r.item \notin changed, JobServes(r)
    PROVE  JobServes(r)'
<1>1. /\ r.item \in Items /\ r.docs \subseteq Docs /\ r.left \subseteq r.docs /\ r.item \in Items \ changed
  BY DEF JobTypeOK, Job
<1>2. /\ references'[r.item] = references[r.item] /\ secrets \subseteq secrets'
      /\ \A d \in Docs : uploaded[d] # NoOne => uploaded'[d] = uploaded[d]
      /\ \A n \in Intents, x \in Identities :
            <<r.item, n, x>> \in permissions' => <<r.item, n, x>> \in permissions
      /\ r.item \notin items => r.item \notin items'
  BY <1>1 DEF Elsewhere
<1>3. PICK k : k = r.item
  OBVIOUS
<1>4. ASSUME NEW ds, NEW pairs, ServedBut(k, ds, pairs)
      PROVE  ServedBut(k, ds, pairs)'
  <2>1. \A u \in Users : Due(k, u)' => Due(k, u)
    BY <1>1, <1>3 DEF NobodyNew
  <2>2. QED
    BY <1>1, <1>2, <1>3, <1>4, <2>1, StillServed
<1>5. ASSUME r.step \in {"upload", "store"} \cup Handing
      PROVE  ServedBut(k, {}, {})'
  BY <1>3, <1>4, <1>5 DEF JobServes
<1>6. r.op = "create" /\ r.step \in {"upload", "store"} => k \notin items'
  BY <1>2, <1>3 DEF JobServes
<1>7. r.step = "store" => r.left = r.docs
  BY DEF JobServes
<1>8. ASSUME r.step = "announce"
      PROVE  /\ ServedBut(k, r.docs, {})'
             /\ \A d \in r.docs \ r.left :
                   /\ uploaded'[d] # NoOne
                   /\ d # r.half => <<d, OrganizationOf[r.issuer.id]>> \in secrets'
             /\ r.op = "create" =>
                   \A n \in Intents, x \in Identities : <<k, n, x>> \in permissions' => x = r.issuer.id
  <2>1. ServedBut(k, r.docs, {})'
    BY <1>3, <1>4, <1>8 DEF JobServes
  <2>2. \A d \in r.docs \ r.left :
            /\ uploaded'[d] # NoOne
            /\ d # r.half => <<d, OrganizationOf[r.issuer.id]>> \in secrets'
    BY <1>1, <1>2, <1>8 DEF JobServes
  <2>3. r.op = "create" =>
            \A n \in Intents, x \in Identities : <<k, n, x>> \in permissions' => x = r.issuer.id
    BY <1>2, <1>3, <1>8 DEF JobServes
  <2>4. QED
    BY <2>1, <2>2, <2>3
<1>9. r.step \in {"share", "grant", "secrets"} => ServedBut(k, {}, r.pairs)'
  BY <1>3, <1>4 DEF JobServes
<1>10. ASSUME r.step \in {"grant", "secrets"}
       PROVE  \A d \in references'[k], u \in UsersOf(r.grantee)' :
                <<k, u>> \notin leftOut' => <<d, OrganizationOf[u]>> \in secrets' \cup r.pairs
  <2>1. r.grantee \in Identities /\ r.op = "grant"
    BY <1>10 DEF JobInv, GrantInv
  <2>2. Granting(k, r.grantee)
    BY <1>3, <1>10, <2>1 DEF Granting, About
  <2>3. PICK x \in Identities : x = r.grantee
    BY <2>1
  <2>4. ASSUME NEW u \in UsersOf(x)', <<k, u>> \notin leftOut'
        PROVE  (u \in Users /\ Due(k, u)) \/ (u \in UsersOf(x) /\ <<k, u>> \notin leftOut)
    BY <1>1, <1>3, <2>2, <2>3, <2>4 DEF NobodyNew
  <2>5. ServedBut(k, {}, r.pairs)
        /\ \A d \in references[k], u \in UsersOf(x) :
              <<k, u>> \notin leftOut => <<d, OrganizationOf[u]>> \in secrets \cup r.pairs
    BY <1>3, <1>10, <2>3 DEF JobServes
  <2>6. ASSUME NEW d \in references[k], NEW u \in Users, Due(k, u)
        PROVE  <<d, OrganizationOf[u]>> \in secrets \cup r.pairs
    BY <2>5, <2>6 DEF ServedBut
  <2>7. ASSUME NEW d \in references'[k], NEW u \in UsersOf(x)', <<k, u>> \notin leftOut'
        PROVE  <<d, OrganizationOf[u]>> \in secrets' \cup r.pairs
    <3>1. d \in references[k]
      BY <1>2, <1>3
    <3>2. CASE Due(k, u) /\ u \in Users
      BY <1>2, <2>6, <3>1, <3>2
    <3>3. CASE u \in UsersOf(x) /\ <<k, u>> \notin leftOut
      BY <1>2, <2>5, <3>1, <3>3
    <3>4. QED
      BY <2>4, <2>7, <3>2, <3>3
  <2>8. UsersOf(r.grantee)' = UsersOf(x)'
    BY <2>3 DEF UsersOf
  <2>9. QED
    BY <2>7, <2>8
<1>11. QED
  BY <1>3, <1>5, <1>6, <1>7, <1>8, <1>9, <1>10 DEF JobServes

(* A step leaves the other items alone; r is what worker w goes on with.   *)
LEMMA OtherItems ==
    ASSUME IInv, NEW w \in Workers, NEW r, job' = [job EXCEPT ![w] = r], NEW i \in Items,
           job[w] # NoOne => job[w].item = i, r # NoOne => r.item = i,
           Elsewhere({i}), NobodyNew({i}), \A k \in Items \ excused : ItemInv(k)
    PROVE  \A k \in Items \ (excused' \cup {i}) : ItemInv(k)'
<1> SUFFICES ASSUME NEW k \in Items \ (excused' \cup {i}) PROVE ItemInv(k)'
  OBVIOUS
<1> TypeOK
  BY DEF IInv
<1>1. ItemInv(k) /\ references'[k] = references[k]
      /\ \A u \in Users : Due(k, u)' => Due(k, u)
  BY DEF Elsewhere, NobodyNew
<1>2. job'[w] = r /\ \A v \in Workers \ {w} : job'[v] = job[v]
  BY DEF TypeOK
<1>3. \A v \in Workers : (About(v, k)' <=> About(v, k)) /\ (About(v, k) => v # w /\ job'[v] = job[v])
  BY <1>2 DEF About
<1>4. \A v, q \in Workers : About(v, k)' /\ About(q, k)' => v = q
  BY <1>1, <1>3 DEF ItemInv
<1>5. (\A v \in Workers : ~About(v, k)') => ServedBut(k, {}, {})'
  <2>1. SUFFICES ASSUME \A v \in Workers : ~About(v, k) PROVE ServedBut(k, {}, {})'
    BY <1>3
  <2>2. ServedBut(k, {}, {})
    BY <1>1, <2>1 DEF ItemInv
  <2>3. QED
    BY <1>1, <2>2, StillServed DEF Elsewhere
<1>6. ASSUME NEW v \in Workers, About(v, k)' PROVE JobServes(job[v])'
  <2>1. About(v, k) /\ job'[v] = job[v]
    BY <1>3, <1>6
  <2>2. PICK c : c = job[v]
    OBVIOUS
  <2>3. JobServes(c) /\ JobTypeOK(c) /\ JobInv(c) /\ c # NoOne /\ c.item = k /\ k # i
    BY <1>1, <2>1, <2>2, TheJob DEF ItemInv, About
  <2>4. JobServes(c)'
    <3>1. c.item \notin {i}
      BY <2>3
    <3>2. QED
      BY <2>2, <2>3, <3>1, OtherServes
  <2>5. QED
    BY <2>1, <2>2, <2>4 DEF JobServes, ServedBut, Due, Reads, Permits, TokenOf, UsersOf
<1>7. QED
  BY <1>4, <1>5, <1>6 DEF ItemInv

(* A request that goes on, or ends: what has to be shown of its own item.  *)
LEMMA GoesOnServing ==
    ASSUME IInv, DownloadInv, NEW w \in Workers, job[w] # NoOne, NEW i, i = job[w].item,
           NEW r, job' = [job EXCEPT ![w] = r],
           r # NoOne => r.item = i /\ (r.step \notin {"upload", "store"} => i \in items'),
           Elsewhere({i}), UNCHANGED members,
           \A k \in Items \ {i}, u \in Users : <<k, u>> \in leftOut => <<k, u>> \in leftOut',
           \A n \in Intents, x \in Identities : <<i, n, x>> \in permissions' => i \in items',
           i \notin excused' /\ JobServes(job[w]) =>
                IF r = NoOne THEN ServedBut(i, {}, {})' ELSE JobServes(r)'
    PROVE  DownloadInv'
<1> TypeOK
  BY DEF IInv
<1>1. i \in Items /\ i \in ids
  BY DEF TypeOK, Job, DownloadInv, ItemsAreFresh
<1>2. job'[w] = r /\ \A v \in Workers \ {w} : job'[v] = job[v]
  BY DEF TypeOK
<1>3. \A k \in Items \ (excused' \cup {i}) : ItemInv(k)'
  <2>1. NobodyNew({i})
    BY SameMembers
  <2>2. QED
    BY <1>1, <2>1, OtherItems DEF DownloadInv
<1>4. ASSUME i \notin excused'
      PROVE  ItemInv(i)'
  <2>1. i \notin excused
    BY <1>4 DEF Elsewhere
  <2>2. ItemInv(i)
    BY <1>1, <2>1 DEF DownloadInv
  <2>3. About(w, i) /\ \A v \in Workers : About(v, i) => v = w
    BY <2>2 DEF ItemInv, About
  <2>4. JobServes(job[w])
    BY <2>2, <2>3 DEF ItemInv
  <2>5. IF r = NoOne THEN ServedBut(i, {}, {})' ELSE JobServes(r)'
    BY <1>4, <2>4
  <2>6. \A v \in Workers : About(v, i)' => v = w /\ r # NoOne
    BY <1>2, <2>3 DEF About
  <2>7. r # NoOne => About(w, i)'
    BY <1>2 DEF About
  <2>8. r # NoOne => JobServes(job[w])'
    <3>1. SUFFICES ASSUME r # NoOne PROVE JobServes(job[w])'
      OBVIOUS
    <3>2. JobServes(r)' /\ r = job'[w]
      BY <1>2, <2>5, <3>1
    <3>3. QED
      BY <3>2 DEF JobServes, ServedBut, Due, Reads, Permits, TokenOf, UsersOf
  <2>9. QED
    BY <2>5, <2>6, <2>7, <2>8 DEF ItemInv
<1>5. ItemsAreFresh'
  <2>1. items' \subseteq ids'
    BY <1>1 DEF DownloadInv, ItemsAreFresh, Elsewhere
  <2>2. ASSUME NEW v \in Workers, job'[v] # NoOne
        PROVE  /\ job'[v].item \in ids'
               /\ job'[v].step \notin {"upload", "store"} => job'[v].item \in items'
    BY <1>1, <1>2, <2>2 DEF DownloadInv, ItemsAreFresh, Elsewhere
  <2>3. ASSUME NEW k \in Items, NEW n \in Intents, NEW x \in Identities, <<k, n, x>> \in permissions'
        PROVE  k \in items'
    BY <2>3 DEF DownloadInv, ItemsAreFresh, Elsewhere
  <2>4. QED
    BY <2>1, <2>2, <2>3 DEF ItemsAreFresh
<1>6. QED
  BY <1>3, <1>4, <1>5 DEF DownloadInv

(* A request that begins, while no other one is about its item.            *)
LEMMA BeginsServing ==
    ASSUME IInv, DownloadInv, NEW w \in Workers, job[w] = NoOne, NEW r, Begin(w, r),
           r # NoOne, r.item \in Items, r.item \in ids', ids \subseteq ids',
           r.step \notin {"upload", "store"} => r.item \in items,
           UNCHANGED <<items, references, permissions, uploaded, secrets>>,
           \A k \in Items \ {r.item}, u \in Users : <<k, u>> \in leftOut => <<k, u>> \in leftOut',
           ServedBut(r.item, {}, {}) => JobServes(r)'
    PROVE  DownloadInv'
<1> TypeOK
  BY DEF IInv
<1>1. PICK i : i = r.item
  OBVIOUS
<1>2. job' = [job EXCEPT ![w] = r] /\ job'[w] = r /\ \A v \in Workers \ {w} : job'[v] = job[v]
  BY DEF TypeOK, Begin
<1>3. Elsewhere({i}) /\ UNCHANGED members
  BY DEF Elsewhere, Begin, Group
<1>4. \A k \in Items \ (excused' \cup {i}) : ItemInv(k)'
  <2>1. NobodyNew({i})
    BY <1>1, <1>3, SameMembers
  <2>2. QED
    BY <1>1, <1>2, <1>3, <2>1, OtherItems DEF DownloadInv
<1>5. ASSUME i \notin excused'
      PROVE  ItemInv(i)'
  <2>1. i \notin excused /\ \A v \in Workers : ~About(v, i)
    BY <1>1, <1>5 DEF Begin, Overlaps, About
  <2>2. ServedBut(i, {}, {})
    BY <1>1, <2>1 DEF DownloadInv, ItemInv
  <2>3. JobServes(r)'
    BY <1>1, <2>2 DEF ServedBut, Due
  <2>4. JobServes(job[w])'
    <3>1. JobServes(r)' /\ r = job'[w]
      BY <1>2, <2>3
    <3>2. QED
      BY <3>1 DEF JobServes, ServedBut, Due, Reads, Permits, TokenOf, UsersOf
  <2>5. About(w, i)' /\ \A v \in Workers : About(v, i)' => v = w
    BY <1>1, <1>2, <2>1 DEF About
  <2>6. QED
    BY <2>4, <2>5 DEF ItemInv
<1>6. ItemsAreFresh'
  BY <1>2 DEF DownloadInv, ItemsAreFresh
<1>7. QED
  BY <1>4, <1>5, <1>6 DEF DownloadInv

-----------------------------------------------------------------------------
(* A workflowitem that is about to be created is not there yet; an update  *)
(* or a handover begins with all readers served.                           *)
LEMMA BeginServes ==
    ASSUME IInv, DownloadInv, NEW w \in Workers, NEW s \in tokens,
           CreateWorkflowitem(w, s) \/ UpdateWorkflowitem(w, s) \/ AssignRestricted(w, s)
    PROVE  DownloadInv'
<1> TypeOK
  BY DEF IInv
<1>1. ASSUME NEW r, r \in Job, job[w] = NoOne, Begin(w, r), r.item \in ids', ids \subseteq ids',
             r.step = "upload" \/ (r.step = "assign" /\ r.item \in items),
             r.op = "create" => r.item \notin items,
             UNCHANGED <<items, references, permissions, uploaded, secrets, leftOut>>
      PROVE  DownloadInv'
  <2>1. r # NoOne /\ r.item \in Items
    BY <1>1, NoRequestAssumption DEF Job
  <2>2. PICK i \in Items : i = r.item
    BY <2>1
  <2>3. UNCHANGED members
    BY <1>1 DEF Begin, Group
  <2>4. ASSUME ServedBut(i, {}, {}) PROVE JobServes(r)'
    <3>1. \A u \in Users : Due(i, u)' => Due(i, u)
      BY <1>1, <2>3, DueBefore
    <3>2. ServedBut(i, {}, {})'
      BY <1>1, <2>4, <3>1, StillServed
    <3>3. ServedBut(r.item, {}, {})'
      BY <2>2, <3>2
    <3>4. QED
      BY <1>1, <3>3 DEF JobServes
  <2>5. ServedBut(r.item, {}, {}) => JobServes(r)'
    BY <2>2, <2>4
  <2>6. QED
    BY <1>1, <2>1, <2>5, BeginsServing
<1>2. CASE CreateWorkflowitem(w, s)
  <2>1. PICK i \in Items \ ids, ds \in SUBSET (Docs \ ids), x \in Identities \cup {NoOne} :
            /\ job[w] = NoOne
            /\ Begin(w, [Request("create", "upload", s, i, ds)
                            EXCEPT !.refused = s.id \notin Creators, !.grantee = x])
            /\ ids' = ids \cup ds \cup {i}
            /\ UNCHANGED <<items, references, permissions, uploaded, secrets, leftOut>>
    BY <1>2 DEF CreateWorkflowitem, Idle, Item, Announced
  <2>2. PICK r : r = [Request("create", "upload", s, i, ds)
                        EXCEPT !.refused = s.id \notin Creators, !.grantee = x]
    OBVIOUS
  <2>3. r.step = "upload" /\ r.item = i /\ r \in Job
    BY <2>2 DEF Request, Job, TypeOK
  <2>4. i \notin items
    BY DEF DownloadInv, ItemsAreFresh
  <2>5. Begin(w, r) /\ r.item \in ids' /\ ids \subseteq ids' /\ r.item \notin items
    BY <2>1, <2>2, <2>3, <2>4
  <2>6. QED
    BY <1>1, <2>1, <2>3, <2>5
<1>3. CASE UpdateWorkflowitem(w, s)
  <2>1. PICK i \in items, ds \in SUBSET (Docs \ ids) :
            /\ job[w] = NoOne
            /\ Begin(w, [Request("update", "upload", s, i, ds)
                            EXCEPT !.refused = s.id = Root \/ ~Permits(i, s, UpdateIntent)])
            /\ ids' = ids \cup ds
            /\ UNCHANGED <<items, references, permissions, uploaded, secrets, leftOut>>
    BY <1>3 DEF UpdateWorkflowitem, Idle, Item, Announced
  <2>2. PICK r : r = [Request("update", "upload", s, i, ds)
                            EXCEPT !.refused = s.id = Root \/ ~Permits(i, s, UpdateIntent)]
    OBVIOUS
  <2>3. i \in Items /\ i \in ids'
    BY <2>1 DEF TypeOK, DownloadInv, ItemsAreFresh
  <2>4. r.op = "update" /\ r.step = "upload" /\ r.item = i /\ r \in Job
    BY <2>2, <2>3 DEF Request, Job, TypeOK
  <2>5. QED
    BY <1>1, <2>1, <2>2, <2>3, <2>4
<1>4. CASE AssignRestricted(w, s)
  <2>1. PICK i \in items, x \in Identities :
            /\ job[w] = NoOne
            /\ Begin(w, [Request("assign", "assign", s, i, {}) EXCEPT !.grantee = x])
            /\ UNCHANGED <<ids, items, references, permissions, uploaded, secrets, leftOut>>
    BY <1>4 DEF AssignRestricted, Idle, Item, Announced
  <2>2. PICK r : r = [Request("assign", "assign", s, i, {}) EXCEPT !.grantee = x]
    OBVIOUS
  <2>3. i \in Items /\ i \in ids'
    BY <2>1 DEF TypeOK, DownloadInv, ItemsAreFresh
  <2>4. r.op = "assign" /\ r.step = "assign" /\ r.item = i /\ r \in Job
    BY <2>2, <2>3 DEF Request, Job, TypeOK
  <2>5. QED
    BY <1>1, <2>1, <2>2, <2>3, <2>4
<1>5. QED
  BY <1>2, <1>3, <1>4

(* A grant begins with secrets for all who are, or are members of, the     *)
(* grantee, those who were left out before included.                       *)
LEMMA GrantServes ==
    ASSUME IInv, DownloadInv, NEW w \in Workers, NEW s \in tokens, GrantPermission(w, s)
    PROVE  DownloadInv'
<1> TypeOK
  BY DEF IInv
<1>1. PICK i \in items, n \in Intents, x \in Identities :
          \E pairs :
            /\ pairs = {p \in references[i] \X OrganizationsOf(x) : ToShare(p[1], p[2])}
            /\ job[w] = NoOne
            /\ Begin(w, [Request("grant", "grant", s, i, {})
                            EXCEPT !.pairs = pairs, !.grantee = x, !.intents = {n}])
            /\ leftOut' = leftOut \ ({i} \X UsersOf(x))
            /\ UNCHANGED <<ids, items, references, permissions, uploaded, secrets>>
  BY DEF GrantPermission, Idle, Item, Announced
<1> PICK pairs :
        /\ pairs = {p \in references[i] \X OrganizationsOf(x) : ToShare(p[1], p[2])}
        /\ job[w] = NoOne
        /\ Begin(w, [Request("grant", "grant", s, i, {})
                        EXCEPT !.pairs = pairs, !.grantee = x, !.intents = {n}])
        /\ leftOut' = leftOut \ ({i} \X UsersOf(x))
        /\ UNCHANGED <<ids, items, references, permissions, uploaded, secrets>>
  BY <1>1
<1>2. PICK r : r = [Request("grant", "grant", s, i, {})
                        EXCEPT !.pairs = pairs, !.grantee = x, !.intents = {n}]
  OBVIOUS
<1>3. i \in Items /\ i \in ids' /\ references[i] \subseteq Docs
  BY DEF TypeOK, DownloadInv, ItemsAreFresh
<1>4. r.op = "grant" /\ r.step = "grant" /\ r.item = i /\ r.pairs = pairs /\ r.grantee = x
  BY <1>2 DEF Request
<1>5. UNCHANGED members /\ UsersOf(x)' = UsersOf(x) /\ UsersOf(x) \subseteq Users
  BY DEF Begin, Group, UsersOf, TypeOK, Identities
<1>6. ASSUME ServedBut(i, {}, {}) PROVE JobServes(r)'
  <2>1. ASSUME NEW d \in references[i], NEW u \in UsersOf(x), <<d, OrganizationOf[u]>> \notin secrets
        PROVE  <<d, OrganizationOf[u]>> \in pairs
    <3>1. uploaded[d] # NoOne
      BY <1>6 DEF ServedBut
    <3>2. PICK o \in OrganizationsOf(x) : o = OrganizationOf[u]
      BY DEF OrganizationsOf
    <3>3. <<d, o>> \in references[i] \X OrganizationsOf(x) /\ <<d, o>>[1] = d /\ <<d, o>>[2] = o
      OBVIOUS
    <3>4. ToShare(<<d, o>>[1], <<d, o>>[2])
      BY <2>1, <3>1, <3>2, <3>3 DEF ToShare
    <3>5. <<d, o>> \in pairs
      BY <3>3, <3>4
    <3>6. QED
      BY <3>2, <3>5
  <2>2. ASSUME NEW d \in references[i], NEW u \in Users, Due(i, u)'
        PROVE  uploaded[d] # NoOne /\ <<d, OrganizationOf[u]>> \in secrets \cup pairs
    <3>1. uploaded[d] # NoOne
      BY <1>6 DEF ServedBut
    <3>2. CASE u \in UsersOf(x)
      BY <2>1, <3>1, <3>2
    <3>3. CASE u \notin UsersOf(x)
      <4>1. <<i, u>> \in leftOut => <<i, u>> \in leftOut'
        BY <3>3
      <4>2. Due(i, u)
        BY <1>3, <1>5, <2>2, <4>1, DueBefore
      <4>3. QED
        BY <1>6, <3>1, <4>2 DEF ServedBut
    <3>4. QED
      BY <3>2, <3>3
  <2>3. \A d \in references[i] : uploaded[d] # NoOne
    BY <1>6 DEF ServedBut
  <2>4. ServedBut(i, {}, pairs)'
    BY <2>2, <2>3 DEF ServedBut
  <2>5. \A d \in references[i], u \in UsersOf(x) : <<d, OrganizationOf[u]>> \in secrets \cup pairs
    BY <2>1
  <2>6. QED
    BY <1>4, <1>5, <2>4, <2>5 DEF JobServes, Handing
<1>7. r \in Job
  <2>1. OrganizationsOf(x) \subseteq Organizations
    BY MembersBelong
  <2>2. pairs \subseteq Docs \X Organizations
    BY <1>3, <2>1
  <2>3. QED
    BY <1>2, <1>3, <2>2 DEF Request, Job, TypeOK
<1>8. r # NoOne
  BY <1>7, NoRequestAssumption
<1>9. \A k \in Items \ {i}, u \in Users : <<k, u>> \in leftOut => <<k, u>> \in leftOut'
  OBVIOUS
<1>10. Begin(w, r)
  BY <1>2
<1>11. ServedBut(r.item, {}, {}) => JobServes(r)'
  BY <1>4, <1>6
<1>12. QED
  BY <1>3, <1>4, <1>8, <1>9, <1>10, <1>11, BeginsServing

(* The steps of the uploads change nothing that anyone can see.            *)
LEMMA UploadServes ==
    ASSUME IInv, DownloadInv, NEW w \in Workers, Upload(w)
    PROVE  DownloadInv'
<1> TypeOK
  BY DEF IInv
<1>1. job[w] # NoOne /\ job[w].step = "upload" /\ job[w] \in Job
  BY DEF Upload, Put, PutFails, Decide, At, TypeOK
<1>2. PICK i : i = job[w].item
  OBVIOUS
<1>3. UNCHANGED <<ids, items, references, permissions, uploaded, secrets, members, leftOut, excused>>
  BY DEF Upload, Put, PutFails, Decide, Item, Announced, Group
<1>4. Elsewhere({i}) /\ i \in Items
  BY <1>1, <1>2, <1>3 DEF Elsewhere, Job
<1>5. \A n \in Intents, x \in Identities : <<i, n, x>> \in permissions' => i \in items'
  BY <1>3, <1>4 DEF DownloadInv, ItemsAreFresh
<1>6. ASSUME NEW r, job' = [job EXCEPT ![w] = r],
             r # NoOne => /\ r.item = i /\ r.op = job[w].op
                          /\ \/ r.step = "upload"
                             \/ r.step = "store" /\ r.left = r.docs
      PROVE  DownloadInv'
  <2>1. ASSUME JobServes(job[w])
        PROVE  IF r = NoOne THEN ServedBut(i, {}, {})' ELSE JobServes(r)'
    <3>1. ServedBut(i, {}, {}) /\ (job[w].op = "create" => i \notin items)
      BY <1>1, <1>2, <2>1 DEF JobServes
    <3>2. \A u \in Users : Due(i, u)' => Due(i, u)
      BY <1>3, <1>4, DueBefore
    <3>3. ServedBut(i, {}, {})' /\ (job[w].op = "create" => i \notin items')
      BY <1>3, <1>4, <3>1, <3>2, StillServed
    <3>4. r # NoOne => JobServes(r)'
      BY <1>6, <3>3 DEF JobServes, Handing
    <3>5. QED
      BY <3>3, <3>4
  <2>2. QED
    BY <1>1, <1>2, <1>3, <1>4, <1>5, <1>6, <2>1, GoesOnServing
<1>7. CASE Put(w) \/ PutFails(w)
  <2>1. PICK d \in job[w].left, refused \in {job[w].refused, TRUE} :
            job' = [job EXCEPT ![w] = [job[w] EXCEPT !.left = @ \ {d}, !.refused = refused]]
    <3>1. CASE Put(w)
      <4>1. PICK d \in job[w].left : job' = [job EXCEPT ![w].left = @ \ {d}]
        BY <3>1 DEF Put
      <4>2. [job[w] EXCEPT !.left = @ \ {d}, !.refused = job[w].refused] = [job[w] EXCEPT !.left = @ \ {d}]
        BY <1>1 DEF Job
      <4>3. QED
        BY <4>1, <4>2
    <3>2. CASE PutFails(w)
      BY <3>2 DEF PutFails
    <3>3. QED
      BY <1>7, <3>1, <3>2
  <2>2. PICK r : r = [job[w] EXCEPT !.left = @ \ {d}, !.refused = refused]
    OBVIOUS
  <2>3. r.item = i /\ r.op = job[w].op /\ r.step = "upload"
    BY <1>1, <1>2, <2>2 DEF Job
  <2>4. QED
    BY <1>6, <2>1, <2>2, <2>3
<1>8. CASE Decide(w)
  <2>1. PICK r : r = IF job[w].refused THEN NoOne
                                       ELSE [job[w] EXCEPT !.step = "store", !.left = job[w].docs]
    OBVIOUS
  <2>2. job' = [job EXCEPT ![w] = r]
    BY <1>8, <2>1 DEF Decide
  <2>3. r # NoOne => r.item = i /\ r.op = job[w].op /\ r.step = "store" /\ r.left = r.docs
    BY <1>1, <1>2, <2>1 DEF Job
  <2>4. QED
    BY <1>6, <2>2, <2>3
<1>9. QED
  BY <1>7, <1>8 DEF Upload

(* From here on its documents are among the references, and those that are *)
(* not announced yet are excepted.  The readers of a new item are its      *)
(* issuer.                                                                 *)
LEMMA StoreWorkflowitemServes ==
    ASSUME IInv, DownloadInv, NEW w \in Workers, StoreWorkflowitem(w)
    PROVE  DownloadInv'
<1> TypeOK
  BY DEF IInv
<1>1. job[w] # NoOne /\ job[w].step = "store" /\ job[w] \in Job
  BY DEF StoreWorkflowitem, At, TypeOK
<1>2. PICK i, r : i = job[w].item /\ r = [job[w] EXCEPT !.step = "announce"]
  OBVIOUS
<1>3. /\ r.item = i /\ r.op = job[w].op /\ r.step = "announce" /\ r.docs = job[w].docs
      /\ r.left = job[w].left /\ r.half = job[w].half /\ r.issuer = job[w].issuer
  BY <1>1, <1>2 DEF Job
<1>4. i \in Items /\ r.docs \subseteq Docs
  BY <1>1, <1>2, <1>3 DEF Job
<1>5. /\ items' = items \cup {i}
      /\ references' = [references EXCEPT ![i] = @ \cup r.docs]
      /\ permissions' = permissions \cup
            (IF r.op = "create" THEN {i} \X Intents \X {r.issuer.id} ELSE {})
      /\ job' = [job EXCEPT ![w] = r]
      /\ UNCHANGED <<ids, uploaded, secrets, members, leftOut, excused>>
  BY <1>2, <1>3 DEF StoreWorkflowitem, Announced, Group
<1>6. Elsewhere({i})
  BY <1>5 DEF Elsewhere, TypeOK
<1>7. ASSUME JobServes(job[w])
      PROVE  JobServes(r)'
  <2>1. ServedBut(i, {}, {}) /\ r.left = r.docs
    BY <1>1, <1>2, <1>3, <1>7 DEF JobServes
  <2>2. references'[i] = references[i] \cup r.docs
    BY <1>4, <1>5 DEF TypeOK
  <2>3. CASE r.op = "create"
    <3>1. i \notin items
      BY <1>1, <1>2, <1>3, <1>7, <2>3 DEF JobServes
    <3>2. references[i] = {}
      BY <1>4, <3>1 DEF TypeOK
    <3>3. ServedBut(i, r.docs, {})'
      BY <2>2, <3>2 DEF ServedBut
    <3>4. ASSUME NEW n \in Intents, NEW x \in Identities, <<i, n, x>> \in permissions'
          PROVE  x = r.issuer.id
      <4>1. <<i, n, x>> \notin permissions
        BY <1>4, <3>1 DEF DownloadInv, ItemsAreFresh
      <4>2. QED
        BY <1>5, <2>3, <3>4, <4>1
    <3>5. QED
      BY <1>3, <2>1, <3>3, <3>4 DEF JobServes, Handing
  <2>4. CASE r.op # "create"
    <3>1. ServedBut(i, r.docs, {})
      BY <2>1 DEF ServedBut
    <3>2. permissions' = permissions
      BY <1>5, <2>4
    <3>3. \A u \in Users : Due(i, u)' => Due(i, u)
      BY <1>4, <1>5, <3>2, DueBefore
    <3>4. ServedBut(i, r.docs, {})'
      BY <1>4, <1>5, <2>2, <3>1, <3>3, StillServed
    <3>5. QED
      BY <1>3, <2>1, <2>4, <3>4 DEF JobServes, Handing
  <2>5. QED
    BY <2>3, <2>4
<1>8. r # NoOne
  <2>1. r \in Job
    BY <1>1, <1>2 DEF Job
  <2>2. QED
    BY <2>1, NoRequestAssumption
<1>9. QED
  BY <1>1, <1>2, <1>3, <1>5, <1>6, <1>7, <1>8, GoesOnServing

LEMMA StoreDocumentUploadedServes ==
    ASSUME IInv, DownloadInv, NEW w \in Workers, StoreDocumentUploaded(w)
    PROVE  DownloadInv'
<1> TypeOK
  BY DEF IInv
<1>1. job[w] # NoOne /\ job[w].step = "announce" /\ job[w].half = NoOne /\ job[w] \in Job
  BY DEF StoreDocumentUploaded, At, TypeOK
<1>2. JobTypeOK(job[w]) /\ JobInv(job[w])
  BY <1>1, TheJob
<1>3. UploadInv(job[w])
  BY <1>1, <1>2 DEF JobInv, Handing
<1>4. job[w].issuer.id \in Users
  BY <1>1, <1>3 DEF UploadInv
<1>5. PICK d \in job[w].left :
        /\ uploaded' = [uploaded EXCEPT ![d] = IF @ = NoOne THEN OrganizationOf[job[w].issuer.id] ELSE @]
        /\ job' = [job EXCEPT ![w].left = @ \ {d}, ![w].half = d]
  BY DEF StoreDocumentUploaded
<1>6. UNCHANGED <<ids, items, references, permissions, secrets, members, leftOut, excused>>
  BY DEF StoreDocumentUploaded, Item, Group
<1>7. PICK i, r : i = job[w].item /\ r = [job[w] EXCEPT !.left = @ \ {d}, !.half = d]
  OBVIOUS
<1>8. /\ r.item = i /\ r.op = job[w].op /\ r.step = "announce" /\ r.docs = job[w].docs
      /\ r.left = job[w].left \ {d} /\ r.half = d /\ r.issuer = job[w].issuer
  BY <1>1, <1>7 DEF Job
<1>9. i \in Items /\ i \in items' /\ r.docs \subseteq Docs /\ d \in Docs
  BY <1>1, <1>5, <1>6, <1>7, <1>8 DEF Job, DownloadInv, ItemsAreFresh
<1>10. /\ job' = [job EXCEPT ![w] = r]
       /\ \A e \in Docs : uploaded[e] # NoOne => uploaded'[e] = uploaded[e]
       /\ uploaded'[d] # NoOne
  <2>1. OrganizationOf[job[w].issuer.id] # NoOne
    BY <1>4, DocumentsAssumption
  <2>2. QED
    BY <1>5, <1>7, <1>9, <2>1 DEF TypeOK
<1>11. Elsewhere({i})
  BY <1>6, <1>10 DEF Elsewhere
<1>12. ASSUME JobServes(job[w])
       PROVE  JobServes(r)'
  <2>1. /\ ServedBut(i, r.docs, {})
        /\ \A e \in job[w].docs \ job[w].left : uploaded[e] # NoOne
                                                /\ <<e, OrganizationOf[job[w].issuer.id]>> \in secrets
        /\ r.op = "create" =>
              \A n \in Intents, x \in Identities : <<i, n, x>> \in permissions => x = r.issuer.id
    <3>1. \A e \in job[w].docs : e # job[w].half
      BY <1>1, <1>2, DocumentsAssumption DEF JobTypeOK, Job
    <3>2. QED
      BY <1>1, <1>7, <1>8, <1>12, <3>1 DEF JobServes
  <2>2. \A u \in Users : Due(i, u)' => Due(i, u)
    BY <1>6, <1>9, DueBefore
  <2>3. ServedBut(i, r.docs, {})'
    BY <1>6, <1>9, <1>10, <2>1, <2>2, StillServed
  <2>4. \A e \in r.docs \ r.left : /\ uploaded'[e] # NoOne
                                   /\ e # r.half => <<e, OrganizationOf[r.issuer.id]>> \in secrets'
    BY <1>6, <1>8, <1>9, <1>10, <2>1
  <2>5. QED
    BY <1>6, <1>8, <2>1, <2>3, <2>4 DEF JobServes, Handing
<1>13. \A n \in Intents, x \in Identities : <<i, n, x>> \in permissions' => i \in items'
  BY <1>9
<1>14. r # NoOne
  <2>1. r \in Job
    BY <1>1, <1>5, <1>7, <1>9 DEF Job
  <2>2. QED
    BY <2>1, NoRequestAssumption
<1>15. QED
  BY <1>1, <1>6, <1>7, <1>8, <1>9, <1>10, <1>11, <1>12, <1>13, <1>14, GoesOnServing

LEMMA StoreSecretPublishedServes ==
    ASSUME IInv, DownloadInv, NEW w \in Workers, StoreSecretPublished(w)
    PROVE  DownloadInv'
<1> TypeOK
  BY DEF IInv
<1>1. job[w] # NoOne /\ job[w].step = "announce" /\ job[w] \in Job
  BY DEF StoreSecretPublished, At, TypeOK
<1>2. PICK i, r : i = job[w].item /\ r = [job[w] EXCEPT !.half = NoOne]
  OBVIOUS
<1>3. /\ r.item = i /\ r.op = job[w].op /\ r.step = "announce" /\ r.docs = job[w].docs
      /\ r.left = job[w].left /\ r.issuer = job[w].issuer
  BY <1>1, <1>2 DEF Job
<1>4. /\ job' = [job EXCEPT ![w] = r]
      /\ secrets' = secrets \cup {<<job[w].half, OrganizationOf[r.issuer.id]>>}
      /\ UNCHANGED <<ids, items, references, permissions, uploaded, members, leftOut, excused>>
  BY <1>2, <1>3 DEF StoreSecretPublished, Item, Group
<1>5. i \in Items /\ i \in items' /\ r.docs \subseteq Docs
  BY <1>1, <1>2, <1>3, <1>4 DEF Job, DownloadInv, ItemsAreFresh
<1>6. Elsewhere({i})
  BY <1>4 DEF Elsewhere
<1>7. ASSUME JobServes(job[w])
      PROVE  JobServes(r)'
  <2>1. /\ ServedBut(i, r.docs, {})
        /\ \A d \in r.docs \ r.left :
              /\ uploaded[d] # NoOne
              /\ d # job[w].half => <<d, OrganizationOf[r.issuer.id]>> \in secrets
        /\ r.op = "create" =>
              \A n \in Intents, x \in Identities : <<i, n, x>> \in permissions => x = r.issuer.id
    BY <1>1, <1>2, <1>3, <1>7 DEF JobServes
  <2>2. \A u \in Users : Due(i, u)' => Due(i, u)
    BY <1>4, <1>5, DueBefore
  <2>3. ServedBut(i, r.docs, {})'
    BY <1>4, <1>5, <2>1, <2>2, StillServed
  <2>4. \A d \in r.docs \ r.left : uploaded'[d] # NoOne /\ <<d, OrganizationOf[r.issuer.id]>> \in secrets'
    BY <1>4, <2>1
  <2>5. QED
    BY <1>3, <1>4, <2>1, <2>3, <2>4 DEF JobServes, Handing
<1>8. r # NoOne
  <2>1. r \in Job
    BY <1>1, <1>2 DEF Job
  <2>2. QED
    BY <2>1, NoRequestAssumption
<1>9. QED
  BY <1>1, <1>2, <1>3, <1>4, <1>5, <1>6, <1>7, <1>8, GoesOnServing

(* Users are permitted by themselves or by a group they are a member of.   *)
LEMMA ByWhom ==
    ASSUME NEW i \in Items, NEW u \in Users, Reads(i, u)
    PROVE  \E x \in Identities : /\ <<i, ListIntent, x>> \in permissions
                                 /\ x \in Users => x = u
                                 /\ u \in UsersOf(x) /\ OrganizationOf[u] \in OrganizationsOf(x)
<1>1. u # Root
  BY DocumentsAssumption DEF Identities
<1>2. PICK x \in {u} \cup {g \in Groups : u \in members[g]} : <<i, ListIntent, x>> \in permissions
  BY <1>1 DEF Reads, Permits, TokenOf
<1>3. x \in Identities /\ (x = u \/ (x \in Groups /\ u \in members[x]))
  BY <1>2 DEF Identities
<1>4. x \in Users => x = u
  BY <1>3, DocumentsAssumption
<1>5. u \in UsersOf(x)
  BY <1>3, <1>4 DEF UsersOf
<1>6. OrganizationOf[u] \in OrganizationsOf(x)
  BY <1>5 DEF OrganizationsOf
<1>7. QED
  BY <1>2, <1>3, <1>4, <1>5, <1>6

(* What a request that has announced everything has done.                  *)
LEMMA Announces ==
    ASSUME IInv, NEW w \in Workers, At(w, "announce"), AllAnnounced(job[w]), JobServes(job[w])
    PROVE  /\ ServedBut(job[w].item, job[w].docs, {})
           /\ \A d \in job[w].docs : /\ uploaded[d] # NoOne
                                     /\ <<d, OrganizationOf[job[w].issuer.id]>> \in secrets
           /\ job[w].op = "create" =>
                 \A n \in Intents, x \in Identities :
                    <<job[w].item, n, x>> \in permissions => x = job[w].issuer.id
<1>1. job[w] # NoOne /\ job[w].step = "announce" /\ job[w].left = {} /\ job[w].half = NoOne
  BY DEF AllAnnounced, At
<1>2. JobTypeOK(job[w])
  BY <1>1, TheJob
<1>3. \A d \in job[w].docs : d # job[w].half
  BY <1>1, <1>2, DocumentsAssumption DEF JobTypeOK, Job
<1>4. QED
  BY <1>1, <1>3 DEF JobServes

(* A creation has only its issuer to serve.                                *)
LEMMA EndCreationServes ==
    ASSUME IInv, DownloadInv, NEW w \in Workers, EndCreation(w)
    PROVE  DownloadInv'
<1> TypeOK
  BY DEF IInv
<1>1. job[w] # NoOne /\ job[w].step = "announce" /\ job[w] \in Job /\ job[w].op = "create"
  BY DEF EndCreation, At, TypeOK
<1>2. UploadInv(job[w])
  BY <1>1, TheJob DEF JobInv, Handing
<1>3. PICK i, r : /\ i = job[w].item
                  /\ r = IF job[w].grantee = NoOne THEN NoOne
                         ELSE [job[w] EXCEPT !.step = "hand over", !.intents = Intents]
  OBVIOUS
<1>4. r # NoOne => r.item = i /\ r.step = "hand over" /\ r.op = "create"
  BY <1>1, <1>3 DEF Job
<1>5. /\ job' = [job EXCEPT ![w] = r]
      /\ UNCHANGED <<ids, items, references, permissions, uploaded, secrets, members, leftOut, excused>>
  BY <1>3 DEF EndCreation, Item, Announced, Group
<1>6. i \in Items /\ i \in items' /\ job[w].issuer.id \in Users /\ ListIntent \in Intents
  BY <1>1, <1>2, <1>3, <1>5, DocumentsAssumption DEF Job, DownloadInv, ItemsAreFresh, UploadInv
<1>7. Elsewhere({i})
  BY <1>5 DEF Elsewhere
<1>8. ASSUME JobServes(job[w])
      PROVE  IF r = NoOne THEN ServedBut(i, {}, {})' ELSE JobServes(r)'
  <2>1. /\ ServedBut(i, job[w].docs, {})
        /\ \A d \in job[w].docs : /\ uploaded[d] # NoOne
                                  /\ <<d, OrganizationOf[job[w].issuer.id]>> \in secrets
        /\ \A n \in Intents, x \in Identities : <<i, n, x>> \in permissions => x = job[w].issuer.id
    BY <1>1, <1>3, <1>8, Announces DEF EndCreation
  <2>2. ASSUME NEW d \in references[i], NEW u \in Users, Due(i, u)
        PROVE  <<d, OrganizationOf[u]>> \in secrets
    <3>1. PICK x \in Identities : <<i, ListIntent, x>> \in permissions /\ (x \in Users => x = u)
      BY <1>6, <2>2, ByWhom DEF Due
    <3>2. u = job[w].issuer.id
      BY <1>6, <2>1, <3>1
    <3>3. CASE d \in job[w].docs
      BY <2>1, <3>2, <3>3
    <3>4. CASE d \notin job[w].docs
      BY <2>1, <2>2, <3>4 DEF ServedBut
    <3>5. QED
      BY <3>3, <3>4
  <2>3. \A d \in references[i] : uploaded[d] # NoOne
    BY <2>1 DEF ServedBut
  <2>4. ServedBut(i, {}, {})
    BY <2>2, <2>3 DEF ServedBut
  <2>5. \A u \in Users : Due(i, u)' => Due(i, u)
    BY <1>5, <1>6, DueBefore
  <2>6. ServedBut(i, {}, {})'
    BY <1>5, <1>6, <2>4, <2>5, StillServed
  <2>7. r # NoOne => JobServes(r)'
    BY <1>4, <2>6 DEF JobServes, Handing
  <2>8. QED
    BY <2>6, <2>7
<1>9. QED
  BY <1>1, <1>3, <1>4, <1>5, <1>6, <1>7, <1>8, GoesOnServing

(* An update goes on to share with the readers, all of whom are users.     *)
LEMMA EndAnnouncingServes ==
    ASSUME IInv, DownloadInv, NEW w \in Workers, EndAnnouncing(w)
    PROVE  DownloadInv'
<1> TypeOK
  BY DEF IInv
<1>1. job[w] # NoOne /\ job[w].step = "announce" /\ job[w] \in Job /\ job[w].op = "update"
  BY DEF EndAnnouncing, At, TypeOK
<1>2. PICK i : i = job[w].item
  OBVIOUS
<1>3. UNCHANGED <<ids, items, references, permissions, uploaded, secrets, members, leftOut>>
  BY DEF EndAnnouncing, Item, Announced, Group
<1>4. i \in Items /\ i \in items' /\ ListIntent \in Intents
  BY <1>1, <1>2, <1>3, DocumentsAssumption DEF Job, DownloadInv, ItemsAreFresh
<1>5. CASE Readers(i) \subseteq Users
  <2>1. PICK pairs : pairs = job[w].docs \X UNION {OrganizationsOf(x) : x \in Readers(i)}
    OBVIOUS
  <2>2. PICK r : r = [job[w] EXCEPT !.step = "share", !.pairs = pairs]
    OBVIOUS
  <2>3. job' = [job EXCEPT ![w] = r] /\ UNCHANGED excused
    BY <1>2, <1>5, <2>1, <2>2 DEF EndAnnouncing
  <2>4. r.item = i /\ r.op = "update" /\ r.step = "share" /\ r.pairs = pairs
    BY <1>1, <1>2, <2>2 DEF Job
  <2>5. Elsewhere({i})
    BY <1>3, <2>3 DEF Elsewhere
  <2>6. ASSUME JobServes(job[w])
        PROVE  JobServes(r)'
    <3>1. ServedBut(i, job[w].docs, {}) /\ \A d \in job[w].docs : uploaded[d] # NoOne
      BY <1>1, <1>2, <2>6, Announces DEF EndAnnouncing
    <3>2. ASSUME NEW d \in references[i], NEW u \in Users, Due(i, u)
          PROVE  <<d, OrganizationOf[u]>> \in secrets \cup pairs
      <4>1. CASE d \in job[w].docs
        <5>1. PICK x \in Identities : /\ <<i, ListIntent, x>> \in permissions
                                      /\ OrganizationOf[u] \in OrganizationsOf(x)
          BY <1>4, <3>2, ByWhom DEF Due
        <5>2. x \in Readers(i)
          BY <5>1 DEF Readers
        <5>3. OrganizationOf[u] \in UNION {OrganizationsOf(y) : y \in Readers(i)}
          BY <5>1, <5>2
        <5>4. QED
          BY <2>1, <4>1, <5>3
      <4>2. CASE d \notin job[w].docs
        BY <3>1, <3>2, <4>2 DEF ServedBut
      <4>3. QED
        BY <4>1, <4>2
    <3>3. \A d \in references[i] : uploaded[d] # NoOne
      BY <3>1 DEF ServedBut
    <3>4. ServedBut(i, {}, pairs)
      BY <3>2, <3>3 DEF ServedBut
    <3>5. \A u \in Users : Due(i, u)' => Due(i, u)
      BY <1>3, <1>4, DueBefore
    <3>6. ServedBut(i, {}, pairs)'
      BY <1>3, <1>4, <3>4, <3>5, StillServed
    <3>7. QED
      BY <2>4, <3>6 DEF JobServes, Handing
  <2>7. r # NoOne
    <3>1. \A x \in Readers(i) : OrganizationsOf(x) \subseteq Organizations
      BY MembersBelong DEF Readers
    <3>2. PICK os : os = UNION {OrganizationsOf(x) : x \in Readers(i)}
      OBVIOUS
    <3>3. os \subseteq Organizations
      BY <3>1, <3>2
    <3>4. job[w].docs \subseteq Docs
      BY <1>1 DEF Job
    <3>5. pairs = job[w].docs \X os
      BY <2>1, <3>2
    <3>6. pairs \subseteq Docs \X Organizations
      BY <3>3, <3>4, <3>5
    <3>7. r \in Job
      BY <1>1, <2>2, <3>6 DEF Job
    <3>8. QED
      BY <3>7, NoRequestAssumption
  <2>8. QED
    BY <1>1, <1>2, <1>3, <1>4, <2>3, <2>4, <2>5, <2>6, <2>7, GoesOnServing
<1>6. CASE ~(Readers(i) \subseteq Users)
  <2>1. job' = [job EXCEPT ![w] = NoOne] /\ excused' = excused \cup {i}
    BY <1>2, <1>6 DEF EndAnnouncing
  <2>2. Elsewhere({i})
    BY <1>3, <2>1 DEF Elsewhere
  <2>3. QED
    BY <1>1, <1>2, <1>3, <1>4, <2>1, <2>2, GoesOnServing
<1>7. QED
  BY <1>5, <1>6

(* A secret that is passed on need no longer be; one that need not be      *)
(* passed on is there, since the document is announced.                    *)
LEMMA OneLess ==
    ASSUME TypeOK, NEW i \in Items, NEW pairs, NEW p, ServedBut(i, {}, pairs),
           secrets \subseteq secrets', p \in secrets',
           UNCHANGED <<references, uploaded, permissions, members, leftOut>>
    PROVE  ServedBut(i, {}, pairs \ {p})'
<1>1. \A u \in Users : Due(i, u)' => Due(i, u)
  BY DueBefore
<1>2. ServedBut(i, {}, pairs)'
  BY <1>1, StillServed
<1>3. QED
  BY <1>2 DEF ServedBut

LEMMA ShareDocumentServes ==
    ASSUME IInv, DownloadInv, NEW w \in Workers, ShareDocument(w)
    PROVE  DownloadInv'
<1> TypeOK
  BY DEF IInv
<1>1. job[w] # NoOne /\ job[w].step = "share" /\ job[w] \in Job
  BY DEF ShareDocument, At, TypeOK
<1>2. UploadInv(job[w])
  BY <1>1, TheJob DEF JobInv, Handing
<1>3. PICK i : i = job[w].item
  OBVIOUS
<1>4. PICK p \in job[w].pairs :
        \/ /\ ~ToShare(p[1], p[2])
           /\ job' = [job EXCEPT ![w].pairs = @ \ {p}]
           /\ UNCHANGED <<secrets, excused>>
        \/ /\ secrets' = secrets \cup {p}
           /\ job' = [job EXCEPT ![w].pairs = @ \ {p}]
           /\ UNCHANGED excused
        \/ /\ job' = [job EXCEPT ![w] = NoOne]
           /\ excused' = excused \cup {i}
           /\ UNCHANGED secrets
  BY <1>3 DEF ShareDocument
<1>5. UNCHANGED <<ids, items, references, permissions, uploaded, members, leftOut>>
  BY DEF ShareDocument, Item, Group
<1>6. i \in Items /\ i \in items' /\ p[1] \in references[i] /\ p = <<p[1], p[2]>>
  <2>1. i \in Items
    BY <1>1, <1>3 DEF Job
  <2>2. i \in items'
    BY <1>1, <1>3, <1>5 DEF DownloadInv, ItemsAreFresh
  <2>3. job[w].pairs \subseteq Docs \X Organizations
    BY <1>1 DEF Job
  <2>4. p \in job[w].pairs
    BY <1>4
  <2>5. p \in Docs \X Organizations
    BY <2>3, <2>4
  <2>6. p[1] \in references[i]
    BY <1>1, <1>2, <1>3, <2>4, <2>5 DEF UploadInv
  <2>7. QED
    BY <2>1, <2>2, <2>5, <2>6
<1>7. Elsewhere({i})
  BY <1>4, <1>5 DEF Elsewhere
<1>8. CASE job' = [job EXCEPT ![w].pairs = @ \ {p}]
  <2>1. PICK r, pairs : r = [job[w] EXCEPT !.pairs = @ \ {p}] /\ pairs = job[w].pairs
    OBVIOUS
  <2>2. /\ r.item = i /\ r.step = "share" /\ r.pairs = pairs \ {p}
        /\ job' = [job EXCEPT ![w] = r]
    BY <1>1, <1>3, <1>8, <2>1 DEF Job
  <2>3. ASSUME i \notin excused', JobServes(job[w])
        PROVE  JobServes(r)'
    <3>1. ServedBut(i, {}, pairs)
      BY <1>1, <1>3, <2>1, <2>3 DEF JobServes
    <3>2. uploaded[p[1]] # NoOne
      BY <1>6, <3>1 DEF ServedBut
    <3>3. p \in secrets' /\ secrets \subseteq secrets'
      BY <1>4, <1>6, <2>3, <3>2 DEF ToShare
    <3>4. ServedBut(i, {}, pairs \ {p})'
      BY <1>5, <1>6, <3>1, <3>3, OneLess
    <3>5. QED
      BY <2>2, <3>4 DEF JobServes, Handing
  <2>4. r # NoOne
    <3>1. r \in Job
      BY <1>1, <2>1 DEF Job
    <3>2. QED
      BY <3>1, NoRequestAssumption
  <2>5. QED
    BY <1>1, <1>3, <1>5, <1>6, <1>7, <2>2, <2>3, <2>4, GoesOnServing
<1>9. CASE job' = [job EXCEPT ![w] = NoOne] /\ i \in excused'
  BY <1>1, <1>3, <1>5, <1>6, <1>7, <1>9, GoesOnServing
<1>10. QED
  BY <1>4, <1>8, <1>9

(* The new readers are of organizations that have the secrets, or for      *)
(* which the grant has brought them.                                       *)
LEMMA StorePermissionGrantedServes ==
    ASSUME IInv, DownloadInv, NEW w \in Workers, StorePermissionGranted(w)
    PROVE  DownloadInv'
<1> TypeOK
  BY DEF IInv
<1>1. job[w] # NoOne /\ job[w].step = "grant" /\ job[w] \in Job
  BY DEF StorePermissionGranted, At, TypeOK
<1>2. GrantInv(job[w])
  BY <1>1, TheJob DEF JobInv
<1>3. PICK i, x, r : /\ i = job[w].item /\ x = job[w].grantee
                     /\ r = [job[w] EXCEPT !.step = "secrets"]
  OBVIOUS
<1>4. /\ r.item = i /\ r.op = "grant" /\ r.step = "secrets" /\ r.pairs = job[w].pairs
      /\ r.grantee = x
  BY <1>1, <1>2, <1>3 DEF Job, GrantInv
<1>5. i \in Items /\ i \in items
  BY <1>1, <1>3 DEF Job, DownloadInv, ItemsAreFresh
<1>6. /\ permissions' = permissions \cup ({i} \X job[w].intents \X {x})
      /\ job' = [job EXCEPT ![w] = r]
      /\ UNCHANGED <<ids, items, references, uploaded, secrets, members, leftOut, excused>>
  BY <1>3 DEF StorePermissionGranted, Announced, Group
<1>7. Elsewhere({i})
  BY <1>6 DEF Elsewhere
<1>8. UsersOf(x)' = UsersOf(x)
  BY <1>6 DEF UsersOf
<1>9. ASSUME JobServes(job[w])
      PROVE  JobServes(r)'
  <2>1. /\ ServedBut(i, {}, r.pairs)
        /\ \A d \in references[i], u \in UsersOf(x) :
              <<i, u>> \notin leftOut => <<d, OrganizationOf[u]>> \in secrets \cup r.pairs
    BY <1>1, <1>3, <1>4, <1>9 DEF JobServes
  <2>2. ASSUME NEW d \in references[i], NEW u \in Users, Due(i, u)'
        PROVE  <<d, OrganizationOf[u]>> \in secrets \cup r.pairs
    <3>1. u # Root
      BY DocumentsAssumption DEF Identities
    <3>2. PICK y \in {u} \cup {g \in Groups : u \in members[g]} : <<i, ListIntent, y>> \in permissions'
      BY <1>6, <2>2, <3>1 DEF Due, Reads, Permits, TokenOf
    <3>3. <<i, u>> \notin leftOut
      BY <1>6, <2>2 DEF Due
    <3>4. CASE <<i, ListIntent, y>> \in permissions
      <4>1. Due(i, u)
        BY <3>2, <3>3, <3>4 DEF Due, Reads, Permits, TokenOf
      <4>2. QED
        BY <2>1, <4>1 DEF ServedBut
    <3>5. CASE <<i, ListIntent, y>> \notin permissions
      <4>1. y = x
        BY <1>6, <3>2, <3>5
      <4>2. y \in Users => y = u
        BY <3>2, DocumentsAssumption
      <4>3. u \in UsersOf(x)
        BY <3>2, <4>1, <4>2 DEF UsersOf
      <4>4. QED
        BY <2>1, <3>3, <4>3
    <3>6. QED
      BY <3>4, <3>5
  <2>3. ServedBut(i, {}, r.pairs)'
    BY <1>6, <2>1, <2>2 DEF ServedBut
  <2>4. QED
    BY <1>4, <1>6, <1>8, <2>1, <2>3 DEF JobServes, Handing
<1>10. r # NoOne
  <2>1. r \in Job
    BY <1>1, <1>3 DEF Job
  <2>2. QED
    BY <2>1, NoRequestAssumption
<1>11. QED
  BY <1>1, <1>3, <1>4, <1>5, <1>6, <1>7, <1>9, <1>10, GoesOnServing

LEMMA StoreSharedSecretServes ==
    ASSUME IInv, DownloadInv, NEW w \in Workers, StoreSharedSecret(w)
    PROVE  DownloadInv'
<1> TypeOK
  BY DEF IInv
<1>1. job[w] # NoOne /\ job[w].step = "secrets" /\ job[w] \in Job
  BY DEF StoreSharedSecret, At, TypeOK
<1>2. PICK p \in job[w].pairs :
        /\ secrets' = secrets \cup {p}
        /\ job' = [job EXCEPT ![w].pairs = @ \ {p}]
        /\ UNCHANGED <<ids, items, references, permissions, uploaded, members, leftOut, excused>>
  BY DEF StoreSharedSecret, Item, Group
<1>3. PICK i, r, pairs : /\ i = job[w].item /\ r = [job[w] EXCEPT !.pairs = @ \ {p}]
                         /\ pairs = job[w].pairs
  OBVIOUS
<1>4. /\ r.item = i /\ r.step = "secrets" /\ r.pairs = pairs \ {p}
      /\ r.grantee = job[w].grantee /\ job' = [job EXCEPT ![w] = r]
  BY <1>1, <1>2, <1>3 DEF Job
<1>5. i \in Items /\ i \in items'
  BY <1>1, <1>2, <1>3 DEF Job, DownloadInv, ItemsAreFresh
<1>6. Elsewhere({i})
  BY <1>2 DEF Elsewhere
<1>7. ASSUME JobServes(job[w])
      PROVE  JobServes(r)'
  <2>1. /\ ServedBut(i, {}, pairs)
        /\ \A d \in references[i], u \in UsersOf(r.grantee) :
              <<i, u>> \notin leftOut => <<d, OrganizationOf[u]>> \in secrets \cup pairs
    BY <1>1, <1>3, <1>4, <1>7 DEF JobServes
  <2>2. ServedBut(i, {}, pairs \ {p})'
    BY <1>2, <1>5, <2>1, OneLess
  <2>3. UsersOf(r.grantee)' = UsersOf(r.grantee)
    BY <1>2 DEF UsersOf
  <2>4. QED
    BY <1>2, <1>4, <2>1, <2>2, <2>3 DEF JobServes, Handing
<1>8. r # NoOne
  <2>1. r \in Job
    BY <1>1, <1>3 DEF Job
  <2>2. QED
    BY <2>1, NoRequestAssumption
<1>9. QED
  BY <1>1, <1>2, <1>3, <1>4, <1>5, <1>6, <1>7, <1>8, GoesOnServing

(* A step of a handover that grants nothing serves as before.              *)
LEMMA HandsOnServing ==
    ASSUME IInv, DownloadInv, NEW w \in Workers, job[w] # NoOne, NEW i, i = job[w].item,
           job[w].step \in Handing, NEW r, job' = [job EXCEPT ![w] = r],
           r # NoOne => r.item = i /\ r.step \in Handing,
           UNCHANGED <<ids, items, references, uploaded, secrets, members, excused>>,
           leftOut \subseteq leftOut',
           \A k \in Items, n \in Intents, x \in Identities :
                <<k, n, x>> \in permissions' => k = i \/ <<k, n, x>> \in permissions,
           \A u \in Users : Due(i, u)' => Due(i, u)
    PROVE  DownloadInv'
<1> TypeOK
  BY DEF IInv
<1>1. i \in Items /\ i \in items'
  BY DEF TypeOK, Job, DownloadInv, ItemsAreFresh, Handing
<1>2. Elsewhere({i})
  BY DEF Elsewhere
<1>3. ASSUME JobServes(job[w])
      PROVE  IF r = NoOne THEN ServedBut(i, {}, {})' ELSE JobServes(r)'
  <2>1. ServedBut(i, {}, {})
    BY <1>3 DEF JobServes
  <2>2. ServedBut(i, {}, {})'
    BY <1>1, <2>1, StillServed
  <2>3. r # NoOne => ServedBut(r.item, {}, {})'
    BY <2>2 DEF ServedBut, Due, Reads, Permits, TokenOf
  <2>4. r # NoOne => JobServes(r)'
    BY <2>3 DEF JobServes, Handing
  <2>5. QED
    BY <2>2, <2>4
<1>4. QED
  BY <1>1, <1>2, <1>3, GoesOnServing

LEMMA StoreAssignedServes ==
    ASSUME IInv, DownloadInv, NEW w \in Workers,
           StoreAssigned(w) \/ EndHandOver(w) \/ EndWithdraw(w)
    PROVE  DownloadInv'
<1> TypeOK
  BY DEF IInv
<1>1. job[w] # NoOne /\ job[w] \in Job /\ job[w].step \in Handing /\ job[w].item \in Items
  BY DEF StoreAssigned, EndHandOver, EndWithdraw, At, Handing, TypeOK, Job
<1>2. UNCHANGED <<ids, items, references, permissions, uploaded, secrets, members, leftOut, excused>>
  BY DEF StoreAssigned, EndHandOver, EndWithdraw, Item, Announced, Group
<1>3. PICK r : job' = [job EXCEPT ![w] = r] /\ (r # NoOne => r.item = job[w].item /\ r.step \in Handing)
  <2>1. CASE StoreAssigned(w)
    <3>1. PICK r : r = [job[w] EXCEPT !.step = "hand over", !.intents = Intents]
      OBVIOUS
    <3>2. r.item = job[w].item /\ r.step \in Handing
      BY <1>1, <3>1 DEF Job, Handing
    <3>3. job' = [job EXCEPT ![w] = r]
      BY <2>1, <3>1 DEF StoreAssigned
    <3>4. QED
      BY <3>2, <3>3
  <2>2. CASE EndHandOver(w)
    <3>1. PICK ns : ns = IF job[w].grantee = job[w].issuer.id THEN {} ELSE Intents \ {ListIntent}
      OBVIOUS
    <3>2. PICK r : r = [job[w] EXCEPT !.step = "withdraw", !.intents = ns]
      OBVIOUS
    <3>3. r.item = job[w].item /\ r.step \in Handing
      BY <1>1, <3>2 DEF Job, Handing
    <3>4. job' = [job EXCEPT ![w] = r]
      BY <2>2, <3>1, <3>2 DEF EndHandOver
    <3>5. QED
      BY <3>3, <3>4
  <2>3. CASE EndWithdraw(w)
    BY <2>3 DEF EndWithdraw
  <2>4. QED
    BY <2>1, <2>2, <2>3
<1>4. PICK i \in Items : i = job[w].item
  BY <1>1
<1>5. \A u \in Users : Due(i, u)' => Due(i, u)
  BY <1>2, <1>4, DueBefore
<1>6. QED
  BY <1>1, <1>2, <1>3, <1>4, <1>5, HandsOnServing

(* The new readers that come with a handover are left out.                 *)
LEMMA HandOverServes ==
    ASSUME IInv, DownloadInv, NEW w \in Workers, HandOver(w)
    PROVE  DownloadInv'
<1> TypeOK
  BY DEF IInv
<1>1. job[w] # NoOne /\ job[w] \in Job /\ job[w].step \in Handing
  BY DEF HandOver, At, Handing, TypeOK
<1>2. PICK i, x, n, r :
        /\ i = job[w].item /\ x = job[w].grantee /\ n = NextOf(job[w].intents)
        /\ r = [job[w] EXCEPT !.intents = @ \ {n}]
  OBVIOUS
<1>3. r.item = i /\ r.step \in Handing /\ i \in Items
  BY <1>1, <1>2 DEF Job
<1>4. /\ permissions' = permissions \cup {<<i, n, x>>}
      /\ leftOut' = leftOut \cup ({i} \X {u \in UsersOf(x) : ~Reads(i, u)})
      /\ job' = [job EXCEPT ![w] = r]
      /\ UNCHANGED <<ids, items, references, uploaded, secrets, members, excused>>
  BY <1>2 DEF HandOver, Announced, Group
<1>5. ASSUME NEW u \in Users, Due(i, u)'
      PROVE  Due(i, u)
  <2>1. u # Root /\ <<i, u>> \notin leftOut'
    BY <1>5, DocumentsAssumption DEF Identities, Due
  <2>2. PICK y \in {u} \cup {g \in Groups : u \in members[g]} : <<i, ListIntent, y>> \in permissions'
    BY <1>4, <1>5, <2>1 DEF Due, Reads, Permits, TokenOf
  <2>3. CASE <<i, ListIntent, y>> \in permissions
    BY <1>4, <2>1, <2>2, <2>3 DEF Due, Reads, Permits, TokenOf
  <2>4. CASE <<i, ListIntent, y>> \notin permissions
    <3>1. y = x
      BY <1>4, <2>2, <2>4
    <3>2. u \in UsersOf(x)
      BY <2>2, <3>1, DocumentsAssumption DEF UsersOf
    <3>3. Reads(i, u)
      BY <1>4, <2>1, <3>2
    <3>4. QED
      BY <1>4, <2>1, <3>3 DEF Due
  <2>5. QED
    BY <2>3, <2>4
<1>6. \A k \in Items, m \in Intents, y \in Identities :
            <<k, m, y>> \in permissions' => k = i \/ <<k, m, y>> \in permissions
  BY <1>4
<1>7. QED
  BY <1>1, <1>2, <1>3, <1>4, <1>5, <1>6, HandsOnServing

LEMMA WithdrawServes ==
    ASSUME IInv, DownloadInv, NEW w \in Workers, Withdraw(w)
    PROVE  DownloadInv'
<1> TypeOK
  BY DEF IInv
<1>1. job[w] # NoOne /\ job[w] \in Job /\ job[w].step \in Handing
  BY DEF Withdraw, At, Handing, TypeOK
<1>2. PICK i, n, r : /\ i = job[w].item /\ n = NextOf(job[w].intents)
                     /\ r = [job[w] EXCEPT !.intents = @ \ {n}]
  OBVIOUS
<1>3. r.item = i /\ r.step \in Handing /\ i \in Items
  BY <1>1, <1>2 DEF Job
<1>4. /\ permissions' \subseteq permissions /\ job' = [job EXCEPT ![w] = r]
      /\ UNCHANGED <<ids, items, references, uploaded, secrets, members, leftOut, excused>>
  BY <1>2 DEF Withdraw, Announced, Group
<1>5. \A u \in Users : Due(i, u)' => Due(i, u)
  BY <1>3, <1>4, DueBefore
<1>6. QED
  BY <1>1, <1>2, <1>3, <1>4, <1>5, HandsOnServing

(* A request that ends has served, or its item is excused.                 *)
LEMMA EndServes ==
    ASSUME IInv, DownloadInv, NEW w \in Workers,
           EndSharing(w) \/ EndGrant(w) \/ Fail(w)
    PROVE  DownloadInv'
<1> TypeOK
  BY DEF IInv
<1>1. /\ job[w] # NoOne /\ job[w] \in Job /\ job' = [job EXCEPT ![w] = NoOne]
      /\ \/ UNCHANGED excused /\ job[w].step \in {"share", "secrets"} /\ job[w].pairs = {}
         \/ excused' = excused \cup {job[w].item}
      /\ UNCHANGED <<ids, items, references, permissions, uploaded, secrets, members, leftOut>>
  BY DEF EndSharing, EndGrant, Fail, At, TypeOK, Item, Announced, Group
<1>2. PICK i \in Items : i = job[w].item
  BY <1>1 DEF Job
<1>3. Elsewhere({i})
  BY <1>1 DEF Elsewhere
<1>4. ASSUME i \notin excused', JobServes(job[w])
      PROVE  ServedBut(i, {}, {})'
  <2>1. ServedBut(i, {}, {})
    BY <1>1, <1>2, <1>4 DEF JobServes
  <2>2. \A u \in Users : Due(i, u)' => Due(i, u)
    BY <1>1, DueBefore
  <2>3. QED
    BY <1>1, <2>1, <2>2, StillServed
<1>5. \A n \in Intents, x \in Identities : <<i, n, x>> \in permissions' => i \in items'
  BY <1>1 DEF DownloadInv, ItemsAreFresh
<1>6. QED
  BY <1>1, <1>2, <1>3, <1>4, <1>5, GoesOnServing

(* What holds of the request a worker goes on with holds of its job.       *)
LEMMA OfTheWorker ==
    ASSUME NEW v \in Workers, NEW c, c = job'[v], JobServes(c)'
    PROVE  JobServes(job[v])'
BY DEF JobServes, ServedBut, Due, Reads, Permits, TokenOf, UsersOf

(* Steps of no worker: with fewer readers, or new ones who are left out,   *)
(* everyone is served as before.                                           *)
LEMMA OthersServe ==
    ASSUME IInv, DownloadInv, NobodyNew({}), permissions' \subseteq permissions,
           UNCHANGED <<ids, items, references, uploaded, secrets, job, excused>>
    PROVE  DownloadInv'
<1> TypeOK
  BY DEF IInv
<1>1. Elsewhere({})
  BY DEF Elsewhere
<1>2. ItemsAreFresh'
  BY DEF DownloadInv, ItemsAreFresh
<1>3. ASSUME NEW k \in Items, ItemInv(k)
      PROVE  ItemInv(k)'
  <2>1. \A u \in Users : Due(k, u)' => Due(k, u)
    BY DEF NobodyNew
  <2>2. \A v \in Workers : (About(v, k)' <=> About(v, k)) /\ job'[v] = job[v]
    BY DEF About
  <2>3. (\A v \in Workers : ~About(v, k)) => ServedBut(k, {}, {})'
    BY <1>3, <2>1, StillServed DEF ItemInv
  <2>4. ASSUME NEW v \in Workers, About(v, k) PROVE JobServes(job[v])'
    <3>1. PICK c : c = job[v]
      OBVIOUS
    <3>2. JobServes(c) /\ JobTypeOK(c) /\ JobInv(c) /\ c # NoOne
      BY <1>3, <2>4, <3>1, TheJob DEF ItemInv, About
    <3>3. JobServes(c)'
      <4>1. c.item \notin {}
        OBVIOUS
      <4>2. QED
        BY <1>1, <3>1, <3>2, <4>1, OtherServes
    <3>4. c = job'[v]
      BY <3>1
    <3>5. QED
      BY <3>3, <3>4, OfTheWorker
  <2>5. QED
    BY <1>3, <2>2, <2>3, <2>4 DEF ItemInv
<1>4. QED
  BY <1>2, <1>3 DEF DownloadInv

LEMMA RevokePermissionServes ==
    ASSUME IInv, DownloadInv, NEW s \in tokens, RevokePermission(s)
    PROVE  DownloadInv'
<1> TypeOK
  BY DEF IInv
<1>1. /\ permissions' \subseteq permissions
      /\ UNCHANGED <<ids, items, references, uploaded, secrets, job, excused, members, leftOut>>
  BY DEF RevokePermission, Announced, Group
<1>2. Elsewhere({})
  BY <1>1 DEF Elsewhere
<1>3. NobodyNew({})
  BY <1>1, <1>2, SameMembers
<1>4. QED
  BY <1>1, <1>3, OthersServe

LEMMA StutterServes ==
    ASSUME IInv, DownloadInv, UNCHANGED vars
    PROVE  DownloadInv'
<1> TypeOK
  BY DEF IInv
<1>1. UNCHANGED <<ids, items, references, permissions, uploaded, secrets, job, excused, members,
                  leftOut>>
  BY DEF vars, Item, Announced, Group
<1>2. Elsewhere({})
  BY <1>1 DEF Elsewhere
<1>3. NobodyNew({})
  BY <1>1, <1>2, SameMembers
<1>4. QED
  BY <1>1, <1>3, OthersServe

(* Who leaves a group reads no more than before.                           *)
LEMMA RemoveMemberServes ==
    ASSUME IInv, DownloadInv, NEW g \in Groups, NEW v \in Users, RemoveMember(g, v)
    PROVE  DownloadInv'
<1> TypeOK
  BY DEF IInv
<1>1. /\ members' = [members EXCEPT ![g] = @ \ {v}]
      /\ UNCHANGED <<ids, items, references, permissions, uploaded, secrets, job, excused, leftOut>>
  BY DEF RemoveMember, ChangeGroup, Item, Announced
<1>2. \A x \in Groups : members'[x] \subseteq members[x]
  BY <1>1 DEF TypeOK
<1>3. ASSUME NEW k \in Items, NEW u \in Users, Due(k, u)'
      PROVE  Due(k, u)
  <2>1. u # Root
    BY DocumentsAssumption DEF Identities
  <2>2. PICK y \in {u} \cup {x \in Groups : u \in members'[x]} : <<k, ListIntent, y>> \in permissions
    BY <1>1, <1>3, <2>1 DEF Due, Reads, Permits, TokenOf
  <2>3. y \in {u} \cup {x \in Groups : u \in members[x]}
    BY <1>2, <2>2
  <2>4. QED
    BY <1>1, <1>3, <2>1, <2>2, <2>3 DEF Due, Reads, Permits, TokenOf
<1>4. \A x \in Identities : UsersOf(x)' \subseteq UsersOf(x)
  BY <1>2 DEF UsersOf, Identities
<1>5. NobodyNew({})
  BY <1>1, <1>3, <1>4 DEF NobodyNew
<1>6. QED
  BY <1>1, <1>5, OthersServe

(* Who joins a group and may read more than before is left out of it.      *)
LEMMA AddMemberServes ==
    ASSUME IInv, DownloadInv, NEW g \in Groups, NEW v \in Users, AddMember(g, v)
    PROVE  DownloadInv'
<1> TypeOK
  BY DEF IInv
<1>1. /\ members' = [members EXCEPT ![g] = @ \cup {v}]
      /\ leftOut' = leftOut \cup
            {i \in items : /\ ~Reads(i, v)
                           /\ <<i, ListIntent, g>> \in permissions \/ UnderWay(i, g)} \X {v}
      /\ UNCHANGED <<ids, items, references, permissions, uploaded, secrets, job, excused>>
  BY DEF AddMember, ChangeGroup, Item, Announced
<1>2. \A x \in Groups : members'[x] = IF x = g THEN members[x] \cup {v} ELSE members[x]
  BY <1>1 DEF TypeOK
<1>3. \A i \in items : ~Reads(i, v) /\ (<<i, ListIntent, g>> \in permissions \/ UnderWay(i, g)) =>
            <<i, v>> \in leftOut'
  BY <1>1
<1>4. \A k \in Items, u \in Users : <<k, u>> \in leftOut => <<k, u>> \in leftOut'
  BY <1>1
<1>5. ListIntent \in Intents /\ g \in Identities /\ g \notin Users
  BY DocumentsAssumption DEF Identities
<1>6. ASSUME NEW k \in Items, NEW u \in Users, Due(k, u)'
      PROVE  Due(k, u)
  <2>1. u # Root /\ <<k, u>> \notin leftOut'
    BY <1>6, DocumentsAssumption DEF Identities, Due
  <2>2. PICK y \in {u} \cup {x \in Groups : u \in members'[x]} : <<k, ListIntent, y>> \in permissions
    BY <1>1, <1>6, <2>1 DEF Due, Reads, Permits, TokenOf
  <2>3. CASE y \in {u} \cup {x \in Groups : u \in members[x]}
    BY <1>4, <2>1, <2>2, <2>3 DEF Due, Reads, Permits, TokenOf
  <2>4. CASE y \notin {u} \cup {x \in Groups : u \in members[x]}
    <3>1. y = g /\ u = v
      BY <1>2, <2>2, <2>4
    <3>2. k \in items
      BY <1>5, <2>2, <3>1 DEF DownloadInv, ItemsAreFresh
    <3>3. Reads(k, u)
      BY <1>3, <2>1, <2>2, <3>1, <3>2
    <3>4. QED
      BY <1>4, <2>1, <3>3 DEF Due
  <2>5. QED
    BY <2>3, <2>4
<1>7. ASSUME NEW k \in Items, NEW x \in Identities, Granting(k, x),
             NEW u \in UsersOf(x)', <<k, u>> \notin leftOut'
      PROVE  (u \in Users /\ Due(k, u)) \/ (u \in UsersOf(x) /\ <<k, u>> \notin leftOut)
  <2>1. u \in UsersOf(x) \/ (x = g /\ u = v)
    BY <1>2, <1>7 DEF UsersOf, Identities
  <2>2. <<k, u>> \notin leftOut
    BY <1>1, <1>7
  <2>3. ASSUME x = g, u = v
        PROVE  Due(k, u)
    <3>1. UnderWay(k, g) /\ k \in items
      BY <1>7, <2>3 DEF Granting, UnderWay, About, DownloadInv, ItemsAreFresh
    <3>2. Reads(k, v)
      BY <1>3, <1>7, <2>3, <3>1
    <3>3. QED
      BY <2>2, <2>3, <3>2 DEF Due
  <2>4. QED
    BY <2>1, <2>2, <2>3
<1>8. NobodyNew({})
  BY <1>6, <1>7 DEF NobodyNew
<1>9. QED
  BY <1>1, <1>8, OthersServe

LEMMA InitDownloadInv == Init => DownloadInv
BY DEF Init, DownloadInv, ItemsAreFresh, ItemInv, About, ServedBut

LEMMA NextDownloadInv == IInv /\ DownloadInv /\ [Next]_vars => DownloadInv'
<1> SUFFICES ASSUME IInv, DownloadInv, [Next]_vars PROVE DownloadInv'
  OBVIOUS
<1>1. ASSUME NEW w \in Workers, NEW s \in tokens,
             \/ CreateWorkflowitem(w, s) \/ UpdateWorkflowitem(w, s)
             \/ GrantPermission(w, s) \/ AssignRestricted(w, s)
      PROVE  DownloadInv'
  BY <1>1, BeginServes, GrantServes
<1>2. ASSUME NEW w \in Workers, Upload(w)
      PROVE  DownloadInv'
  BY <1>2, UploadServes
<1>3. ASSUME NEW w \in Workers, Store(w)
      PROVE  DownloadInv'
  BY <1>3, StoreWorkflowitemServes, StoreDocumentUploadedServes, StoreSecretPublishedServes,
     EndCreationServes, StoreAssignedServes, HandOverServes, WithdrawServes DEF Store
<1>4. ASSUME NEW w \in Workers, Share(w)
      PROVE  DownloadInv'
  BY <1>4, EndAnnouncingServes, ShareDocumentServes, StorePermissionGrantedServes,
     StoreSharedSecretServes, EndServes DEF Share
<1>5. ASSUME NEW w \in Workers, Fail(w)
      PROVE  DownloadInv'
  BY <1>5, EndServes
<1>6. ASSUME NEW s \in tokens, RevokePermission(s)
      PROVE  DownloadInv'
  BY <1>6, RevokePermissionServes
<1>7. ASSUME NEW g \in Groups, NEW u \in Users, AddMember(g, u) \/ RemoveMember(g, u)
      PROVE  DownloadInv'
  BY <1>7, AddMemberServes, RemoveMemberServes
<1>8. CASE UNCHANGED vars
  BY <1>8, StutterServes
<1>9. QED
  BY <1>1, <1>2, <1>3, <1>4, <1>5, <1>6, <1>7, <1>8 DEF Next

(* Whoever may see a workflowitem can download its documents, whether they *)
(* were uploaded before he got the permission or after it, unless a        *)
(* request for the item is under way, has failed or has met another one,   *)
(* or he is left out: he became a reader as a new member of a group or by  *)
(* the handover of a restricted workflowitem, and has not been granted     *)
(* anything since, and nor has his group.                                  *)
THEOREM ReadersDownload == Spec => []ReadersCanDownload
<1>1. IInv /\ DownloadInv => ReadersCanDownload
  <2> SUFFICES ASSUME IInv, DownloadInv, NEW i \in items \ excused, NEW u \in Users,
                      ~Overlaps(i), Due(i, u), NEW d \in references[i]
               PROVE  Downloadable(u, i, d)
    BY DEF ReadersCanDownload, Due
  <2>1. i \in Items /\ d \in Docs
    BY DEF IInv, TypeOK
  <2>2. ServedBut(i, {}, {})
    BY <2>1 DEF DownloadInv, ItemInv, About, Overlaps
  <2>3. uploaded[d] # NoOne /\ <<d, OrganizationOf[u]>> \in secrets
    BY <2>2 DEF ServedBut
  <2>4. <<d, uploaded[d]>> \in stored
    BY <2>1, <2>3 DEF IInv, TheChainIsRight
  <2>5. QED
    BY <2>3, <2>4 DEF Downloadable, Due
<1>2. Spec => []DownloadInv
  BY InitDownloadInv, InitIInv, NextIInv, NextDownloadInv, PTL DEF Spec
<1>3. QED
  BY <1>1, <1>2, Invariance, PTL
=============================================================================

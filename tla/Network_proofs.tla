--------------------------- MODULE Network_proofs ---------------------------
(***************************************************************************)
(* What an API finds and leaves behind when it starts, wherever it is      *)
(* killed, and what concurrent votes may do, for any number of nodes,      *)
(* organizations, requests and failures.                                   *)
(***************************************************************************)
EXTENDS Network, TLAPS

AfterAddress  == {"register", "public key", "private key", "publish private key",
                  "check public key", "publish public key", "storage", "up"}
AfterRegister == AfterAddress \ {"register"}
Publishing    == {"check public key", "publish public key"}
Generated     == {"publish private key"} \cup Publishing

(* Two APIs of an organization are both in the middle of their start only  *)
(* if it is said of the organization.                                      *)
Single ==
    \A n, m \in Nodes :
        /\ n # m /\ OrganizationOf[n] = OrganizationOf[m]
        /\ pc[n] \in SetUp /\ pc[m] \in SetUp
        => OrganizationOf[n] \in raced

(* What an API relies on at each step of its start.                        *)
AddressInv(n, o) ==
    /\ n \in wallet[n]
    /\ pc[n] = "publish address" => address[o] # n /\ (o \in raced \/ address[o] = None)
    /\ pc[n] \in AfterAddress => address[o] # None /\ (o \in raced \/ address[o] \in wallet[n])
    /\ pc[n] \in AfterRegister => IsRegistered(n)

KeysInv(n, o) ==
    /\ pc[n] = "private key" => o \in raced \/ publicKey[o] = 0
    /\ pc[n] \in Generated => pair[n] # 0
    /\ pc[n] = "publish private key" => o \in raced \/ (privateKey[o] = 0 /\ publicKey[o] = 0)
    /\ pc[n] \in Publishing =>
          privateKey[o] # 0 /\ (o \in raced \/ (privateKey[o] = pair[n] /\ publicKey[o] = 0))
    /\ pc[n] \in {"storage", "up"} => publicKey[o] # 0
    /\ pc[n] = "up" => storageUrl[o] # None

(* An API that exits for half a key pair is not about to be contradicted.  *)
ExitInv(n, o) ==
    /\ pc[n] = "already exists" => o \in raced
    /\ pc[n] = "cannot create public key" =>
          \/ o \in raced
          \/ /\ HalfPublished(o) /\ o \in interrupted
             /\ \A m \in Nodes : OrganizationOf[m] = o => pc[m] \notin Generated

ApiInv(n) ==
    /\ AddressInv(n, OrganizationOf[n]) /\ KeysInv(n, OrganizationOf[n])
    /\ ExitInv(n, OrganizationOf[n])

(* Half a key pair is there while somebody publishes the other half, or    *)
(* since somebody has failed to.                                           *)
OrganizationInv(o) ==
    /\ \A x \in addresses[o] : OrganizationOf[x] = o
    /\ publicKey[o] # 0 => privateKey[o] # 0 /\ (o \in raced \/ privateKey[o] = publicKey[o])
    /\ HalfPublished(o) =>
          \/ o \in raced \/ o \in interrupted
          \/ \E n \in Nodes : OrganizationOf[n] = o /\ pc[n] \in Publishing

StartInv ==
    /\ Single
    /\ \A n \in Nodes : ApiInv(n)
    /\ \A o \in Organizations : OrganizationInv(o)

(* What a request relies on.  An approval has found that its caller has    *)
(* not voted, then that the node has no access, and finds out its vote     *)
(* once more.                                                              *)
VoteInv(r) ==
    /\ r.step = "access" =>
          \/ "grant" \in r.news
          \/ (admin[r.target] = {} => r.caller \notin pendingVotes[r.target])
    /\ r.step = "compute" => "grant" \in r.news \/ r.caller \notin ApprovedBy(r.target)
    /\ r.op = "revoke" => "grant" \in r.news

JobInv(r) ==
    LET o == OrganizationOf[r.node]
    IN  /\ OrganizationOf[r.caller] = o
        /\ r.kind = "approve node" =>
              /\ r.vote = "basic" /\ (o \notin declinedBy[r.target] \/ "decline" \in r.news)
        /\ r.kind = "approve organization" => r.vote = "admin"
        /\ r.kind \in {"approve node", "approve organization"} => VoteInv(r)
        /\ r.kind = "decline" =>
              /\ r.step = "publish"
              /\ r.caller \notin connect[r.target] \/ "grant" \in r.news

JobsInv == \A w \in Workers : \A r \in Job : r = job[w] /\ r # None => JobInv(r)

(* What is to be done is known when it is done, and only then.             *)
OpsInv == \A w \in Workers : job[w] # None => (job[w].op # "no action" <=> job[w].step = "execute")

Typed == TypeOK /\ OpsInv
IInv  == Typed /\ StartInv /\ JobsInv

-----------------------------------------------------------------------------
(* Registering keeps the list of nodes free of duplicates, and forgets     *)
(* nobody.                                                                 *)
LEMMA Registers ==
    ASSUME TypeOK, NEW n \in Nodes
    PROVE  /\ Registered(n) \in Seq(Nodes) /\ IsInjective(Registered(n))
           /\ Contains(Registered(n), n)
           /\ \A m \in Nodes : IsRegistered(m) => Contains(Registered(n), m)
<1>1. CASE IsRegistered(n)
  BY <1>1 DEF TypeOK, Registered, IsRegistered
<1>2. CASE ~IsRegistered(n)
  <2>1. /\ registered \in Seq(Nodes) /\ IsInjective(registered)
        /\ Registered(n) = Append(registered, n)
        /\ \A i \in 1 .. Len(registered) : registered[i] # n
    BY <1>2 DEF TypeOK, Registered, IsRegistered, Contains
  <2>2. QED
    BY <2>1 DEF IsInjective, Contains, IsRegistered
<1>3. QED
  BY <1>1, <1>2

LEMMA Counts ==
    /\ \A max \in Nat : \A x \in 0 .. max : x < max => x + 1 \in 0 .. max
    /\ \A x \in Nat : x + 1 # 0
OBVIOUS

LEMMA StartTypes ==
    ASSUME TypeOK, NEW n \in Nodes,
           Start(n) \/ RegisterNode(n) \/ StepFails(n) \/ Kill(n)
    PROVE  TypeOK'
<1> DEFINE o == OrganizationOf[n]
<1>1. /\ o \in Organizations /\ pc \in [Nodes -> Steps] /\ wallet \in [Nodes -> SUBSET Nodes]
      /\ pair \in [Nodes -> Nat] /\ generated \in Nat /\ raced \subseteq Organizations
      /\ address \in [Organizations -> Nodes \cup {None}]
      /\ privateKey \in [Organizations -> Nat] /\ publicKey \in [Organizations -> Nat]
      /\ storageUrl \in [Organizations -> Nodes \cup {None}]
      /\ job \in [Workers -> Job \cup {None}] /\ interrupted \subseteq Organizations
      /\ addresses \in [Organizations -> SUBSET Nodes]
  BY NetworkAssumption DEF TypeOK
<1>2. \A to \in Steps : Goto(n, to) => pc' \in [Nodes -> Steps]
  BY <1>1 DEF Goto
<1>3. failures < MaxFailures /\ failures' = failures + 1 => failures' \in 0 .. MaxFailures
  BY Counts, NetworkAssumption DEF TypeOK
<1> HIDE DEF o
<1>4. CASE UNCHANGED set /\ UNCHANGED <<onChain, job, requests, failures, raced, interrupted>>
           /\ \E to \in Steps : Goto(n, to)
  BY <1>2, <1>4 DEF TypeOK, set, onChain
<1>5. CASE \/ NoAddress(n) \/ PublicKeyFound(n) \/ NoPublicKey(n) \/ CannotCreatePublicKey(n)
           \/ PrivateKeyExists(n) \/ PublicKeyExists(n) \/ NoPublicKeyYet(n)
  <2>1. \E to \in {"publish address", "storage", "private key", "cannot create public key",
                   "already exists", "publish public key"} : Goto(n, to)
    BY <1>5 DEF NoAddress, PublicKeyFound, NoPublicKey, CannotCreatePublicKey, PrivateKeyExists,
                PublicKeyExists, NoPublicKeyYet, Step
  <2>2. UNCHANGED set /\ UNCHANGED <<onChain, job, requests, failures, raced, interrupted>>
    BY <1>5 DEF NoAddress, PublicKeyFound, NoPublicKey, CannotCreatePublicKey, PrivateKeyExists,
                PublicKeyExists, NoPublicKeyYet, Step
  <2>3. QED
    BY <1>4, <2>1, <2>2 DEF Steps, SetUp, Exited
<1>6. CASE BecomeReady(n)
  <2>1. Goto(n, "address") /\ raced' \subseteq Organizations
    BY <1>1, <1>6 DEF BecomeReady, Step, o
  <2>2. pc' \in [Nodes -> Steps]
    BY <1>2, <2>1 DEF Steps, SetUp
  <2>3. QED
    BY <1>6, <2>1, <2>2 DEF TypeOK, BecomeReady, Step, set, onChain
<1>7. CASE ImportAddress(n)
  <2>1. Imported(n) \in SUBSET Nodes
    BY <1>1, <1>7 DEF ImportAddress, Imported, AddressFromStream, o
  <2>2. wallet' \in [Nodes -> SUBSET Nodes]
    BY <1>1, <1>7, <2>1 DEF ImportAddress
  <2>3. pc' \in [Nodes -> Steps]
    BY <1>2, <1>7 DEF ImportAddress, Step, Steps, SetUp
  <2>4. QED
    BY <1>7, <2>2, <2>3 DEF TypeOK, ImportAddress, Step, onChain
<1>8. CASE PublishAddress(n)
  <2>1. /\ address' \in [Organizations -> Nodes \cup {None}]
        /\ addresses' \in [Organizations -> SUBSET Nodes]
    BY <1>1, <1>8 DEF PublishAddress, o
  <2>2. pc' \in [Nodes -> Steps]
    BY <1>2, <1>8 DEF PublishAddress, Step, Steps, SetUp
  <2>3. QED
    BY <1>8, <2>1, <2>2 DEF TypeOK, PublishAddress, Step, onChain
<1>9. CASE RegisterSelf(n) \/ RegisterNode(n)
  <2>1. registered' \in Seq(Nodes) /\ IsInjective(registered)'
    BY <1>9, Registers DEF RegisterSelf, RegisterNode
  <2>2. pc' \in [Nodes -> Steps]
    BY <1>1, <1>2, <1>9 DEF RegisterSelf, RegisterNode, Steps, SetUp
  <2>3. QED
    BY <1>9, <2>1, <2>2 DEF TypeOK, RegisterSelf, RegisterNode, set
<1>10. CASE GenerateKeyPair(n)
  <2>4. generated + 1 \in Nat
    BY <1>1
  <2>1. pair' \in [Nodes -> Nat] /\ generated' \in Nat
    BY <1>1, <1>10, <2>4 DEF GenerateKeyPair
  <2>2. pc' \in [Nodes -> Steps]
    BY <1>2, <1>10 DEF GenerateKeyPair, Step, Steps, SetUp, PublishedFirst
  <2>3. QED
    BY <1>10, <2>1, <2>2 DEF TypeOK, GenerateKeyPair, Step, onChain
<1>11. CASE PublishPrivateKey(n)
  <2>1. privateKey' \in [Organizations -> Nat]
    BY <1>1, <1>11 DEF PublishPrivateKey, o
  <2>2. pc' \in [Nodes -> Steps]
    BY <1>2, <1>11 DEF PublishPrivateKey, Step, Steps, SetUp
  <2>3. QED
    BY <1>11, <2>1, <2>2 DEF TypeOK, PublishPrivateKey, Step, onChain
<1>12. CASE PublishPublicKey(n)
  <2>1. publicKey' \in [Organizations -> Nat]
    BY <1>1, <1>12 DEF PublishPublicKey, o
  <2>2. pc' \in [Nodes -> Steps]
    BY <1>2, <1>12 DEF PublishPublicKey, Step, Steps, SetUp
  <2>3. QED
    BY <1>12, <2>1, <2>2 DEF TypeOK, PublishPublicKey, Step, onChain
<1>13. CASE PublishStorageUrl(n)
  <2>1. storageUrl' \in [Organizations -> Nodes \cup {None}]
    BY <1>1, <1>13 DEF PublishStorageUrl, o
  <2>2. pc' \in [Nodes -> Steps]
    BY <1>2, <1>13 DEF PublishStorageUrl, Step, Steps
  <2>3. QED
    BY <1>13, <2>1, <2>2 DEF TypeOK, PublishStorageUrl, Step, onChain
<1>14. CASE StepFails(n) \/ Refused(n)
  <2>1. \E to \in {"address", "register", "failed"} : Goto(n, to)
    BY <1>14 DEF StepFails, Refused, AfterError
  <2>2. pc' \in [Nodes -> Steps]
    BY <1>2, <2>1 DEF Steps, SetUp, Exited
  <2>3. failures' \in 0 .. MaxFailures
    BY <1>3, <1>14 DEF StepFails, Refused, TypeOK
  <2>4. interrupted' \subseteq Organizations
    BY <1>1, <1>14 DEF StepFails, Refused, Interrupts, o
  <2>5. QED
    BY <1>14, <2>2, <2>3, <2>4 DEF TypeOK, StepFails, Refused, set, onChain
<1>15. CASE Kill(n) \/ Restart(n)
  <2>1. pc' \in [Nodes -> Steps]
    BY <1>2, <1>15 DEF Kill, Restart, Steps
  <2>2. failures' \in 0 .. MaxFailures
    BY <1>3, <1>15 DEF Kill, Restart, TypeOK
  <2>3. job' \in [Workers -> Job \cup {None}]
    BY <1>1, <1>15 DEF Kill, Restart, WithoutThoseOf
  <2>4. interrupted' \subseteq Organizations
    BY <1>1, <1>15 DEF Kill, Restart, Interrupts, o
  <2>5. QED
    BY <1>15, <2>1, <2>2, <2>3, <2>4 DEF TypeOK, Kill, Restart, set, onChain
<1>16. QED
  BY <1>5, <1>6, <1>7, <1>8, <1>9, <1>10, <1>11, <1>12, <1>13, <1>14, <1>15 DEF Start

LEMMA GrantTypes ==
    ASSUME TypeOK, NEW c \in Nodes, NEW t \in Nodes, NEW all \in BOOLEAN,
           GrantFrom(c, t, all) \/ RevokeFrom(c, t, all)
    PROVE  /\ connect' \in [Nodes -> SUBSET Nodes] /\ admin' \in [Nodes -> SUBSET Nodes]
           /\ pendingVotes' \in [Nodes -> SUBSET Nodes]
<1> DEFINE votes == pendingVotes[t] \cup {c}
           fewer == pendingVotes[t] \ {c}
           more == admin[t] \cup {c}
           given == connect[t] \cup {c}
<1>1. /\ connect \in [Nodes -> SUBSET Nodes] /\ admin \in [Nodes -> SUBSET Nodes]
      /\ pendingVotes \in [Nodes -> SUBSET Nodes]
  BY DEF TypeOK
<1>2. /\ votes \in SUBSET Nodes /\ fewer \in SUBSET Nodes /\ more \in SUBSET Nodes
      /\ given \in SUBSET Nodes /\ {} \in SUBSET Nodes
  BY <1>1
<1>3. \E X \in {given, {}, connect[t]} : connect' = [connect EXCEPT ![t] = X]
  BY <1>1 DEF GrantFrom, RevokeFrom
<1>4. /\ \/ UNCHANGED admin \/ \E X \in {votes, {}, more} : admin' = [admin EXCEPT ![t] = X]
      /\ \/ UNCHANGED pendingVotes
         \/ \E X \in {votes, {}, fewer} : pendingVotes' = [pendingVotes EXCEPT ![t] = X]
  <2>1. CASE GrantFrom(c, t, all)
    BY <2>1, Zenon DEF GrantFrom
  <2>2. CASE RevokeFrom(c, t, all)
    BY <2>2, Zenon DEF RevokeFrom
  <2>3. QED
    BY <2>1, <2>2
<1> HIDE DEF votes, fewer, more, given
<1>5. QED
  BY <1>1, <1>2, <1>3, <1>4

Kinds == {"approve node", "approve organization", "vote", "decline"}

LEMMA Begins ==
    ASSUME NEW w \in Workers, NEW n \in Nodes, Request(w, n)
    PROVE  \E t \in Nodes, kind \in Kinds, vote \in Votes, step \in {"vote", "compute", "publish"} :
              Begin(w, n, t, kind, vote, step)
BY Zenon DEF Request, ApproveNewNode, ApproveNewOrganization, VoteForPermission, DeclineNode,
             Votes, Kinds

LEMMA RequestTypes ==
    ASSUME TypeOK, NEW w \in Workers, NEW n \in Nodes, Request(w, n)
    PROVE  TypeOK'
<1>1. PICK t \in Nodes, kind \in Kinds, vote \in Votes, step \in {"vote", "compute", "publish"} :
        Begin(w, n, t, kind, vote, step)
  BY Begins
<1>2. PICK r \in Job : job' = [job EXCEPT ![w] = r]
  <2>1. PICK caller \in addresses[OrganizationOf[n]] : job' = [job EXCEPT ![w] =
            [node |-> n, caller |-> caller, target |-> t, kind |-> kind, vote |-> vote,
             step |-> step, op |-> "no action", all |-> FALSE, news |-> {}]]
    BY <1>1 DEF Begin
  <2>2. caller \in Nodes
    BY NetworkAssumption DEF TypeOK
  <2>3. [node |-> n, caller |-> caller, target |-> t, kind |-> kind, vote |-> vote,
         step |-> step, op |-> "no action", all |-> FALSE, news |-> {}] \in Job
    BY <2>2 DEF Job, Kinds
  <2>4. QED
    BY <2>1, <2>3
<1>3. job' \in [Workers -> Job \cup {None}]
  BY <1>2 DEF TypeOK
<1>4. requests' \in 0 .. MaxRequests
  <2>1. requests \in 0 .. MaxRequests /\ MaxRequests \in Nat
    BY NetworkAssumption DEF TypeOK
  <2>2. requests < MaxRequests /\ requests' = requests + 1
    BY <1>1, Zenon DEF Begin, Idle
  <2>3. QED
    BY <2>1, <2>2, Counts
<1>5. QED
  BY <1>1, <1>3, <1>4 DEF TypeOK, Begin, onChain, set

(* What a vote finds out and does next.                                    *)
LEMMA WhatToDoTypes ==
    \A current, next :
        /\ ComputeWhatToDo(current, next).op \in {"no action", "grant", "revoke"}
        /\ ComputeWhatToDo(current, next).all \in BOOLEAN
BY DEF ComputeWhatToDo

LEMMA FinishTypes ==
    ASSUME TypeOK, NEW w \in Workers, NEW done \in {"grant", "revoke", "decline"},
           Finish(w, done)
    PROVE  job' \in [Workers -> Job \cup {None}]
<1>1. job \in [Workers -> Job \cup {None}]
  BY DEF TypeOK
<1>2. \A r \in Job : [r EXCEPT !.news = @ \cup {done}] \in Job
  BY DEF Job
<1>3. QED
  BY <1>1, <1>2 DEF Finish

LEMMA HandleTypes ==
    ASSUME Typed, NEW w \in Workers, Handle(w)
    PROVE  TypeOK'
<1>1. TypeOK /\ job \in [Workers -> Job \cup {None}]
  BY DEF Typed, TypeOK
<1>2. job[w] \in Job
  BY <1>1 DEF Handle, CheckVote, CheckAccess, Compute, Execute, PublishDeclined, At
<1>3. CASE CheckVote(w) \/ CheckAccess(w)
  <2>1. \A step \in {"access", "compute"} : [job[w] EXCEPT !.step = step] \in Job
    BY <1>2 DEF Job
  <2>2. job' \in [Workers -> Job \cup {None}]
    BY <1>1, <1>3, <2>1 DEF CheckVote, CheckAccess
  <2>3. QED
    BY <1>1, <1>3, <2>2 DEF TypeOK, CheckVote, CheckAccess, onChain, set
<1>4. CASE Compute(w)
  <2>1. PICK todo : /\ todo = ComputeWhatToDo(GetCurrentVote(job[w].caller, job[w].target),
                                               job[w].vote)
                    /\ job' = [job EXCEPT ![w] =
                          IF todo.op = "no action" THEN None
                          ELSE [job[w] EXCEPT !.step = "execute", !.op = todo.op, !.all = todo.all]]
    BY <1>4 DEF Compute
  <2>2. todo.op \in {"no action", "grant", "revoke"} /\ todo.all \in BOOLEAN
    BY <2>1, WhatToDoTypes
  <2>3. [job[w] EXCEPT !.step = "execute", !.op = todo.op, !.all = todo.all] \in Job
    BY <1>2, <2>2 DEF Job
  <2>4. job' \in [Workers -> Job \cup {None}]
    BY <1>1, <2>1, <2>3
  <2>5. QED
    BY <1>1, <1>4, <2>4 DEF TypeOK, Compute, onChain, set
<1>5. CASE Execute(w)
  <2>1. /\ job[w].op \in {"grant", "revoke"} /\ job[w].all \in BOOLEAN
        /\ job[w].target \in Nodes /\ job[w].caller \in Nodes
    BY <1>2, <1>5 DEF Typed, OpsInv, Execute, At, Job
  <2>2. /\ Finish(w, job[w].op)
        /\ UNCHANGED <<pc, registered, declinedBy, set, raced, interrupted, requests, failures>>
    BY <1>5, Zenon DEF Execute
  <2>3. \/ UNCHANGED <<connect, admin, pendingVotes>>
        \/ GrantFrom(job[w].caller, job[w].target, job[w].all)
        \/ RevokeFrom(job[w].caller, job[w].target, job[w].all)
    BY <1>5, Zenon DEF Execute
  <2>4. \/ UNCHANGED <<connect, admin, pendingVotes>>
        \/ /\ connect' \in [Nodes -> SUBSET Nodes] /\ admin' \in [Nodes -> SUBSET Nodes]
           /\ pendingVotes' \in [Nodes -> SUBSET Nodes]
    BY <2>1, <2>3, GrantTypes DEF Typed
  <2>5. job' \in [Workers -> Job \cup {None}]
    BY <2>1, <2>2, FinishTypes DEF Typed
  <2>6. QED
    BY <2>2, <2>4, <2>5 DEF Typed, TypeOK, set
<1>6. CASE PublishDeclined(w)
  <2>1. job' \in [Workers -> Job \cup {None}]
    BY <1>6, <1>1, FinishTypes DEF PublishDeclined
  <2>2. job[w].target \in Nodes /\ OrganizationOf[job[w].node] \in Organizations
    BY <1>2, NetworkAssumption DEF Job
  <2>3. declinedBy' \in [Nodes -> SUBSET Organizations]
    BY <1>1, <1>6, <2>2 DEF TypeOK, PublishDeclined
  <2>4. QED
    BY <1>1, <1>6, <2>1, <2>3 DEF TypeOK, PublishDeclined, set
<1>7. QED
  BY <1>3, <1>4, <1>5, <1>6 DEF Handle

LEMMA InitTypes == Init => Typed
<1>1. SUFFICES ASSUME Init PROVE Typed
  OBVIOUS
<1>2. registered \in Seq(Nodes) /\ IsInjective(registered)
  BY <1>1 DEF Init, IsInjective
<1>3. connect \in [Nodes -> SUBSET Nodes] /\ admin \in [Nodes -> SUBSET Nodes]
  BY <1>1, NetworkAssumption DEF Init
<1>4. requests \in 0 .. MaxRequests /\ failures \in 0 .. MaxFailures
  BY <1>1, NetworkAssumption DEF Init
<1>5. TypeOK
  BY <1>1, <1>2, <1>3, <1>4 DEF Init, TypeOK, Steps
<1>6. QED
  BY <1>1, <1>5 DEF Init, Typed, OpsInv

LEMMA OpsAreKnown ==
    ASSUME Typed, Next
    PROVE  OpsInv'
<1> USE DEF OpsInv
<1>1. /\ job \in [Workers -> Job \cup {None}]
      /\ \A w \in Workers : job[w] # None => (job[w].op # "no action" <=> job[w].step = "execute")
  BY DEF Typed, TypeOK
<1>2. ASSUME NEW n \in Nodes, Start(n) \/ RegisterNode(n) \/ StepFails(n) \/ Kill(n)
      PROVE  OpsInv'
  <2>1. \A w \in Workers : job'[w] = job[w] \/ job'[w] = None
    <3>1. CASE Kill(n) \/ Restart(n)
      BY <3>1 DEF Kill, Restart, WithoutThoseOf
    <3>2. CASE ~(Kill(n) \/ Restart(n))
      BY <1>2, <3>2 DEF Start, BecomeReady, ImportAddress, NoAddress, PublishAddress, RegisterSelf,
         PublicKeyFound, NoPublicKey, CannotCreatePublicKey, GenerateKeyPair, PrivateKeyExists,
         PublishPrivateKey, PublicKeyExists, NoPublicKeyYet, PublishPublicKey, PublishStorageUrl,
         Refused, RegisterNode, StepFails, Step
    <3>3. QED
      BY <3>1, <3>2
  <2>2. QED
    BY <1>1, <2>1
<1>3. ASSUME NEW w \in Workers, NEW n \in Nodes, Request(w, n)
      PROVE  OpsInv'
  <2>1. PICK t \in Nodes, kind \in Kinds, vote \in Votes, step \in {"vote", "compute", "publish"} :
          Begin(w, n, t, kind, vote, step)
    BY <1>3, Begins
  <2>2. PICK new : new.op = "no action" /\ new.step # "execute" /\ job' = [job EXCEPT ![w] = new]
    BY <2>1 DEF Begin
  <2>3. \A v \in Workers : job'[v] = IF v = w THEN new ELSE job[v]
    BY <1>1, <2>2
  <2>4. QED
    BY <1>1, <2>2, <2>3
<1>4. ASSUME NEW w \in Workers, Handle(w)
      PROVE  OpsInv'
  <2>1. job[w] \in Job
    BY <1>1, <1>4 DEF Handle, CheckVote, CheckAccess, Compute, Execute, PublishDeclined, At
  <2>2. CASE CheckVote(w) \/ CheckAccess(w)
    <3>1. job[w].op = "no action"
      BY <1>1, <2>1, <2>2 DEF CheckVote, CheckAccess, At
    <3>2. \A step \in {"access", "compute"} :
            /\ [job[w] EXCEPT !.step = step].op = "no action"
            /\ [job[w] EXCEPT !.step = step].step # "execute"
      BY <2>1, <3>1 DEF Job
    <3>3. PICK r : job' = [job EXCEPT ![w] = r] /\ (r # None => r.op = "no action" /\ r.step # "execute")
      BY <2>2, <3>2 DEF CheckVote, CheckAccess
    <3>4. QED
      BY <1>1, <3>3
  <2>3. CASE Compute(w)
    <3>1. PICK todo : job' = [job EXCEPT ![w] =
                IF todo.op = "no action" THEN None
                ELSE [job[w] EXCEPT !.step = "execute", !.op = todo.op, !.all = todo.all]]
      BY <2>3 DEF Compute
    <3>2. LET r == [job[w] EXCEPT !.step = "execute", !.op = todo.op, !.all = todo.all]
          IN  r.op = todo.op /\ r.step = "execute"
      BY <2>1 DEF Job
    <3>3. PICK r : job' = [job EXCEPT ![w] = r] /\ (r # None => r.op # "no action" /\ r.step = "execute")
      BY <3>1, <3>2
    <3>4. QED
      BY <1>1, <3>3
  <2>4. CASE Execute(w) \/ PublishDeclined(w)
    <3>1. PICK done : Finish(w, done)
      BY <2>4, Zenon DEF Execute, PublishDeclined
    <3>2. QED
      BY <1>1, <3>1 DEF Finish, Job
  <2>5. QED
    BY <1>4, <2>2, <2>3, <2>4 DEF Handle
<1>5. QED
  BY <1>2, <1>3, <1>4 DEF Next

LEMMA StepTypes == Typed /\ [Next]_vars => Typed'
<1>1. SUFFICES ASSUME Typed, [Next]_vars PROVE Typed'
  OBVIOUS
<1>2. CASE Next
  <2>1. TypeOK'
    BY <1>1, <1>2, StartTypes, RequestTypes, HandleTypes DEF Next, Typed
  <2>2. QED
    BY <1>1, <1>2, <2>1, OpsAreKnown DEF Typed
<1>3. CASE UNCHANGED vars
  BY <1>1, <1>3 DEF vars, onChain, set, Typed, TypeOK, OpsInv
<1>4. QED
  BY <1>1, <1>2, <1>3

(* The types, for any nodes, organizations, requests and failures; no node *)
(* is registered twice.                                                    *)
THEOREM TypeCorrect == Spec => []TypeOK
<1>1. Typed => TypeOK
  BY DEF Typed
<1>2. QED
  BY InitTypes, StepTypes, <1>1, PTL DEF Spec

-----------------------------------------------------------------------------
(* One API that is in the middle of its start takes a step.  What the      *)
(* others and the other organizations rely on, the step keeps.             *)
Keeps(n, o) ==
    /\ \A m \in Nodes \ {n} : pair'[m] = pair[m] /\ wallet'[m] = wallet[m]
    /\ \A q \in Organizations \ {o} :
          /\ address'[q] = address[q] /\ addresses'[q] = addresses[q]
          /\ privateKey'[q] = privateKey[q]
          /\ publicKey'[q] = publicKey[q] /\ storageUrl'[q] = storageUrl[q]
    /\ address'[o] # address[o] => address'[o] = n /\ (o \in raced \/ address[o] = None)
    /\ privateKey'[o] # privateKey[o] => pc[n] \in Generated /\ privateKey'[o] # 0
    /\ publicKey'[o] # publicKey[o] => pc[n] \in Generated /\ publicKey'[o] # 0
    /\ pc'[n] \in Generated => pc[n] \in Generated \/ privateKey[o] = 0
    /\ storageUrl[o] # None => storageUrl'[o] # None
    /\ \A m \in Nodes : IsRegistered(m) => IsRegistered(m)'
    /\ interrupted \subseteq interrupted'

LEMMA StartStep ==
    ASSUME Typed, StartInv, NEW n \in Nodes, NEW o \in Organizations, o = OrganizationOf[n],
           pc[n] \in SetUp, NEW to \in Steps, Goto(n, to), UNCHANGED raced, Keeps(n, o),
           ApiInv(n)', OrganizationInv(o)'
    PROVE  StartInv'
<1>1. /\ pc \in [Nodes -> Steps] /\ OrganizationOf \in [Nodes -> Organizations]
      /\ None \notin Nodes
  BY NetworkAssumption DEF Typed, TypeOK
<1>2. pc'[n] = to /\ \A m \in Nodes \ {n} : pc'[m] = pc[m]
  BY <1>1 DEF Goto
<1>3. interrupted \subseteq interrupted'
  BY DEF Keeps
<1>4. Single'
  BY <1>2 DEF StartInv, Single
<1>5. ASSUME NEW m \in Nodes \ {n}
      PROVE  ApiInv(m)'
  <2> DEFINE q == OrganizationOf[m]
  <2>1. q \in Organizations /\ ApiInv(m)
    BY <1>1 DEF StartInv
  <2>2. CASE q # o
    <3>1. AddressInv(m, q)' /\ KeysInv(m, q)'
      BY <1>2, <2>1, <2>2 DEF Keeps, ApiInv, AddressInv, KeysInv
    <3>2. ExitInv(m, q)'
      BY <1>2, <1>3, <2>1, <2>2 DEF Keeps, ApiInv, ExitInv, HalfPublished
    <3>3. QED
      BY <3>1, <3>2 DEF ApiInv
  <2>3. CASE q = o
    <3>1. o \in raced \/ pc[m] \notin SetUp
      BY <2>3 DEF StartInv, Single
    <3>2. AddressInv(m, o)'
      <4>1. AddressInv(m, o) /\ pc'[m] = pc[m] /\ wallet'[m] = wallet[m]
        BY <1>2, <2>1, <2>3 DEF Keeps, ApiInv
      <4>2. /\ address'[o] # address[o] => address'[o] = n /\ (o \in raced \/ address[o] = None)
            /\ IsRegistered(m) => IsRegistered(m)'
        BY DEF Keeps
      <4>3. pc[m] = "publish address" => pc[m] \in SetUp
        BY DEF SetUp
      <4>4. QED
        BY <1>1, <3>1, <4>1, <4>2, <4>3 DEF AddressInv
    <3>3. KeysInv(m, o)'
      <4>1. KeysInv(m, o) /\ pc'[m] = pc[m] /\ pair'[m] = pair[m]
        BY <1>2, <2>1, <2>3 DEF Keeps, ApiInv
      <4>2. /\ privateKey[o] # 0 => privateKey'[o] # 0
            /\ publicKey[o] # 0 => publicKey'[o] # 0
            /\ storageUrl[o] # None => storageUrl'[o] # None
        BY DEF Keeps
      <4>3. CASE o \in raced
        BY <4>1, <4>2, <4>3 DEF KeysInv
      <4>4. CASE pc[m] \notin SetUp
        BY <4>1, <4>2, <4>4 DEF KeysInv, SetUp, Generated, Publishing
      <4>5. QED
        BY <3>1, <4>3, <4>4
    <3>4. ExitInv(m, o)'
      <4>1. CASE o \in raced
        BY <4>1 DEF ExitInv
      <4>2. CASE o \notin raced /\ pc[m] = "cannot create public key"
        <5>1. /\ HalfPublished(o) /\ o \in interrupted
              /\ \A x \in Nodes : OrganizationOf[x] = o => pc[x] \notin Generated
          BY <2>1, <2>3, <4>2 DEF ApiInv, ExitInv
        <5>2. HalfPublished(o)' /\ pc'[n] \notin Generated
          BY <5>1 DEF Keeps, HalfPublished
        <5>3. QED
          BY <1>2, <1>3, <4>2, <5>1, <5>2 DEF ExitInv
      <4>3. CASE o \notin raced /\ pc[m] # "cannot create public key"
        BY <1>2, <2>1, <2>3, <4>3 DEF ApiInv, ExitInv
      <4>4. QED
        BY <4>1, <4>2, <4>3
    <3>5. QED
      BY <2>3, <3>2, <3>3, <3>4 DEF ApiInv
  <2>4. QED
    BY <2>2, <2>3
<1>6. ASSUME NEW q \in Organizations \ {o}
      PROVE  OrganizationInv(q)'
  <2>1. OrganizationInv(q)
    BY DEF StartInv
  <2>2. /\ \A x \in addresses[q] : OrganizationOf[x] = q
        /\ addresses'[q] = addresses[q] /\ privateKey'[q] = privateKey[q] /\ publicKey'[q] = publicKey[q]
        /\ publicKey[q] # 0 => privateKey[q] # 0 /\ (q \in raced \/ privateKey[q] = publicKey[q])
    BY <2>1 DEF OrganizationInv, Keeps
  <2>3. HalfPublished(q)' =>
          \/ q \in raced \/ q \in interrupted'
          \/ \E x \in Nodes : OrganizationOf[x] = q /\ pc'[x] \in Publishing
    BY <1>2, <1>3, <2>1, <2>2 DEF OrganizationInv, HalfPublished
  <2>4. QED
    BY <2>2, <2>3 DEF OrganizationInv
<1>7. QED
  BY <1>4, <1>5, <1>6 DEF StartInv

(* Most steps only find out something.                                     *)
LEMMA Moves ==
    ASSUME Typed, StartInv, NEW n \in Nodes, NEW o \in Organizations, o = OrganizationOf[n],
           pc[n] \in SetUp, NEW to \in Steps, Goto(n, to),
           UNCHANGED raced, UNCHANGED set, UNCHANGED registered,
           interrupted \subseteq interrupted',
           to \in Generated => pc[n] \in Generated,
           pc[n] \in Publishing /\ to \notin Publishing =>
                publicKey[o] # 0 \/ o \in interrupted' \/ o \in raced,
           ApiInv(n)'
    PROVE  StartInv'
<1>1. pc \in [Nodes -> Steps]
  BY NetworkAssumption DEF Typed, TypeOK
<1>2. pc'[n] = to /\ \A m \in Nodes \ {n} : pc'[m] = pc[m]
  BY <1>1 DEF Goto
<1>3. Keeps(n, o)
  BY <1>2 DEF Keeps, set, IsRegistered
<1>4. OrganizationInv(o)'
  <2>1. OrganizationInv(o)
    BY DEF StartInv
  <2>2. HalfPublished(o)' =>
          \/ o \in raced \/ o \in interrupted'
          \/ \E x \in Nodes : OrganizationOf[x] = o /\ pc'[x] \in Publishing
    BY <1>1, <1>2, <2>1 DEF OrganizationInv, HalfPublished, set
  <2>3. QED
    BY <2>1, <2>2 DEF OrganizationInv, set
<1>5. QED
  BY <1>3, <1>4, StartStep

(* What an API finds in what it relies on, at a step of its start.         *)
LEMMA Relies ==
    ASSUME Typed, StartInv, NEW n \in Nodes, NEW o \in Organizations, o = OrganizationOf[n]
    PROVE  /\ pc \in [Nodes -> Steps]
           /\ AddressInv(n, o) /\ KeysInv(n, o) /\ ExitInv(n, o) /\ OrganizationInv(o)
BY DEF Typed, TypeOK, StartInv, ApiInv

LEMMA Finds ==
    ASSUME Typed, StartInv, NEW n \in Nodes, NEW o \in Organizations, o = OrganizationOf[n],
           \/ NoAddress(n) \/ PublicKeyFound(n) \/ NoPublicKey(n) \/ PrivateKeyExists(n)
           \/ PublicKeyExists(n) \/ NoPublicKeyYet(n)
    PROVE  StartInv'
<1>1. /\ pc \in [Nodes -> Steps]
      /\ AddressInv(n, o) /\ KeysInv(n, o) /\ OrganizationInv(o)
  BY Relies
<1>2. PICK to \in Steps : /\ Goto(n, to) /\ pc'[n] = to /\ pc[n] \in SetUp
                          /\ UNCHANGED <<raced, interrupted, set, registered>>
                          /\ to \in Generated => pc[n] \in Generated
                          /\ pc[n] \in Publishing /\ to \notin Publishing => publicKey[o] # 0
  BY <1>1 DEF NoAddress, PublicKeyFound, NoPublicKey, PrivateKeyExists, PublicKeyExists, NoPublicKeyYet,
              Step, Goto, Steps, SetUp, Exited, Generated, Publishing, onChain, PublicKeyMissing
<1>3. None \notin Nodes
  BY NetworkAssumption
<1>10. ApiInv(n)' => StartInv'
  BY <1>1, <1>2, Moves
<1>4. CASE NoAddress(n)
  <2>1. pc[n] = "address" /\ Goto(n, "publish address") /\ address[o] = None
    BY <1>4 DEF NoAddress, Step
  <2>2. pc'[n] = "publish address"
    BY <1>1, <2>1 DEF Goto
  <2>3. AddressInv(n, o)' /\ KeysInv(n, o)' /\ ExitInv(n, o)'
    BY <1>1, <1>2, <1>3, <2>1, <2>2 DEF AddressInv, KeysInv, ExitInv, set, IsRegistered,
       AfterAddress, AfterRegister, Generated, Publishing
  <2>4. QED
    BY <1>10, <2>3 DEF ApiInv
<1>5. CASE PublicKeyFound(n)
  <2>1. pc[n] = "public key" /\ Goto(n, "storage") /\ publicKey[o] # 0
    BY <1>5 DEF PublicKeyFound, Step, PublicKeyMissing
  <2>2. pc'[n] = "storage"
    BY <1>1, <2>1 DEF Goto
  <2>3. AddressInv(n, o)' /\ KeysInv(n, o)' /\ ExitInv(n, o)'
    BY <1>1, <1>2, <1>3, <2>1, <2>2 DEF AddressInv, KeysInv, ExitInv, set, IsRegistered,
       AfterAddress, AfterRegister, Generated, Publishing
  <2>4. QED
    BY <1>10, <2>3 DEF ApiInv
<1>6. CASE NoPublicKey(n)
  <2>1. pc[n] = "public key" /\ Goto(n, "private key") /\ publicKey[o] = 0
    BY <1>6 DEF NoPublicKey, Step, PublicKeyMissing
  <2>2. pc'[n] = "private key"
    BY <1>1, <2>1 DEF Goto
  <2>3. AddressInv(n, o)' /\ KeysInv(n, o)' /\ ExitInv(n, o)'
    BY <1>1, <1>2, <1>3, <2>1, <2>2 DEF AddressInv, KeysInv, ExitInv, set, IsRegistered,
       AfterAddress, AfterRegister, Generated, Publishing
  <2>4. QED
    BY <1>10, <2>3 DEF ApiInv
<1>7. CASE PrivateKeyExists(n)
  <2>1. pc[n] = "publish private key" /\ Goto(n, "already exists") /\ privateKey[o] # 0
    BY <1>7 DEF PrivateKeyExists, Step
  <2>2. pc'[n] = "already exists"
    BY <1>1, <2>1 DEF Goto
  <2>3. AddressInv(n, o)' /\ KeysInv(n, o)' /\ ExitInv(n, o)'
    BY <1>1, <1>2, <1>3, <2>1, <2>2 DEF AddressInv, KeysInv, ExitInv, set, IsRegistered,
       AfterAddress, AfterRegister, Generated, Publishing
  <2>4. QED
    BY <1>10, <2>3 DEF ApiInv
<1>8. CASE PublicKeyExists(n)
  <2>1. pc[n] = "check public key" /\ Goto(n, "already exists") /\ publicKey[o] # 0
    BY <1>8 DEF PublicKeyExists, Step
  <2>2. pc'[n] = "already exists"
    BY <1>1, <2>1 DEF Goto
  <2>3. AddressInv(n, o)' /\ KeysInv(n, o)' /\ ExitInv(n, o)'
    BY <1>1, <1>2, <1>3, <2>1, <2>2 DEF AddressInv, KeysInv, ExitInv, set, IsRegistered,
       AfterAddress, AfterRegister, Generated, Publishing
  <2>4. QED
    BY <1>10, <2>3 DEF ApiInv
<1>9. CASE NoPublicKeyYet(n)
  <2>1. pc[n] = "check public key" /\ Goto(n, "publish public key") /\ publicKey[o] = 0
    BY <1>9 DEF NoPublicKeyYet, Step
  <2>2. pc'[n] = "publish public key"
    BY <1>1, <2>1 DEF Goto
  <2>3. AddressInv(n, o)' /\ KeysInv(n, o)' /\ ExitInv(n, o)'
    BY <1>1, <1>2, <1>3, <2>1, <2>2 DEF AddressInv, KeysInv, ExitInv, set, IsRegistered,
       AfterAddress, AfterRegister, Generated, Publishing
  <2>4. QED
    BY <1>10, <2>3 DEF ApiInv
<1>11. QED
  BY <1>4, <1>5, <1>6, <1>7, <1>8, <1>9

LEMMA CannotCreate ==
    ASSUME Typed, StartInv, NEW n \in Nodes, CannotCreatePublicKey(n)
    PROVE  StartInv'
<1>1. PICK o \in Organizations : o = OrganizationOf[n]
  BY NetworkAssumption DEF Typed, TypeOK
<1>2. /\ pc \in [Nodes -> Steps] /\ AddressInv(n, o) /\ KeysInv(n, o) /\ OrganizationInv(o)
  BY <1>1, Relies
<1>3. /\ pc[n] = "private key" /\ Goto(n, "cannot create public key") /\ privateKey[o] # 0
      /\ UNCHANGED raced /\ UNCHANGED set /\ UNCHANGED registered /\ UNCHANGED interrupted
  BY <1>1 DEF CannotCreatePublicKey, Step, onChain
<1>4. pc'[n] = "cannot create public key" /\ \A m \in Nodes \ {n} : pc'[m] = pc[m]
  BY <1>2, <1>3 DEF Goto
<1>5. o \in raced \/ \A m \in Nodes : OrganizationOf[m] = o => pc[m] \notin Generated
  BY <1>1, <1>3 DEF StartInv, Single, Generated, Publishing, SetUp
<1>6. o \in raced \/ (HalfPublished(o) /\ o \in interrupted)
  BY <1>2, <1>3, <1>5 DEF KeysInv, OrganizationInv, HalfPublished, Generated
<1>7. ApiInv(n)'
  <2>1. AddressInv(n, o)' /\ KeysInv(n, o)'
    BY <1>2, <1>3, <1>4 DEF AddressInv, KeysInv, AfterAddress, AfterRegister, Generated, Publishing, set
  <2>2. o \in raced \/ \A m \in Nodes : OrganizationOf[m] = o => pc'[m] \notin Generated
    BY <1>4, <1>5 DEF Generated, Publishing
  <2>3. ExitInv(n, o)'
    BY <1>3, <1>4, <1>6, <2>2 DEF ExitInv, HalfPublished, set
  <2>4. QED
    BY <1>1, <2>1, <2>3 DEF ApiInv
<1>8. QED
  BY <1>1, <1>3, <1>7, Moves DEF Steps, SetUp, Exited, Generated, Publishing

(* Wherever it fails, is refused or is killed.                             *)
LEMMA Stops ==
    ASSUME Typed, StartInv, NEW n \in Nodes, pc[n] \in SetUp,
           StepFails(n) \/ Refused(n) \/ Kill(n)
    PROVE  StartInv'
<1>1. PICK o \in Organizations : o = OrganizationOf[n]
  BY NetworkAssumption DEF Typed, TypeOK
<1>2. pc \in [Nodes -> Steps] /\ AddressInv(n, o)
  BY <1>1, Relies
<1>3. PICK to \in {"address", "register", "failed", "waiting"} :
          Goto(n, to) /\ (to = "register" => pc[n] = "register")
  BY DEF StepFails, Refused, Kill, AfterError
<1>4. /\ UNCHANGED raced /\ UNCHANGED set /\ UNCHANGED registered
      /\ Interrupts(n)
  BY DEF StepFails, Refused, Kill, onChain
<1>5. pc'[n] = to
  BY <1>2, <1>3 DEF Goto
<1>6. ApiInv(n)'
  <2>1. AddressInv(n, o)'
    BY <1>2, <1>3, <1>4, <1>5 DEF AddressInv, AfterAddress, AfterRegister, set
  <2>2. KeysInv(n, o)' /\ ExitInv(n, o)'
    BY <1>3, <1>5 DEF KeysInv, ExitInv, Generated, Publishing
  <2>3. QED
    BY <1>1, <2>1, <2>2 DEF ApiInv
<1>7. interrupted \subseteq interrupted' /\ (pc[n] \in Publishing => o \in interrupted')
  BY <1>1, <1>4 DEF Interrupts, Publishing
<1>8. QED
  BY <1>1, <1>3, <1>4, <1>6, <1>7, Moves DEF Steps, SetUp, Exited, Generated, Publishing

(* The steps that change something beside.                                 *)
LEMMA SetsUpAddress ==
    ASSUME Typed, StartInv, NEW n \in Nodes, ImportAddress(n) \/ PublishAddress(n) \/ RegisterSelf(n)
    PROVE  StartInv'
<1>1. PICK o \in Organizations : o = OrganizationOf[n]
  BY NetworkAssumption DEF Typed, TypeOK
<1>2. /\ pc \in [Nodes -> Steps] /\ AddressInv(n, o) /\ KeysInv(n, o) /\ OrganizationInv(o)
  BY <1>1, Relies
<1>3. /\ wallet \in [Nodes -> SUBSET Nodes] /\ address \in [Organizations -> Nodes \cup {None}]
      /\ addresses \in [Organizations -> SUBSET Nodes]
      /\ n \in Nodes /\ None \notin Nodes
  BY NetworkAssumption DEF Typed, TypeOK
<1>4. UNCHANGED raced /\ UNCHANGED <<privateKey, publicKey, storageUrl, pair, interrupted>>
  BY DEF ImportAddress, PublishAddress, RegisterSelf, Step, set
<1>5. PICK to \in {"register", "public key"} : Goto(n, to)
  BY DEF ImportAddress, PublishAddress, RegisterSelf, Step
<1>6. /\ pc[n] \in {"address", "publish address", "register"} /\ pc'[n] = to
      /\ \A m \in Nodes \ {n} : pc'[m] = pc[m]
  BY <1>2, <1>5 DEF ImportAddress, PublishAddress, RegisterSelf, Step, Goto
<1>7. /\ \A m \in Nodes \ {n} : wallet'[m] = wallet[m]
      /\ \A q \in Organizations \ {o} : address'[q] = address[q] /\ addresses'[q] = addresses[q]
      /\ addresses'[o] \subseteq addresses[o] \cup {n}
      /\ address'[o] # address[o] => address'[o] = n /\ (o \in raced \/ address[o] = None)
  <2>1. CASE ImportAddress(n) \/ RegisterSelf(n)
    BY <1>3, <2>1 DEF ImportAddress, RegisterSelf, set
  <2>2. CASE PublishAddress(n)
    BY <1>1, <1>2, <1>3, <2>2 DEF PublishAddress, Step, AddressInv
  <2>3. QED
    BY <2>1, <2>2
<1>8. \A m \in Nodes : IsRegistered(m) => IsRegistered(m)'
  BY Registers DEF Typed, IsRegistered, ImportAddress, PublishAddress, RegisterSelf, Step, onChain
<1>9. Keeps(n, o)
  BY <1>4, <1>6, <1>7, <1>8 DEF Keeps, Generated, Publishing
<1>10. ApiInv(n)'
  <2>1. /\ address'[o] # None /\ (o \in raced \/ address'[o] \in wallet'[n])
        /\ n \in wallet'[n]
    <3>1. CASE ImportAddress(n)
      BY <1>1, <1>2, <1>3, <3>1 DEF ImportAddress, AddressFromStream, Imported, AddressInv
    <3>2. CASE PublishAddress(n)
      BY <1>1, <1>2, <1>3, <3>2 DEF PublishAddress, AddressInv
    <3>3. CASE RegisterSelf(n)
      BY <1>2, <1>3, <3>3 DEF RegisterSelf, AddressInv, AfterAddress, set
    <3>4. QED
      BY <3>1, <3>2, <3>3
  <2>2. to = "public key" => IsRegistered(n)'
    <3>1. to = "public key" => RegisterSelf(n)
      BY <1>2, <1>5, <1>6 DEF ImportAddress, PublishAddress, Step, Goto
    <3>2. QED
      BY <3>1, Registers DEF RegisterSelf, Typed, IsRegistered
  <2>3. AddressInv(n, o)'
    BY <1>4, <1>6, <2>1, <2>2 DEF AddressInv, AfterAddress, AfterRegister
  <2>4. KeysInv(n, o)' /\ ExitInv(n, o)'
    BY <1>6 DEF KeysInv, ExitInv, Generated, Publishing
  <2>5. QED
    BY <1>1, <2>3, <2>4 DEF ApiInv
<1>11. OrganizationInv(o)'
  <2>1. HalfPublished(o)' =>
          \/ o \in raced \/ o \in interrupted'
          \/ \E x \in Nodes : OrganizationOf[x] = o /\ pc'[x] \in Publishing
    BY <1>2, <1>4, <1>6 DEF OrganizationInv, HalfPublished, Publishing
  <2>2. QED
    BY <1>1, <1>2, <1>4, <1>7, <2>1 DEF OrganizationInv
<1>12. QED
  BY <1>1, <1>4, <1>5, <1>6, <1>9, <1>10, <1>11, StartStep DEF Steps, SetUp

LEMMA SetsUpKeys ==
    ASSUME Typed, StartInv, NEW n \in Nodes,
           GenerateKeyPair(n) \/ PublishPrivateKey(n) \/ PublishPublicKey(n) \/ PublishStorageUrl(n)
    PROVE  StartInv'
<1>1. PICK o \in Organizations : o = OrganizationOf[n]
  BY NetworkAssumption DEF Typed, TypeOK
<1>2. /\ pc \in [Nodes -> Steps] /\ AddressInv(n, o) /\ KeysInv(n, o) /\ OrganizationInv(o)
  BY <1>1, Relies
<1>3. /\ pair \in [Nodes -> Nat] /\ generated \in Nat /\ n \in Nodes /\ None \notin Nodes
      /\ privateKey \in [Organizations -> Nat] /\ publicKey \in [Organizations -> Nat]
      /\ storageUrl \in [Organizations -> Nodes \cup {None}]
  BY NetworkAssumption DEF Typed, TypeOK
<1>4. UNCHANGED raced /\ UNCHANGED <<address, addresses, wallet, registered, interrupted>>
  BY DEF GenerateKeyPair, PublishPrivateKey, PublishPublicKey, PublishStorageUrl, Step, onChain
<1>5. PICK to \in {"publish private key", "check public key", "storage", "up"} : Goto(n, to)
  BY DEF GenerateKeyPair, PublishPrivateKey, PublishPublicKey, PublishStorageUrl, Step, PublishedFirst
<1>6. /\ pc[n] \in {"private key", "publish private key", "publish public key", "storage"}
      /\ pc'[n] = to /\ \A m \in Nodes \ {n} : pc'[m] = pc[m]
  BY <1>2, <1>5 DEF GenerateKeyPair, PublishPrivateKey, PublishPublicKey, PublishStorageUrl, Step, Goto
<1>7. AddressInv(n, o)'
  BY <1>2, <1>4, <1>5, <1>6 DEF AddressInv, AfterAddress, AfterRegister, IsRegistered
<1>8. ExitInv(n, o)'
  BY <1>5, <1>6 DEF ExitInv
<1>9. Keeps(n, o) /\ KeysInv(n, o)' /\ OrganizationInv(o)' => StartInv'
  BY <1>1, <1>4, <1>5, <1>6, <1>7, <1>8, StartStep DEF Steps, SetUp, ApiInv
<1>10. CASE GenerateKeyPair(n)
  <2>1. /\ pc[n] = "private key" /\ to = "publish private key" /\ privateKey[o] = 0
        /\ UNCHANGED <<privateKey, publicKey, storageUrl>> /\ pair' = [pair EXCEPT ![n] = generated + 1]
    BY <1>1, <1>2, <1>5, <1>10 DEF GenerateKeyPair, Step, Goto, PublishedFirst
  <2>2. pair'[n] # 0 /\ \A m \in Nodes \ {n} : pair'[m] = pair[m]
    <3>1. generated + 1 # 0
      BY <1>3, Counts
    <3>2. QED
      BY <1>3, <2>1, <3>1
  <2>3. Keeps(n, o)
    BY <1>4, <1>6, <2>1, <2>2 DEF Keeps, IsRegistered
  <2>4. KeysInv(n, o)'
    BY <1>2, <1>4, <1>6, <2>1, <2>2 DEF KeysInv, Publishing
  <2>5. OrganizationInv(o)'
    BY <1>2, <1>4, <2>1 DEF OrganizationInv, HalfPublished
  <2>6. QED
    BY <1>9, <2>3, <2>4, <2>5
<1>11. CASE PublishPrivateKey(n)
  <2>1. /\ pc[n] = "publish private key" /\ to = "check public key"
        /\ UNCHANGED <<publicKey, storageUrl, pair>> /\ privateKey' = [privateKey EXCEPT ![o] = pair[n]]
    BY <1>1, <1>2, <1>5, <1>11 DEF PublishPrivateKey, Step, Goto
  <2>2. /\ privateKey'[o] = pair[n] /\ pair[n] # 0
        /\ \A q \in Organizations \ {o} : privateKey'[q] = privateKey[q]
    BY <1>2, <1>3, <2>1 DEF KeysInv, Generated
  <2>3. Keeps(n, o)
    BY <1>4, <1>6, <2>1, <2>2 DEF Keeps, IsRegistered, Generated
  <2>4. KeysInv(n, o)'
    BY <1>2, <1>4, <1>6, <2>1, <2>2 DEF KeysInv, Publishing
  <2>5. OrganizationInv(o)'
    BY <1>1, <1>2, <1>4, <1>6, <2>1, <2>2 DEF OrganizationInv, HalfPublished, KeysInv, Publishing
  <2>6. QED
    BY <1>9, <2>3, <2>4, <2>5
<1>12. CASE PublishPublicKey(n)
  <2>1. /\ pc[n] = "publish public key" /\ to = "storage" /\ UNCHANGED <<privateKey, storageUrl, pair>>
        /\ publicKey' = [publicKey EXCEPT ![o] = IF @ = 0 THEN pair[n] ELSE @]
    BY <1>1, <1>2, <1>5, <1>12 DEF PublishPublicKey, Step, Goto
  <2>2. /\ publicKey'[o] = IF publicKey[o] = 0 THEN pair[n] ELSE publicKey[o]
        /\ publicKey'[o] # 0
        /\ \A q \in Organizations \ {o} : publicKey'[q] = publicKey[q]
    BY <1>2, <1>3, <2>1 DEF KeysInv, Generated, Publishing
  <2>3. Keeps(n, o)
    BY <1>4, <1>6, <2>1, <2>2 DEF Keeps, IsRegistered, Generated, Publishing
  <2>4. KeysInv(n, o)'
    BY <1>2, <1>4, <1>6, <2>1, <2>2 DEF KeysInv, Generated, Publishing
  <2>5. OrganizationInv(o)'
    BY <1>2, <1>4, <2>1, <2>2 DEF OrganizationInv, HalfPublished, KeysInv, Publishing
  <2>6. QED
    BY <1>9, <2>3, <2>4, <2>5
<1>13. CASE PublishStorageUrl(n)
  <2>1. /\ pc[n] = "storage" /\ to = "up" /\ UNCHANGED <<privateKey, publicKey, pair>>
        /\ storageUrl' = [storageUrl EXCEPT ![o] = n]
    BY <1>1, <1>2, <1>5, <1>13 DEF PublishStorageUrl, Step, Goto
  <2>2. storageUrl'[o] # None /\ \A q \in Organizations \ {o} : storageUrl'[q] = storageUrl[q]
    BY <1>3, <2>1
  <2>3. Keeps(n, o)
    BY <1>4, <1>6, <2>1, <2>2 DEF Keeps, IsRegistered, Generated, Publishing
  <2>4. KeysInv(n, o)'
    BY <1>2, <1>4, <1>6, <2>1, <2>2 DEF KeysInv, Generated, Publishing
  <2>5. OrganizationInv(o)'
    <3>1. HalfPublished(o)' =>
          \/ o \in raced \/ o \in interrupted'
          \/ \E x \in Nodes : OrganizationOf[x] = o /\ pc'[x] \in Publishing
      BY <1>2, <1>4, <1>6, <2>1 DEF OrganizationInv, HalfPublished, Publishing
    <3>2. QED
      BY <1>2, <1>4, <2>1, <3>1 DEF OrganizationInv
  <2>6. QED
    BY <1>9, <2>3, <2>4, <2>5
<1>14. QED
  BY <1>10, <1>11, <1>12, <1>13

(* The steps of an API that is not in the middle of its start.             *)
LEMMA BecomesReady ==
    ASSUME Typed, StartInv, NEW n \in Nodes, BecomeReady(n)
    PROVE  StartInv'
<1>1. /\ pc \in [Nodes -> Steps] /\ OrganizationOf \in [Nodes -> Organizations]
  BY NetworkAssumption DEF Typed, TypeOK
<1>2. /\ pc[n] = "waiting" /\ pc' = [pc EXCEPT ![n] = "address"]
      /\ UNCHANGED <<address, addresses, privateKey, publicKey, storageUrl, pair, wallet, registered, interrupted>>
      /\ raced \subseteq raced'
      /\ \A m \in Nodes \ {n} :
            OrganizationOf[m] = OrganizationOf[n] /\ pc[m] \in SetUp => OrganizationOf[n] \in raced'
  BY DEF BecomeReady, Step, Goto, set, onChain
<1>3. Single'
  BY <1>1, <1>2 DEF StartInv, Single
<1>4. ASSUME NEW m \in Nodes
      PROVE  ApiInv(m)'
  <2>1. CASE m = n
    BY <1>1, <1>2, <2>1 DEF StartInv, ApiInv, AddressInv, KeysInv, ExitInv, AfterAddress, AfterRegister,
       Generated, Publishing
  <2>2. CASE m # n
    <3>1. ApiInv(m) /\ pc'[m] = pc[m] /\ \A x \in Nodes : pc'[x] \in Generated => pc[x] \in Generated
      BY <1>1, <1>2, <2>2 DEF StartInv, Generated, Publishing
    <3>2. QED
      BY <1>2, <3>1 DEF ApiInv, AddressInv, KeysInv, ExitInv, HalfPublished, IsRegistered
  <2>3. QED
    BY <2>1, <2>2
<1>5. ASSUME NEW q \in Organizations
      PROVE  OrganizationInv(q)'
  <2>1. OrganizationInv(q) /\ \A x \in Nodes : pc[x] \in Publishing => pc'[x] \in Publishing
    BY <1>1, <1>2 DEF StartInv, Publishing
  <2>2. QED
    BY <1>2, <2>1 DEF OrganizationInv, HalfPublished
<1>6. QED
  BY <1>3, <1>4, <1>5 DEF StartInv

LEMMA Restarts ==
    ASSUME Typed, StartInv, NEW n \in Nodes, Restart(n) \/ Kill(n), pc[n] \notin SetUp
    PROVE  StartInv'
<1>1. /\ pc \in [Nodes -> Steps] /\ OrganizationOf \in [Nodes -> Organizations]
  BY NetworkAssumption DEF Typed, TypeOK
<1>2. /\ pc[n] \in Exited \cup {"waiting", "up"} /\ pc' = [pc EXCEPT ![n] = "waiting"]
      /\ UNCHANGED <<address, addresses, privateKey, publicKey, storageUrl, pair, wallet, registered, raced>>
      /\ interrupted \subseteq interrupted'
  BY DEF Restart, Kill, Interrupts, Goto, set, onChain, SetUp
<1>3. interrupted \subseteq interrupted'
  BY <1>2
<1>4. Single'
  BY <1>1, <1>2 DEF StartInv, Single, SetUp
<1>5. ASSUME NEW m \in Nodes
      PROVE  ApiInv(m)'
  <2>1. CASE m = n
    BY <1>1, <1>2, <2>1 DEF StartInv, ApiInv, AddressInv, KeysInv, ExitInv, AfterAddress, AfterRegister,
       Generated, Publishing
  <2>2. CASE m # n
    <3>1. ApiInv(m) /\ pc'[m] = pc[m] /\ \A x \in Nodes : pc'[x] \in Generated => pc[x] \in Generated
      BY <1>1, <1>2, <2>2 DEF StartInv, Generated, Publishing
    <3>2. QED
      BY <1>2, <1>3, <3>1 DEF ApiInv, AddressInv, KeysInv, ExitInv, HalfPublished, IsRegistered
  <2>3. QED
    BY <2>1, <2>2
<1>6. ASSUME NEW q \in Organizations
      PROVE  OrganizationInv(q)'
  <2>1. OrganizationInv(q) /\ \A x \in Nodes : pc[x] \in Publishing => pc'[x] \in Publishing
    BY <1>1, <1>2 DEF StartInv, Publishing, Exited
  <2>2. QED
    BY <1>2, <1>3, <2>1 DEF OrganizationInv, HalfPublished
<1>7. QED
  BY <1>4, <1>5, <1>6 DEF StartInv

(* Other steps register a node, or change nothing of all this.             *)
LEMMA OthersStand ==
    ASSUME StartInv, UNCHANGED <<pc, set, raced, interrupted>>,
           \A m \in Nodes : IsRegistered(m) => IsRegistered(m)'
    PROVE  StartInv'
<1>1. Single' /\ \A q \in Organizations : OrganizationInv(q)'
  BY DEF StartInv, Single, OrganizationInv, HalfPublished, set
<1>2. ASSUME NEW m \in Nodes
      PROVE  ApiInv(m)'
  <2>1. ApiInv(m)
    BY DEF StartInv
  <2>2. QED
    BY <2>1 DEF ApiInv, AddressInv, KeysInv, ExitInv, HalfPublished, set
<1>3. QED
  BY <1>1, <1>2 DEF StartInv

LEMMA StartsAreRight == Typed /\ StartInv /\ [Next]_vars => StartInv'
<1>1. SUFFICES ASSUME Typed, StartInv, [Next]_vars PROVE StartInv'
  OBVIOUS
<1>2. ASSUME NEW n \in Nodes, Start(n) PROVE StartInv'
  <2>1. Restart(n) => pc[n] \notin SetUp
    BY DEF Restart, Exited, SetUp
  <2>2. CASE \/ NoAddress(n) \/ PublicKeyFound(n) \/ NoPublicKey(n) \/ PrivateKeyExists(n)
             \/ PublicKeyExists(n) \/ NoPublicKeyYet(n)
    <3>1. OrganizationOf[n] \in Organizations
      BY NetworkAssumption
    <3>2. QED
      BY <1>1, <2>2, <3>1, Finds
  <2>3. CASE ImportAddress(n) \/ PublishAddress(n) \/ RegisterSelf(n)
    BY <1>1, <2>3, SetsUpAddress
  <2>4. CASE GenerateKeyPair(n) \/ PublishPrivateKey(n) \/ PublishPublicKey(n) \/ PublishStorageUrl(n)
    BY <1>1, <2>4, SetsUpKeys
  <2>5. CASE BecomeReady(n) \/ CannotCreatePublicKey(n) \/ Restart(n)
    BY <1>1, <2>1, <2>5, BecomesReady, CannotCreate, Restarts
  <2>7. CASE Refused(n)
    <3>1. pc[n] \in SetUp
      BY <2>7 DEF Refused, Publishes, SetUp
    <3>2. QED
      BY <1>1, <2>7, <3>1, Stops
  <2>6. QED
    BY <1>2, <2>2, <2>3, <2>4, <2>5, <2>7 DEF Start
<1>3. ASSUME NEW n \in Nodes, StepFails(n) \/ Kill(n) PROVE StartInv'
  BY <1>1, <1>3, Stops, Restarts DEF StepFails
<1>4. ASSUME NEW n \in Nodes, RegisterNode(n) PROVE StartInv'
  BY <1>1, <1>4, Registers, OthersStand DEF RegisterNode, Typed, IsRegistered
<1>5. ASSUME NEW w \in Workers, NEW n \in Nodes, Request(w, n) PROVE StartInv'
  <2>1. UNCHANGED <<pc, set, raced, interrupted>> /\ UNCHANGED registered
    BY <1>5, Begins DEF Begin, onChain
  <2>2. QED
    BY <1>1, <2>1, OthersStand DEF IsRegistered
<1>6. ASSUME NEW w \in Workers, Handle(w) PROVE StartInv'
  <2>1. UNCHANGED <<pc, set, raced, interrupted>> /\ UNCHANGED registered
    BY <1>6 DEF Handle, CheckVote, CheckAccess, Compute, Execute, PublishDeclined, onChain
  <2>2. QED
    BY <1>1, <2>1, OthersStand DEF IsRegistered
<1>7. CASE UNCHANGED vars
  BY <1>1, <1>7, OthersStand DEF vars, onChain, IsRegistered
<1>8. QED
  BY <1>1, <1>2, <1>3, <1>4, <1>5, <1>6, <1>7 DEF Next

LEMMA StartsInit == Init => StartInv
BY NetworkAssumption DEF Init, StartInv, Single, ApiInv, AddressInv, KeysInv, ExitInv, OrganizationInv,
   HalfPublished, SetUp, AfterAddress, AfterRegister, Generated, Publishing

Started == Typed /\ StartInv

LEMMA AlwaysStarted == Spec => []Started
<1>1. Init => Started
  BY InitTypes, StartsInit DEF Started
<1>2. Started /\ [Next]_vars => Started'
  BY StepTypes, StartsAreRight DEF Started
<1>3. QED
  BY <1>1, <1>2, PTL DEF Spec

(* Wherever an API is killed and however often it starts, a public key is  *)
(* published with its private one, unless two APIs of the organization     *)
(* were starting at the same time.                                         *)
THEOREM KeysOnlyInPairs == Spec => []KeysBelongTogether
<1>1. Started => KeysBelongTogether
  BY DEF Started, StartInv, OrganizationInv, KeysBelongTogether
<1>2. QED
  BY AlwaysStarted, <1>1, PTL

(* An API that is up has set up all that its requests use.                 *)
THEOREM UpMeansUsable == Spec => []UpIsUsable
<1>1. Started => UpIsUsable
  BY DEF Started, StartInv, ApiInv, AddressInv, KeysInv, AfterAddress, AfterRegister, UpIsUsable
<1>2. QED
  BY AlwaysStarted, <1>1, PTL

(* The two errors that end the start of an API for good have their cause   *)
(* in an interruption or in another API.                                   *)
THEOREM NoExitWithoutCause == Spec => []ExitsHaveACause
<1>1. Started => ExitsHaveACause
  BY DEF Started, StartInv, ApiInv, ExitInv, ExitsHaveACause
<1>2. QED
  BY AlwaysStarted, <1>1, PTL

-----------------------------------------------------------------------------
(* What a vote of c for t may change: what t is given, and only by c.      *)
LEMMA VoteEffects ==
    ASSUME Typed, NEW c \in Nodes, NEW t \in Nodes, NEW all \in BOOLEAN,
           GrantFrom(c, t, all) \/ RevokeFrom(c, t, all)
    PROVE  /\ \A u \in Nodes \ {t} : /\ connect'[u] = connect[u] /\ admin'[u] = admin[u]
                                      /\ pendingVotes'[u] = pendingVotes[u]
           /\ \A x \in Nodes \ {c} :
                 /\ x \in connect'[t] => x \in connect[t]
                 /\ x \in ApprovedBy(t)' => x \in ApprovedBy(t)
                 /\ x \in pendingVotes'[t] => x \in pendingVotes[t]
                 /\ admin'[t] = {} /\ x \in pendingVotes'[t] => admin[t] = {}
           /\ RevokeFrom(c, t, all) =>
                 /\ c \in connect'[t] => c \in connect[t]
                 /\ c \in ApprovedBy(t)' => c \in ApprovedBy(t)
                 /\ admin'[t] = {} => c \notin pendingVotes'[t]
<1> DEFINE votes == pendingVotes[t] \cup {c}
           fewer == pendingVotes[t] \ {c}
<1>1. /\ connect \in [Nodes -> SUBSET Nodes] /\ admin \in [Nodes -> SUBSET Nodes]
      /\ pendingVotes \in [Nodes -> SUBSET Nodes]
  BY DEF Typed, TypeOK
<1>2. CASE GrantFrom(c, t, all) /\ ~RevokeFrom(c, t, all)
  <2>1. connect' = [connect EXCEPT ![t] = @ \cup {c}]
    BY <1>2 DEF GrantFrom
  <2>2. \/ UNCHANGED <<admin, pendingVotes>>
        \/ /\ admin[t] # {} /\ admin' = [admin EXCEPT ![t] = @ \cup {c}]
           /\ pendingVotes' = [pendingVotes EXCEPT ![t] = fewer]
        \/ /\ admin[t] = {} /\ admin' = [admin EXCEPT ![t] = votes]
           /\ pendingVotes' = [pendingVotes EXCEPT ![t] = {}]
        \/ /\ admin[t] = {} /\ pendingVotes' = [pendingVotes EXCEPT ![t] = votes]
           /\ UNCHANGED admin
    BY <1>2, Zenon DEF GrantFrom
  <2>3. QED
    BY <1>1, <1>2, <2>1, <2>2 DEF ApprovedBy
<1>3. CASE RevokeFrom(c, t, all)
  <2>1. connect' = [connect EXCEPT ![t] = IF all THEN {} ELSE @]
    BY <1>3 DEF RevokeFrom
  <2>2. \/ /\ admin[t] = {} /\ UNCHANGED admin
           /\ pendingVotes' = [pendingVotes EXCEPT ![t] = fewer]
        \/ /\ admin[t] # {} /\ admin' = [admin EXCEPT ![t] = {}]
           /\ pendingVotes' = [pendingVotes EXCEPT ![t] = {}]
        \/ /\ admin[t] # {} /\ pendingVotes' = [pendingVotes EXCEPT ![t] = votes]
           /\ UNCHANGED admin
    BY <1>3, Zenon DEF RevokeFrom
  <2>3. QED
    BY <1>1, <2>1, <2>2 DEF ApprovedBy
<1>4. QED
  BY <1>2, <1>3

(* What the start of an API, its failure or its end leaves of the votes.   *)
Leaves ==
    /\ UNCHANGED <<declinedBy, connect, admin, pendingVotes>>
    /\ \A w \in Workers : job'[w] # None => job'[w] = job[w]

LEMMA StartLeaves ==
    ASSUME Started, NEW n \in Nodes, Start(n) \/ RegisterNode(n) \/ StepFails(n) \/ Kill(n)
    PROVE  Leaves
<1>1. UNCHANGED <<declinedBy, connect, admin, pendingVotes>>
  BY DEF Start, BecomeReady, ImportAddress, NoAddress, PublishAddress, RegisterSelf,
         PublicKeyFound, NoPublicKey, CannotCreatePublicKey, GenerateKeyPair, PrivateKeyExists,
         PublishPrivateKey, PublicKeyExists, NoPublicKeyYet, PublishPublicKey, PublishStorageUrl,
         Refused, Restart, RegisterNode, StepFails, Kill, Step, onChain
<1>2. UNCHANGED job \/ job' = WithoutThoseOf(n)
  BY DEF Start, BecomeReady, ImportAddress, NoAddress, PublishAddress, RegisterSelf,
         PublicKeyFound, NoPublicKey, CannotCreatePublicKey, GenerateKeyPair, PrivateKeyExists,
         PublishPrivateKey, PublicKeyExists, NoPublicKeyYet, PublishPublicKey, PublishStorageUrl,
         Refused, Restart, RegisterNode, StepFails, Kill, Step
<1>3. QED
  BY <1>1, <1>2 DEF Leaves, WithoutThoseOf

LEMMA JobsAre ==
    ASSUME \A v \in Workers : \A s \in Job : s = job'[v] /\ s # None => JobInv(s)'
    PROVE  JobsInv'
<1>1. ASSUME NEW v \in Workers, NEW s \in Job, s = job'[v], s # None
      PROVE  JobInv(s)'
  BY <1>1
<1>2. QED
  BY <1>1 DEF JobsInv

(* What is unchanged, a request may still rely on.                         *)
LEMMA SameJob ==
    ASSUME NEW r, JobInv(r), UNCHANGED <<declinedBy, connect, admin, pendingVotes>>
    PROVE  JobInv(r)'
<1>1. VoteInv(r) => VoteInv(r)'
  BY DEF VoteInv, ApprovedBy
<1>2. QED
  BY <1>1 DEF JobInv

LEMMA StartKeepsJobs ==
    ASSUME Started, JobsInv, Leaves
    PROVE  JobsInv'
<1>1. ASSUME NEW v \in Workers, NEW s \in Job, s = job'[v], s # None
      PROVE  JobInv(s)'
  <2>1. JobInv(s)
    BY <1>1 DEF Leaves, JobsInv
  <2>2. QED
    BY <2>1, SameJob DEF Leaves
<1>2. QED
  BY <1>1, JobsAre

(* A step of a request that changes nothing but the request.               *)
LEMMA RequestStep ==
    ASSUME Started, JobsInv, NEW w \in Workers, NEW r \in Job \cup {None},
           job' = [job EXCEPT ![w] = r],
           UNCHANGED <<declinedBy, connect, admin, pendingVotes>>,
           r # None => JobInv(r)
    PROVE  JobsInv'
<1>1. job \in [Workers -> Job \cup {None}]
  BY DEF Started, Typed, TypeOK
<1>2. ASSUME NEW v \in Workers, NEW s \in Job, s = job'[v], s # None
      PROVE  JobInv(s)'
  <2>1. JobInv(s)
    BY <1>1, <1>2 DEF JobsInv
  <2>2. QED
    BY <2>1, SameJob
<1>3. QED
  BY <1>2, JobsAre

LEMMA RequestKeepsJobs ==
    ASSUME Started, JobsInv, NEW w \in Workers, NEW n \in Nodes, Request(w, n)
    PROVE  JobsInv'
<1>1. PICK t \in Nodes, kind \in Kinds, vote \in Votes, step \in {"vote", "compute", "publish"} :
          /\ Begin(w, n, t, kind, vote, step)
          /\ kind = "approve node" => ~HasDeclined(n, t) /\ vote = "basic"
          /\ kind = "approve organization" => vote = "admin"
          /\ kind \in {"approve node", "approve organization"} => step = "vote"
          /\ kind = "decline" => step = "publish" /\ connect[t] = {}
  BY Zenon DEF Request, ApproveNewNode, ApproveNewOrganization, VoteForPermission, DeclineNode,
     Votes, Kinds
<1>2. PICK caller \in addresses[OrganizationOf[n]] : job' = [job EXCEPT ![w] =
            [node |-> n, caller |-> caller, target |-> t, kind |-> kind, vote |-> vote,
             step |-> step, op |-> "no action", all |-> FALSE, news |-> {}]]
  BY <1>1 DEF Begin
<1>3. UNCHANGED <<declinedBy, connect, admin, pendingVotes>>
  BY <1>1 DEF Begin, onChain
<1>4. OrganizationOf[n] \in Organizations /\ caller \in Nodes
  BY NetworkAssumption DEF Started, Typed, TypeOK
<1>5. OrganizationOf[caller] = OrganizationOf[n]
  BY <1>4 DEF Started, StartInv, OrganizationInv
<1>6. PICK r \in Job :
        /\ r = [node |-> n, caller |-> caller, target |-> t, kind |-> kind, vote |-> vote,
                step |-> step, op |-> "no action", all |-> FALSE, news |-> {}]
        /\ job' = [job EXCEPT ![w] = r]
  <2>1. [node |-> n, caller |-> caller, target |-> t, kind |-> kind, vote |-> vote,
         step |-> step, op |-> "no action", all |-> FALSE, news |-> {}] \in Job
    BY <1>4 DEF Job, Kinds
  <2>2. QED
    BY <1>2, <2>1
<1>7. JobInv(r)
  BY <1>1, <1>5, <1>6 DEF JobInv, VoteInv, HasDeclined
<1>8. QED
  BY <1>3, <1>6, <1>7, RequestStep

SameRequest(r, s) ==
    /\ s.node = r.node /\ s.caller = r.caller /\ s.target = r.target /\ s.kind = r.kind
    /\ s.vote = r.vote /\ s.news = r.news

GoesTo(r, step) == [r EXCEPT !.step = step]
Decides(r, op, all) == [r EXCEPT !.step = "execute", !.op = op, !.all = all]

LEMMA NextSteps ==
    ASSUME NEW r \in Job
    PROVE  /\ \A step \in {"access", "compute"} :
                 /\ GoesTo(r, step) \in Job /\ SameRequest(r, GoesTo(r, step))
                 /\ GoesTo(r, step).step = step /\ GoesTo(r, step).op = r.op
           /\ \A op \in {"no action", "grant", "revoke"}, all \in BOOLEAN :
                 /\ Decides(r, op, all) \in Job /\ SameRequest(r, Decides(r, op, all))
                 /\ Decides(r, op, all).step = "execute" /\ Decides(r, op, all).op = op
BY DEF Job, SameRequest, GoesTo, Decides

LEMMA ChecksKeepJobs ==
    ASSUME Started, JobsInv, NEW w \in Workers, CheckVote(w) \/ CheckAccess(w) \/ Compute(w)
    PROVE  JobsInv'
<1>1. PICK r \in Job : r = job[w] /\ r # None /\ JobInv(r)
  BY DEF Started, Typed, TypeOK, JobsInv, CheckVote, CheckAccess, Compute, At
<1>2. PICK c : c = r.caller
  OBVIOUS
<1>3. UNCHANGED <<declinedBy, connect, admin, pendingVotes>>
  BY DEF CheckVote, CheckAccess, Compute, onChain
<1>4. r.op # "no action" <=> r.step = "execute"
  BY <1>1 DEF Started, Typed, OpsInv, CheckVote, CheckAccess, Compute, At
<1>5. r.kind \in {"approve node", "approve organization"} => VoteInv(r)
  BY <1>1 DEF JobInv
<1>6. ASSUME NEW s \in Job, SameRequest(r, s), r.kind # "decline",
             r.kind \in {"approve node", "approve organization"} => VoteInv(s)
      PROVE  JobInv(s)
  BY <1>1, <1>6 DEF JobInv, SameRequest
<1>8. CASE CheckVote(w)
  <2>1. r.step = "vote" /\ r.op = "no action" /\ r.kind # "decline"
    BY <1>1, <1>4, <1>8 DEF CheckVote, At, JobInv
  <2>2. PICK s \in Job : /\ s = GoesTo(r, "access") /\ s.step = "access" /\ s.op = "no action"
                         /\ SameRequest(r, s)
    <3>1. LET s == GoesTo(r, "access")
          IN  s \in Job /\ SameRequest(r, s) /\ s.step = "access" /\ s.op = r.op
      BY NextSteps
    <3>2. QED
      BY <2>1, <3>1
  <2>3. CASE job' = [job EXCEPT ![w] = None]
    BY <1>3, <2>3, RequestStep
  <2>4. CASE GetCurrentVote(c, r.target) = "none" /\ job' = [job EXCEPT ![w] = s]
    <3>1. c \notin ApprovedBy(r.target)
      BY <2>4 DEF GetCurrentVote
    <3>2. VoteInv(s)
      BY <1>2, <2>2, <3>1 DEF VoteInv, ApprovedBy, SameRequest
    <3>3. QED
      BY <1>3, <1>6, <2>1, <2>2, <2>4, <3>2, RequestStep
  <2>5. QED
    BY <1>1, <1>2, <1>8, <2>2, <2>3, <2>4 DEF CheckVote, Conflict, GoesTo
<1>9. CASE CheckAccess(w)
  <2>1. r.step = "access" /\ r.op = "no action" /\ r.kind # "decline" /\ r.target \in Nodes
    BY <1>1, <1>4, <1>9 DEF CheckAccess, At, JobInv, Job
  <2>2. PICK s \in Job : /\ s = GoesTo(r, "compute") /\ s.step = "compute" /\ s.op = "no action"
                         /\ SameRequest(r, s)
    <3>1. LET s == GoesTo(r, "compute")
          IN  s \in Job /\ SameRequest(r, s) /\ s.step = "compute" /\ s.op = r.op
      BY NextSteps
    <3>2. QED
      BY <2>1, <3>1
  <2>3. CASE job' = [job EXCEPT ![w] = None]
    BY <1>3, <2>3, RequestStep
  <2>4. CASE GetCurrentAccess(r.target) = "none" /\ job' = [job EXCEPT ![w] = s]
    <3>1. admin[r.target] = {}
      BY <2>4 DEF GetCurrentAccess
    <3>2. r.kind \in {"approve node", "approve organization"} => VoteInv(s)
      BY <1>5, <2>1, <2>2, <3>1 DEF VoteInv, ApprovedBy, SameRequest
    <3>3. QED
      BY <1>3, <1>6, <2>1, <2>2, <2>4, <3>2, RequestStep
  <2>5. QED
    BY <1>1, <1>9, <2>2, <2>3, <2>4 DEF CheckAccess, Conflict, GoesTo
<1>10. CASE Compute(w)
  <2>1. r.step = "compute" /\ r.op = "no action" /\ r.kind # "decline"
    BY <1>1, <1>4, <1>10 DEF Compute, At, JobInv
  <2>2. PICK todo : /\ todo = ComputeWhatToDo(GetCurrentVote(c, r.target), r.vote)
                    /\ job' = [job EXCEPT ![w] =
                          IF todo.op = "no action" THEN None
                          ELSE [r EXCEPT !.step = "execute", !.op = todo.op, !.all = todo.all]]
    BY <1>1, <1>2, <1>10 DEF Compute
  <2>3. todo.op \in {"no action", "grant", "revoke"} /\ todo.all \in BOOLEAN
    BY <2>2, WhatToDoTypes
  <2>4. PICK s \in Job :
          /\ s = Decides(r, todo.op, todo.all)
          /\ s.step = "execute" /\ s.op = todo.op /\ SameRequest(r, s)
    BY <2>3, NextSteps
  <2>5. CASE job' = [job EXCEPT ![w] = None]
    BY <1>3, <2>5, RequestStep
  <2>6. CASE job' = [job EXCEPT ![w] = s]
    <3>1. ASSUME r.kind \in {"approve node", "approve organization"}
          PROVE  VoteInv(s)
      <4>1. r.vote \in {"basic", "admin"}
        BY <1>1, <3>1 DEF JobInv
      <4>2. "grant" \in r.news \/ c \notin ApprovedBy(r.target)
        BY <1>2, <1>5, <2>1, <3>1 DEF VoteInv
      <4>3. c \notin ApprovedBy(r.target) => GetCurrentVote(c, r.target) \in {"basic", "none"}
        BY DEF GetCurrentVote
      <4>4. todo.op = "revoke" => "grant" \in r.news
        BY <2>2, <4>1, <4>2, <4>3 DEF ComputeWhatToDo
      <4>5. QED
        BY <2>4, <4>4 DEF VoteInv, SameRequest
    <3>2. QED
      BY <1>3, <1>6, <2>1, <2>4, <2>6, <3>1, RequestStep
  <2>7. QED
    BY <2>2, <2>4, <2>5, <2>6 DEF Decides
<1>11. QED
  BY <1>8, <1>9, <1>10

(* What is left of a request r when p is done with done: s.                *)
Outlives(r, s, p, done) ==
    /\ s.node = r.node /\ s.caller = r.caller /\ s.target = r.target /\ s.kind = r.kind
    /\ s.vote = r.vote /\ s.step = r.step /\ s.op = r.op /\ r.news \subseteq s.news
    /\ OrganizationOf[r.node] = OrganizationOf[p.node] /\ r.target = p.target => done \in s.news

LEMMA Finished ==
    ASSUME Started, JobsInv, NEW w \in Workers, NEW done \in {"grant", "revoke", "decline"},
           Finish(w, done), NEW v \in Workers, NEW s, s = job'[v], s # None
    PROVE  \E r \in Job : JobInv(r) /\ Outlives(r, s, job[w], done)
<1>1. job \in [Workers -> Job \cup {None}]
  BY DEF Started, Typed, TypeOK
<1>2. PICK r \in Job : /\ r = job[v] /\ JobInv(r)
                       /\ \/ /\ ~(/\ OrganizationOf[r.node] = OrganizationOf[job[w].node]
                                  /\ r.target = job[w].target)
                             /\ s = r
                          \/ s = [r EXCEPT !.news = @ \cup {done}]
  BY <1>1 DEF Finish, JobsInv
<1>3. Outlives(r, s, job[w], done)
  <2>1. CASE s = r
    BY <1>2, <2>1 DEF Outlives, Job
  <2>2. CASE s = [r EXCEPT !.news = @ \cup {done}]
    <3>1. /\ s.node = r.node /\ s.caller = r.caller /\ s.target = r.target /\ s.kind = r.kind
          /\ s.vote = r.vote /\ s.step = r.step /\ s.op = r.op
      BY <2>2 DEF Job
    <3>2. s.news = r.news \cup {done}
      BY <2>2 DEF Job
    <3>3. QED
      BY <3>1, <3>2 DEF Outlives
  <2>3. QED
    BY <1>2, <2>1, <2>2
<1>4. QED
  BY <1>2, <1>3

(* Who votes does so for the organization of the request.                  *)
LEMMA Executes ==
    ASSUME Started, JobsInv, NEW w \in Workers, Execute(w)
    PROVE  \E p \in Job, done \in {"grant", "revoke"} :
              /\ p = job[w] /\ Finish(w, done) /\ UNCHANGED declinedBy
              /\ OrganizationOf[p.caller] = OrganizationOf[p.node]
              /\ \/ UNCHANGED <<connect, admin, pendingVotes>>
                 \/ done = "grant" /\ GrantFrom(p.caller, p.target, p.all)
                 \/ done = "revoke" /\ RevokeFrom(p.caller, p.target, p.all)
<1>1. PICK p \in Job : p = job[w] /\ p # None
  BY DEF Started, Typed, TypeOK, Execute, At
<1>2. PICK done \in {"grant", "revoke"} : done = p.op
  BY <1>1 DEF Started, Typed, OpsInv, Execute, At, Job
<1>3. Finish(w, done) /\ UNCHANGED declinedBy
  BY <1>1, <1>2, Zenon DEF Execute
<1>4. \/ UNCHANGED <<connect, admin, pendingVotes>>
      \/ done = "grant" /\ GrantFrom(p.caller, p.target, p.all)
      \/ done = "revoke" /\ RevokeFrom(p.caller, p.target, p.all)
  BY <1>1, <1>2 DEF Execute
<1>5. OrganizationOf[p.caller] = OrganizationOf[p.node]
  BY <1>1 DEF JobsInv, JobInv
<1>6. QED
  BY <1>1, <1>3, <1>4, <1>5

LEMMA ExecuteKeepsJobs ==
    ASSUME Started, JobsInv, NEW w \in Workers, Execute(w)
    PROVE  JobsInv'
<1>1. PICK p \in Job, done \in {"grant", "revoke"} :
          /\ p = job[w] /\ Finish(w, done) /\ UNCHANGED declinedBy
          /\ OrganizationOf[p.caller] = OrganizationOf[p.node]
          /\ \/ UNCHANGED <<connect, admin, pendingVotes>>
             \/ done = "grant" /\ GrantFrom(p.caller, p.target, p.all)
             \/ done = "revoke" /\ RevokeFrom(p.caller, p.target, p.all)
  BY Executes
<1>2. SUFFICES ASSUME NEW v \in Workers, NEW s \in Job, s = job'[v], s # None
               PROVE  JobInv(s)'
  BY JobsAre
<1>3. PICK r \in Job : JobInv(r) /\ Outlives(r, s, p, done)
  BY <1>1, <1>2, Finished
<1>4. PICK t \in Nodes, x \in Nodes :
          t = r.target /\ t = s.target /\ x = r.caller /\ x = s.caller
  BY <1>3 DEF Outlives, Job
<1>5. PICK o : o = OrganizationOf[r.node] /\ o = OrganizationOf[s.node] /\ o = OrganizationOf[x]
  BY <1>3, <1>4 DEF Outlives, JobInv
(* What other callers and its own revocations cannot disturb.              *)
<1>6. \/ "grant" \in s.news
      \/ /\ x \in ApprovedBy(t)' => x \in ApprovedBy(t)
         /\ x \in connect'[t] => x \in connect[t]
         /\ admin'[t] = {} /\ x \in pendingVotes'[t] => admin[t] = {} /\ x \in pendingVotes[t]
  <2>1. CASE UNCHANGED <<connect, admin, pendingVotes>>
    BY <2>1 DEF ApprovedBy
  <2>2. CASE ~UNCHANGED <<connect, admin, pendingVotes>>
    <3>1. PICK c \in Nodes, u \in Nodes, all \in BOOLEAN :
            /\ c = p.caller /\ u = p.target
            /\ \/ done = "grant" /\ GrantFrom(c, u, all)
               \/ done = "revoke" /\ RevokeFrom(c, u, all)
      <4>1. p.caller \in Nodes /\ p.target \in Nodes /\ p.all \in BOOLEAN
        BY <1>1 DEF Job
      <4>2. \/ done = "grant" /\ GrantFrom(p.caller, p.target, p.all)
            \/ done = "revoke" /\ RevokeFrom(p.caller, p.target, p.all)
        BY <1>1, <2>2
      <4>3. PICK all : all = p.all
        OBVIOUS
      <4> HIDE DEF GrantFrom, RevokeFrom
      <4>4. QED
        BY <4>1, <4>2, <4>3
    <3>3. /\ \A z \in Nodes \ {u} : /\ connect'[z] = connect[z] /\ admin'[z] = admin[z]
                                     /\ pendingVotes'[z] = pendingVotes[z]
          /\ \A z \in Nodes \ {c} :
                 /\ z \in connect'[u] => z \in connect[u]
                 /\ z \in ApprovedBy(u)' => z \in ApprovedBy(u)
                 /\ z \in pendingVotes'[u] => z \in pendingVotes[u]
                 /\ admin'[u] = {} /\ z \in pendingVotes'[u] => admin[u] = {}
          /\ done = "revoke" =>
                 /\ c \in connect'[u] => c \in connect[u]
                 /\ c \in ApprovedBy(u)' => c \in ApprovedBy(u)
                 /\ admin'[u] = {} => c \notin pendingVotes'[u]
      BY <3>1, VoteEffects DEF Started
    <3>4. CASE t # u
      BY <3>3, <3>4 DEF ApprovedBy
    <3>5. CASE t = u /\ x # c
      BY <3>3, <3>5
    <3>6. CASE t = u /\ x = c
      <4>1. done = "grant" => "grant" \in s.news
        BY <1>1, <1>3, <1>4, <1>5, <3>1, <3>6 DEF Outlives
      <4>2. CASE done = "revoke"
        BY <3>3, <3>6, <4>2
      <4>3. QED
        BY <1>1, <4>1, <4>2
    <3>7. QED
      BY <3>4, <3>5, <3>6
  <2>3. QED
    BY <2>1, <2>2
<1>7. ASSUME s.kind \in {"approve node", "approve organization"}
      PROVE  VoteInv(s)'
  <2>1. VoteInv(r) /\ r.news \subseteq s.news /\ s.step = r.step /\ s.op = r.op
    BY <1>3, <1>7 DEF JobInv, Outlives
  <2>2. CASE "grant" \in s.news
    BY <2>2 DEF VoteInv
  <2>3. CASE "grant" \notin s.news
    <3>1. s.step = "access" => (admin'[t] = {} => x \notin pendingVotes'[t])
      BY <1>4, <1>6, <2>1, <2>3 DEF VoteInv
    <3>2. s.step = "compute" => x \notin ApprovedBy(t)'
      BY <1>4, <1>6, <2>1, <2>3 DEF VoteInv
    <3>3. s.op # "revoke"
      BY <2>1, <2>3 DEF VoteInv
    <3>4. QED
      BY <1>4, <3>1, <3>2, <3>3 DEF VoteInv, ApprovedBy
  <2>4. QED
    BY <2>2, <2>3
<1>8. s.kind = "decline" => x \notin connect'[t] \/ "grant" \in s.news
  BY <1>3, <1>4, <1>6 DEF JobInv, Outlives
<1>9. QED
  BY <1>1, <1>3, <1>4, <1>5, <1>7, <1>8 DEF JobInv, Outlives

LEMMA DeclineKeepsJobs ==
    ASSUME Started, JobsInv, NEW w \in Workers, PublishDeclined(w)
    PROVE  JobsInv'
<1>1. PICK p \in Job : p = job[w]
  BY DEF Started, Typed, TypeOK, PublishDeclined, At
<1>2. /\ Finish(w, "decline") /\ UNCHANGED <<connect, admin, pendingVotes>>
      /\ \/ UNCHANGED declinedBy
         \/ declinedBy' = [declinedBy EXCEPT ![p.target] = @ \cup {OrganizationOf[p.node]}]
  <2>1. declinedBy \in [Nodes -> SUBSET Organizations]
    BY DEF Started, Typed, TypeOK
  <2>2. QED
    BY <1>1, <2>1 DEF PublishDeclined
<1>3. SUFFICES ASSUME NEW v \in Workers, NEW s \in Job, s = job'[v], s # None
               PROVE  JobInv(s)'
  BY JobsAre
<1>4. PICK r \in Job : JobInv(r) /\ Outlives(r, s, p, "decline")
  BY <1>1, <1>2, <1>3, Finished
<1>5. PICK o : o = OrganizationOf[r.node] /\ o = OrganizationOf[s.node]
  BY <1>4 DEF Outlives
<1>6. o \notin declinedBy[r.target] => o \notin declinedBy'[r.target] \/ "decline" \in s.news
  <2>1. declinedBy \in [Nodes -> SUBSET Organizations] /\ r.target \in Nodes /\ p.target \in Nodes
    BY DEF Started, Typed, TypeOK, Job
  <2>2. QED
    BY <1>2, <1>4, <1>5, <2>1 DEF Outlives
<1>7. s.kind \in {"approve node", "approve organization"} => VoteInv(s)'
  BY <1>2, <1>4 DEF JobInv, Outlives, VoteInv, ApprovedBy
<1>8. QED
  BY <1>2, <1>4, <1>5, <1>6, <1>7 DEF JobInv, Outlives

LEMMA VotesInit == Init => JobsInv
BY DEF Init, JobsInv

LEMMA VotesStep == Started /\ JobsInv /\ [Next]_vars => JobsInv'
<1>1. SUFFICES ASSUME Started, JobsInv, [Next]_vars PROVE JobsInv'
  OBVIOUS
<1>2. ASSUME NEW n \in Nodes, Start(n) \/ RegisterNode(n) \/ StepFails(n) \/ Kill(n)
      PROVE  JobsInv'
  BY <1>1, <1>2, StartLeaves, StartKeepsJobs
<1>3. ASSUME NEW w \in Workers, NEW n \in Nodes, Request(w, n)
      PROVE  JobsInv'
  BY <1>1, <1>3, RequestKeepsJobs
<1>4. ASSUME NEW w \in Workers, Handle(w)
      PROVE  JobsInv'
  BY <1>1, <1>4, ChecksKeepJobs, ExecuteKeepsJobs, DeclineKeepsJobs DEF Handle
<1>5. CASE UNCHANGED vars
  <2>1. Leaves
    BY <1>5 DEF vars, onChain, Leaves
  <2>2. QED
    BY <1>1, <2>1, StartKeepsJobs
<1>6. QED
  BY <1>1, <1>2, <1>3, <1>4, <1>5 DEF Next

LEMMA AlwaysIInv == Spec => []IInv
<1>1. Init => IInv
  BY InitTypes, StartsInit, VotesInit DEF IInv
<1>2. IInv /\ [Next]_vars => IInv'
  BY StepTypes, StartsAreRight, VotesStep DEF IInv, Started
<1>3. QED
  BY <1>1, <1>2, PTL DEF Spec

(* An approval takes permissions away only if another vote of its          *)
(* organization came in between, however many requests are handled, and    *)
(* whichever address their tokens hold.                                    *)
THEOREM ApprovalsOnlyGrant == Spec => []ApprovalsDoNotRevoke
<1>1. IInv => ApprovalsDoNotRevoke
  BY DEF IInv, Typed, TypeOK, JobsInv, JobInv, VoteInv, ApprovalsDoNotRevoke
<1>2. QED
  BY AlwaysIInv, <1>1, PTL

(* What one organization approves and declines at once, it has been asked  *)
(* to do by two requests at once.                                          *)
THEOREM NotBothAtOnce == Spec => []DeclinedOrApproved
<1>1. IInv => DeclinedOrApproved
  BY DEF IInv, Typed, TypeOK, JobsInv, JobInv, DeclinedOrApproved
<1>2. QED
  BY AlwaysIInv, <1>1, PTL
=============================================================================

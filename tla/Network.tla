------------------------------ MODULE Network ------------------------------
(***************************************************************************)
(* How organizations and their nodes join the network.  A node registers   *)
(* through the API of another one (blockchain/src/connectToChain.js), the  *)
(* organizations that are there approve or decline it (api/src/network),   *)
(* and its own API, which has been waiting for that, sets up what the      *)
(* organization needs on the chain (api/src/index.ts, organization,        *)
(* system): its address, the registration, a pair of keys and the URL of   *)
(* its storage service.                                                    *)
(*                                                                         *)
(* An API may be killed between any two steps of its start, and starts     *)
(* from the beginning; it serves requests all the while.  Voting reads the *)
(* chain several times before it grants or revokes.  The nodes share one   *)
(* chain; what MultiChain does with a vote is taken from how the code      *)
(* reads the result.                                                       *)
(***************************************************************************)
EXTENDS Naturals, Sequences, FiniteSets, SequencesExt

CONSTANTS
    Nodes,          \* nodes, their wallet addresses, and the APIs they serve
    Organizations,
    OrganizationOf, \* the organization each API is configured with
    Alpha,          \* the node that has created the chain
    None,
    Workers,        \* requests handled at the same time
    MaxRequests,    \* bound: votes and declines begun
    MaxFailures     \* bound: APIs killed, and steps of a start that fail

ASSUME NetworkAssumption ==
    /\ IsFiniteSet(Nodes) /\ Alpha \in Nodes /\ None \notin Nodes \cup Organizations
    /\ OrganizationOf \in [Nodes -> Organizations]
    /\ MaxRequests \in Nat /\ MaxFailures \in Nat

VARIABLES
    pc,         \* how far the start of each API has come
    pair,       \* the key pair it has generated
    wallet,     \* the addresses whose private keys the wallet of a node holds
    registered, \* nodes stream: the nodes, in the order of registration
    declinedBy, \* nodes stream: the organizations that have declined a node
    connect,    \* the addresses that have given a node basic permissions
    admin,      \* the addresses whose votes have made a node an admin
    pendingVotes, \* admins that want to change that
    address,    \* organization stream: the address, the latest one counts
    addresses,  \* organization stream: all that it has ever been
    privateKey, \* organization stream: the private key, the latest one counts
    publicKey,  \* public_keys stream: the public key, the first one counts
    storageUrl, \* by whose API the storage service URL was published
    generated,  \* number of pairs generated
    job,        \* the request each worker handles
    raced,      \* history: organizations several APIs of which started at once
    interrupted, \* history: those an API of which has stopped between the two keys
    requests, failures

onChain == <<registered, declinedBy, connect, admin, pendingVotes>>
set     == <<address, addresses, privateKey, publicKey, storageUrl, generated, pair, wallet>>
vars    == <<pc, onChain, set, job, raced, interrupted, requests, failures>>

-----------------------------------------------------------------------------
(* Permissions as the code reads them (Nodes.ts, vote.ts, voteHelper.ts).  *)

Votes == {"none", "basic", "admin"}

(* approvedBy: who has approved, or, if that is not enough yet, wants to.  *)
ApprovedBy(t) == IF admin[t] # {} THEN admin[t] ELSE pendingVotes[t]

GetCurrentVote(caller, t) ==
    IF caller \in ApprovedBy(t) THEN "admin"
    ELSE IF caller \in connect[t] THEN "basic" ELSE "none"

(* getCurrentAccess counts what is in effect.                              *)
GetCurrentAccess(t) ==
    IF admin[t] # {} THEN "admin" ELSE IF connect[t] # {} THEN "basic" ELSE "none"

(* computeWhatToDo: an operation, and whether it is for all permissions.   *)
ComputeWhatToDo(current, next) ==
    CASE current = next -> [op |-> "no action", all |-> FALSE]
      [] current # "admin" /\ next = "admin" -> [op |-> "grant", all |-> TRUE]
      [] current = "none" /\ next = "basic" -> [op |-> "grant", all |-> FALSE]
      [] current # "none" /\ next = "none" -> [op |-> "revoke", all |-> TRUE]
      [] OTHER -> [op |-> "revoke", all |-> FALSE]

-----------------------------------------------------------------------------
(* MultiChain: basic permissions are given and taken by any admin, those   *)
(* of an admin by more than half of the admins.                            *)

Admins   == {n \in Nodes : admin[n] # {}}
Majority == Cardinality(Admins) \div 2 + 1

(* grantfrom and revokefrom, the node holding the private key of caller.   *)
GrantFrom(caller, t, all) ==
    /\ connect' = [connect EXCEPT ![t] = @ \cup {caller}]
    /\ LET votes == pendingVotes[t] \cup {caller}
       IN  IF ~all THEN UNCHANGED <<admin, pendingVotes>>
           ELSE IF admin[t] # {}
             THEN /\ admin' = [admin EXCEPT ![t] = @ \cup {caller}]
                  /\ pendingVotes' = [pendingVotes EXCEPT ![t] = @ \ {caller}]
           ELSE IF Cardinality(votes) >= Majority
             THEN /\ admin' = [admin EXCEPT ![t] = votes]
                  /\ pendingVotes' = [pendingVotes EXCEPT ![t] = {}]
           ELSE /\ pendingVotes' = [pendingVotes EXCEPT ![t] = votes]
                /\ UNCHANGED admin

RevokeFrom(caller, t, all) ==
    /\ connect' = [connect EXCEPT ![t] = IF all THEN {} ELSE @]
    /\ LET votes == pendingVotes[t] \cup {caller}
       IN  IF admin[t] = {}
             THEN /\ pendingVotes' = [pendingVotes EXCEPT ![t] = @ \ {caller}]
                  /\ UNCHANGED admin
           ELSE IF Cardinality(votes) >= Majority
             THEN /\ admin' = [admin EXCEPT ![t] = {}]
                  /\ pendingVotes' = [pendingVotes EXCEPT ![t] = {}]
           ELSE /\ pendingVotes' = [pendingVotes EXCEPT ![t] = votes]
                /\ UNCHANGED admin

-----------------------------------------------------------------------------
Init ==
    /\ pc = [n \in Nodes |-> "waiting"]
    /\ pair = [n \in Nodes |-> 0]
    /\ wallet = [n \in Nodes |-> {n}]
    /\ registered = <<>>
    /\ declinedBy = [n \in Nodes |-> {}]
    /\ connect = [n \in Nodes |-> IF n = Alpha THEN {Alpha} ELSE {}]
    /\ admin = connect
    /\ pendingVotes = [n \in Nodes |-> {}]
    /\ address = [o \in Organizations |-> None]
    /\ addresses = [o \in Organizations |-> {}]
    /\ privateKey = [o \in Organizations |-> 0]
    /\ publicKey = [o \in Organizations |-> 0]
    /\ storageUrl = [o \in Organizations |-> None]
    /\ generated = 0
    /\ job = [w \in Workers |-> None]
    /\ raced = {} /\ interrupted = {}
    /\ requests = 0 /\ failures = 0

-----------------------------------------------------------------------------
(* The start of an API.  The steps between two of which it waits for the   *)
(* chain are actions; other APIs of the organization may be between the    *)
(* same two.                                                               *)

SetUp == {"address", "publish address", "register", "public key", "private key",
          "publish private key", "check public key", "publish public key", "storage"}

(* How a start may end, but for coming up.                                 *)
Exited == {"failed", "already exists", "cannot create public key"}

Goto(n, step) == pc' = [pc EXCEPT ![n] = step]

Step(n, from, to) ==
    /\ pc[n] = from /\ Goto(n, to)
    /\ UNCHANGED <<onChain, job, interrupted, requests, failures>>

(* isReady: some address of the wallet has the "send" permission.  It can  *)
(* be revoked again at any time, and whatever is published needs it.       *)
IsReady(n) == \E a \in wallet[n] : connect[a] # {}

BecomeReady(n) ==
    LET o == OrganizationOf[n]
    IN  /\ IsReady(n)
        /\ Step(n, "waiting", "address")
        /\ raced' = IF \E m \in Nodes \ {n} : OrganizationOf[m] = o /\ pc[m] \in SetUp
                      THEN raced \cup {o} ELSE raced
        /\ UNCHANGED set

(* ensureOrganizationAddress takes over the address that is published, ... *)
OnlyIfOwn(n) == address[OrganizationOf[n]] = n         \* mutant: condition too strong
AddressFromStream(n) == address[OrganizationOf[n]] # None

NotImported(n) == wallet[n]                            \* mutant: missing import
Imported(n) == wallet[n] \cup {address[OrganizationOf[n]]}

ImportAddress(n) ==
    /\ AddressFromStream(n)
    /\ Step(n, "address", "register")
    /\ wallet' = [wallet EXCEPT ![n] = Imported(n)]
    /\ UNCHANGED <<address, addresses, privateKey, publicKey, storageUrl, generated, pair, raced>>

NoAddress(n) ==
    /\ address[OrganizationOf[n]] = None
    /\ Step(n, "address", "publish address")
    /\ UNCHANGED <<set, raced>>

(* ... or publishes the oldest one of the wallet.                          *)
PublishAddress(n) ==
    /\ IsReady(n)
    /\ Step(n, "publish address", "register")
    /\ address' = [address EXCEPT ![OrganizationOf[n]] = n]
    /\ addresses' = [addresses EXCEPT ![OrganizationOf[n]] = @ \cup {n}]
    /\ UNCHANGED <<privateKey, publicKey, storageUrl, generated, pair, wallet, raced>>

IsRegistered(n) == Contains(registered, n)
RegisteredTwice(n) == Append(registered, n)            \* mutant: not looked up
Registered(n) == IF IsRegistered(n) THEN registered ELSE Append(registered, n)

(* registerSelf.  A second event for a node would change nothing.  It is   *)
(* tried again for as long as it cannot be published.                      *)
RegisterSelf(n) ==
    /\ pc[n] = "register" /\ Goto(n, "public key")
    /\ IsRegistered(n) \/ IsReady(n)
    /\ registered' = Registered(n)
    /\ UNCHANGED <<declinedBy, connect, admin, pendingVotes, set, job, raced, interrupted,
                   requests, failures>>

(* registerNodeAtAlpha, by the node, at an API of another organization.    *)
RegisterNode(n) ==
    /\ ~IsRegistered(n)
    /\ \E m \in Nodes \ {n} : pc[m] \notin Exited /\ IsReady(m)
    /\ registered' = Registered(n)
    /\ UNCHANGED <<pc, declinedBy, connect, admin, pendingVotes, set, job, raced, interrupted,
                   requests, failures>>

(* ensurePublicKeyPublished.                                               *)
AlwaysMissing(n) == TRUE                               \* mutant: not looked up
PublicKeyMissing(n) == publicKey[OrganizationOf[n]] = 0

PublicKeyFound(n) ==
    /\ ~PublicKeyMissing(n)
    /\ Step(n, "public key", "storage")
    /\ UNCHANGED <<set, raced>>

NoPublicKey(n) ==
    /\ PublicKeyMissing(n)
    /\ Step(n, "public key", "private key")
    /\ UNCHANGED <<set, raced>>

(* A private key without a public one: getPrivateKey returns the key in    *)
(* base64, of which createPublicKey can make nothing, and the API exits.   *)
CannotCreatePublicKey(n) ==
    /\ privateKey[OrganizationOf[n]] # 0
    /\ Step(n, "private key", "cannot create public key")
    /\ UNCHANGED <<set, raced>>

NotThePrivateKey == "check public key"                 \* mutant: missing call
PublishedFirst == "publish private key"

GenerateKeyPair(n) ==
    /\ privateKey[OrganizationOf[n]] = 0
    /\ Step(n, "private key", PublishedFirst)
    /\ generated' = generated + 1
    /\ pair' = [pair EXCEPT ![n] = generated + 1]
    /\ UNCHANGED <<address, addresses, privateKey, publicKey, storageUrl, wallet, raced>>

(* publishPrivateKey looks once more; the time between that and its        *)
(* publication is part of the one before.                                  *)
PrivateKeyExists(n) ==
    /\ privateKey[OrganizationOf[n]] # 0
    /\ Step(n, "publish private key", "already exists")
    /\ UNCHANGED <<set, raced>>

PublishPrivateKey(n) ==
    /\ IsReady(n)
    /\ Step(n, "publish private key", "check public key")
    /\ privateKey' = [privateKey EXCEPT ![OrganizationOf[n]] = pair[n]]
    /\ UNCHANGED <<address, addresses, publicKey, storageUrl, generated, pair, wallet, raced>>

PublicKeyExists(n) ==
    /\ publicKey[OrganizationOf[n]] # 0
    /\ Step(n, "check public key", "already exists")
    /\ UNCHANGED <<set, raced>>

NoPublicKeyYet(n) ==
    /\ publicKey[OrganizationOf[n]] = 0
    /\ Step(n, "check public key", "publish public key")
    /\ UNCHANGED <<set, raced>>

(* sourcePublicKeys ignores a second key of an organization.               *)
PublishPublicKey(n) ==
    /\ IsReady(n)
    /\ Step(n, "publish public key", "storage")
    /\ publicKey' = [publicKey EXCEPT ![OrganizationOf[n]] = IF @ = 0 THEN pair[n] ELSE @]
    /\ UNCHANGED <<address, addresses, privateKey, storageUrl, generated, pair, wallet, raced>>

(* ensureStorageServiceUrlPublished: published if it is another one.       *)
PublishStorageUrl(n) ==
    /\ storageUrl[OrganizationOf[n]] = n \/ IsReady(n)
    /\ Step(n, "storage", "up")
    /\ storageUrl' = [storageUrl EXCEPT ![OrganizationOf[n]] = n]
    /\ UNCHANGED <<address, addresses, privateKey, publicKey, generated, pair, wallet, raced>>

(* After an error ensureOrganizationStream and registerSelf try again from *)
(* their beginning, the others end the process.                            *)
AfterError(step) ==
    IF step \in {"address", "publish address"} THEN "address"
    ELSE IF step = "register" THEN "register" ELSE "failed"

Interrupts(n) ==
    interrupted' = IF pc[n] \in {"check public key", "publish public key"}
                     THEN interrupted \cup {OrganizationOf[n]} ELSE interrupted

StepFails(n) ==
    /\ pc[n] \in SetUp /\ failures < MaxFailures
    /\ Goto(n, AfterError(pc[n])) /\ Interrupts(n)
    /\ failures' = failures + 1
    /\ UNCHANGED <<onChain, set, job, raced, requests>>

(* What the step is to publish is refused, for want of the permission.     *)
Publishes(n) ==
    \/ pc[n] \in {"publish address", "publish private key", "publish public key"}
    \/ pc[n] = "register" /\ ~IsRegistered(n)
    \/ pc[n] = "storage" /\ storageUrl[OrganizationOf[n]] # n

Refused(n) ==
    /\ Publishes(n) /\ ~IsReady(n)
    /\ Goto(n, AfterError(pc[n])) /\ Interrupts(n)
    /\ UNCHANGED <<onChain, set, job, raced, requests, failures>>

(* "restart: always".  What an API was asked for is lost with it.          *)
WithoutThoseOf(n) ==
    [w \in Workers |-> IF job[w] # None /\ job[w].node = n THEN None ELSE job[w]]

Restart(n) ==
    /\ pc[n] \in Exited
    /\ Goto(n, "waiting")
    /\ job' = WithoutThoseOf(n)
    /\ UNCHANGED <<onChain, set, raced, interrupted, requests, failures>>

Kill(n) ==
    /\ pc[n] \in SetUp \cup {"waiting", "up"} /\ failures < MaxFailures
    /\ Goto(n, "waiting") /\ Interrupts(n)
    /\ failures' = failures + 1
    /\ job' = WithoutThoseOf(n)
    /\ UNCHANGED <<onChain, set, raced, requests>>

-----------------------------------------------------------------------------
(* Votes.  What has been voted or declined by the organization of a        *)
(* request since it was begun is its news.                                 *)

Idle(w) == job[w] = None /\ requests < MaxRequests

(* The server listens before the start of its API is over.  A request is   *)
(* that of a token, which holds the address that the organization had when *)
(* its user logged in.                                                     *)
Begin(w, n, t, kind, vote, step) ==
    /\ Idle(w) /\ pc[n] \notin Exited
    /\ \E caller \in addresses[OrganizationOf[n]] :
        job' = [job EXCEPT ![w] =
            [node |-> n, caller |-> caller, target |-> t, kind |-> kind, vote |-> vote,
             step |-> step, op |-> "no action", all |-> FALSE, news |-> {}]]
    /\ requests' = requests + 1
    /\ UNCHANGED <<pc, onChain, set, raced, interrupted, failures>>

ByTheNode(n, t) == n \in declinedBy[t]                 \* mutant: compares addresses
HasDeclined(n, t) == OrganizationOf[n] \in declinedBy[t]

ApproveNewNode(w, n, t) ==
    /\ IsRegistered(t) /\ ~HasDeclined(n, t)
    /\ Begin(w, n, t, "approve node", "basic", "vote")

(* The first node that has registered for that organization.               *)
IsFirstNode(t) ==
    \E i \in DOMAIN registered :
        /\ registered[i] = t
        /\ \A j \in 1 .. i - 1 : OrganizationOf[registered[j]] # OrganizationOf[t]

ApproveNewOrganization(w, n, t) ==
    IsFirstNode(t) /\ Begin(w, n, t, "approve organization", "admin", "vote")

VoteForPermission(w, n, t, vote) == Begin(w, n, t, "vote", vote, "compute")

DeclineNode(w, n, t) ==
    /\ IsRegistered(t) /\ ~HasDeclined(n, t) /\ connect[t] = {}
    /\ Begin(w, n, t, "decline", "none", "publish")

At(w, step) == job[w] # None /\ job[w].step = step /\ pc[job[w].node] \notin Exited

NoConflict(found) == FALSE                             \* mutant: dropped guards
Conflict(found) == found # "none"

(* voteHelper: a conflict if the organization has voted already, ...       *)
CheckVote(w) ==
    /\ At(w, "vote")
    /\ job' = [job EXCEPT ![w] =
            IF Conflict(GetCurrentVote(job[w].caller, job[w].target)) THEN None
            ELSE [job[w] EXCEPT !.step = "access"]]
    /\ UNCHANGED <<pc, onChain, set, raced, interrupted, requests, failures>>

(* ... or if the node has access.                                          *)
CheckAccess(w) ==
    /\ At(w, "access")
    /\ job' = [job EXCEPT ![w] =
            IF Conflict(GetCurrentAccess(job[w].target)) THEN None
            ELSE [job[w] EXCEPT !.step = "compute"]]
    /\ UNCHANGED <<pc, onChain, set, raced, interrupted, requests, failures>>

(* voteForNetworkPermission finds out the vote once more.                  *)
Compute(w) ==
    /\ At(w, "compute")
    /\ LET todo == ComputeWhatToDo(GetCurrentVote(job[w].caller, job[w].target),
                                   job[w].vote)
       IN  job' = [job EXCEPT ![w] =
                IF todo.op = "no action" THEN None
                ELSE [job[w] EXCEPT !.step = "execute", !.op = todo.op, !.all = todo.all]]
    /\ UNCHANGED <<pc, onChain, set, raced, interrupted, requests, failures>>

Finish(w, done) ==
    job' = [v \in Workers |->
        IF v = w \/ job[v] = None THEN None
        ELSE IF /\ OrganizationOf[job[v].node] = OrganizationOf[job[w].node]
                /\ job[v].target = job[w].target
          THEN [job[v] EXCEPT !.news = @ \cup {done}] ELSE job[v]]

(* MultiChain refuses who is not an admin, or whose key the wallet lacks,  *)
(* and that the last admin goes.                                           *)
Execute(w) ==
    /\ At(w, "execute")
    /\ LET r == job[w]
           allowed == /\ r.caller \in Admins \cap wallet[r.node]
                      /\ r.op = "revoke" => Admins # {r.target}
       IN  /\ IF allowed
                THEN IF r.op = "grant" THEN GrantFrom(r.caller, r.target, r.all)
                     ELSE RevokeFrom(r.caller, r.target, r.all)
                ELSE UNCHANGED <<connect, admin, pendingVotes>>
           /\ Finish(w, r.op)
    /\ UNCHANGED <<pc, registered, declinedBy, set, raced, interrupted, requests, failures>>

(* Nodes.publish; it is an error without the permission.                   *)
PublishDeclined(w) ==
    /\ At(w, "publish")
    /\ declinedBy' = [declinedBy EXCEPT ![job[w].target] =
            IF IsReady(job[w].node) THEN @ \cup {OrganizationOf[job[w].node]} ELSE @]
    /\ Finish(w, "decline")
    /\ UNCHANGED <<pc, registered, connect, admin, pendingVotes, set, raced, interrupted,
                   requests, failures>>

-----------------------------------------------------------------------------
Start(n) ==
    \/ BecomeReady(n) \/ ImportAddress(n) \/ NoAddress(n) \/ PublishAddress(n)
    \/ RegisterSelf(n) \/ PublicKeyFound(n) \/ NoPublicKey(n)
    \/ CannotCreatePublicKey(n) \/ GenerateKeyPair(n)
    \/ PrivateKeyExists(n) \/ PublishPrivateKey(n)
    \/ PublicKeyExists(n) \/ NoPublicKeyYet(n) \/ PublishPublicKey(n)
    \/ PublishStorageUrl(n) \/ Refused(n) \/ Restart(n)

Request(w, n) ==
    \E t \in Nodes :
        \/ ApproveNewNode(w, n, t) \/ ApproveNewOrganization(w, n, t) \/ DeclineNode(w, n, t)
        \/ \E vote \in Votes : VoteForPermission(w, n, t, vote)

Handle(w) == CheckVote(w) \/ CheckAccess(w) \/ Compute(w) \/ Execute(w) \/ PublishDeclined(w)

Next ==
    \/ \E n \in Nodes : Start(n) \/ RegisterNode(n) \/ StepFails(n) \/ Kill(n)
    \/ \E w \in Workers : Handle(w) \/ \E n \in Nodes : Request(w, n)

(* An API that has been started goes on, and waits for its chain by trying *)
(* again; nothing obliges anybody to vote.                                 *)
Spec == Init /\ [][Next]_vars /\ \A n \in Nodes : WF_vars(Start(n))

-----------------------------------------------------------------------------
(* Properties.                                                             *)

Steps == {"waiting", "up"} \cup SetUp \cup Exited

Job == [node: Nodes, caller: Nodes, target: Nodes, vote: Votes, all: BOOLEAN,
        kind: {"approve node", "approve organization", "vote", "decline"},
        step: {"vote", "access", "compute", "execute", "publish"},
        op: {"no action", "grant", "revoke"}, news: SUBSET {"grant", "revoke", "decline"}]

TypeOK ==
    /\ pc \in [Nodes -> Steps] /\ pair \in [Nodes -> Nat]
    /\ wallet \in [Nodes -> SUBSET Nodes]
    /\ registered \in Seq(Nodes) /\ IsInjective(registered)
    /\ declinedBy \in [Nodes -> SUBSET Organizations]
    /\ connect \in [Nodes -> SUBSET Nodes]
    /\ admin \in [Nodes -> SUBSET Nodes] /\ pendingVotes \in [Nodes -> SUBSET Nodes]
    /\ address \in [Organizations -> Nodes \cup {None}]
    /\ addresses \in [Organizations -> SUBSET Nodes]
    /\ privateKey \in [Organizations -> Nat] /\ publicKey \in [Organizations -> Nat]
    /\ storageUrl \in [Organizations -> Nodes \cup {None}]
    /\ generated \in Nat /\ job \in [Workers -> Job \cup {None}]
    /\ raced \subseteq Organizations /\ interrupted \subseteq Organizations
    /\ requests \in 0 .. MaxRequests /\ failures \in 0 .. MaxFailures

(* Whatever is killed in between, the public key of an organization is not *)
(* published without a private one, and they belong together unless two    *)
(* APIs of the organization were starting at the same time.                *)
KeysBelongTogether ==
    \A o \in Organizations : publicKey[o] # 0 =>
        /\ privateKey[o] # 0
        /\ o \in raced \/ privateKey[o] = publicKey[o]

(* An API that has come up can sign as its organization, is registered,    *)
(* and finds the keys and the storage service of its organization.         *)
UpIsUsable ==
    \A n \in Nodes : pc[n] = "up" =>
        LET o == OrganizationOf[n]
        IN  /\ o \in raced \/ address[o] \in wallet[n]
            /\ IsRegistered(n) /\ publicKey[o] # 0 /\ storageUrl[o] # None

HalfPublished(o) == privateKey[o] # 0 /\ publicKey[o] = 0

(* An API that finds what it is about to publish has met another one, and  *)
(* one that cannot create its public key follows one that was killed, or   *)
(* failed, or lost its permission, between the two keys, or has met one.   *)
ExitsHaveACause ==
    \A n \in Nodes :
        /\ pc[n] = "already exists" => OrganizationOf[n] \in raced
        /\ pc[n] = "cannot create public key" =>
              OrganizationOf[n] \in raced
                \/ (HalfPublished(OrganizationOf[n]) /\ OrganizationOf[n] \in interrupted)

(* An approval takes permissions away, and a node is approved and declined *)
(* by one organization, only if another vote of that organization came in  *)
(* between.                                                                *)
ApprovalsDoNotRevoke ==
    \A w \in Workers :
        job[w] # None /\ job[w].kind \in {"approve node", "approve organization"} =>
            job[w].op # "revoke" \/ "grant" \in job[w].news

DeclinedOrApproved ==
    \A w \in Workers : job[w] # None =>
        LET r == job[w]
        IN  /\ r.kind = "approve node" => ~(OrganizationOf[r.node] \in declinedBy[r.target])
                                            \/ "decline" \in r.news
            /\ r.kind = "decline" =>
                  r.caller \notin connect[r.target] \/ "grant" \in r.news

(* When nothing fails any more, every API comes up and stays up, or lacks  *)
(* a permission, which it has not been given or which has been taken from  *)
(* it in the middle of its start, unless its organization has but one half *)
(* of its keys.                                                            *)
EventuallyUp ==
    \A n \in Nodes :
        <>[](pc[n] = "up" \/ ~IsReady(n) \/ HalfPublished(OrganizationOf[n]))
=============================================================================

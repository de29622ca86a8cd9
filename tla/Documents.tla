----------------------------- MODULE Documents -----------------------------
(***************************************************************************)
(* The documents of workflowitems, over several organizations.  The bytes  *)
(* lie in the storage service of the organization of whoever uploads them. *)
(* On the chain are a reference in the workflowitem, an event that says    *)
(* where the document lies, and the secret that opens it, once for each    *)
(* organization that may, encrypted with its public key.                   *)
(*                                                                         *)
(* Uploading comes first and waits for the storage service; the events are *)
(* stored one by one after it, and the sharing of what an update has added *)
(* comes last.  Any of these steps may fail, and other requests are        *)
(* handled in between.  The order of the documents of a request, and of    *)
(* the organizations they are shared with, is left open.                   *)
(*                                                                         *)
(* Two ways to become a reader come without any sharing: to be made a      *)
(* member of a group, and to be assigned a restricted workflowitem.        *)
(***************************************************************************)
EXTENDS Naturals, FiniteSets

CONSTANTS
    Organizations,
    Users,
    OrganizationOf,  \* the organization of each user
    Groups,
    FirstMembers,    \* the members each group was created with
    Root,            \* the user "root", who is not on the chain
    Creators,        \* users with subproject.createWorkflowitem
    Items, Docs,
    Intents,         \* workflowitemIntents
    NoOne,
    Workers,         \* requests handled at the same time
    MaxDocs,         \* bound: documents in one request
    MaxRequests      \* bound: requests begun, and changes of groups

ListIntent   == "workflowitem.list"
UpdateIntent == "workflowitem.update"
AssignIntent == "workflowitem.assign"
GrantIntent  == "workflowitem.intent.grantPermission"
RevokeIntent == "workflowitem.intent.revokePermission"

Identities == Users \cup Groups

ASSUME DocumentsAssumption ==
    /\ OrganizationOf \in [Users -> Organizations]
    /\ FirstMembers \in [Groups -> SUBSET Users]
    /\ Users \cap Groups = {} /\ Root \notin Identities
    /\ NoOne \notin Organizations \cup Docs \cup Identities /\ Creators \subseteq Users
    /\ {ListIntent, UpdateIntent, AssignIntent, GrantIntent, RevokeIntent} \subseteq Intents
    /\ MaxDocs \in Nat /\ MaxRequests \in Nat

(* What a token says of a user: his groups when he logged in.              *)
ServiceUser == [id: Users \cup {Root}, groups: SUBSET Groups]

(* The requests a worker may handle, and none (undefined).                 *)
Job ==
    [op: {"create", "update", "grant", "assign"},
     step: {"upload", "store", "announce", "share", "grant", "secrets",
            "assign", "hand over", "withdraw"},
     issuer: ServiceUser, item: Items, docs: SUBSET Docs, left: SUBSET Docs,
     refused: BOOLEAN, half: Docs \cup {NoOne}, pairs: SUBSET (Docs \X Organizations),
     grantee: Identities \cup {NoOne}, intents: SUBSET Intents]

ASSUME NoRequestAssumption == NoOne \notin Job

VARIABLES
    stored,      \* which storage service holds which documents
    ids,         \* the ids given to items and documents so far
    items,       \* the workflowitems created
    references,  \* the documents of each workflowitem
    uploaded,    \* the organization where a document lies, by its event
    secrets,     \* the secrets published: document and organization
    permissions, \* of the workflowitems: item, intent, identity
    assignee,    \* of each restricted workflowitem; NoOne for the others
    members,     \* the members of each group
    job,         \* the request that each worker handles
    tokens,      \* history: what the tokens of the users may say
    given,       \* history: items and whom something was granted on them
    excused,     \* history: items of failed and of overlapping requests
    leftOut,     \* history: items and their readers nobody shared them with
    requests     \* number of requests begun

Announced == <<uploaded, secrets>>
Item      == <<items, references, permissions, assignee>>
Group     == <<members, tokens>>

vars == <<stored, ids, Item, Announced, Group, job, given, excused, leftOut, requests>>

-----------------------------------------------------------------------------
(* s is a service user: the groups are those of the token.                 *)
Permits(i, s, n) ==
    s.id = Root \/ \E x \in {s.id} \cup s.groups : <<i, n, x>> \in permissions

(* The token that a user gets who logs in now.                             *)
TokenOf(u) == [id |-> u, groups |-> {g \in Groups : u \in members[g]}]

Reads(i, u) == Permits(i, TokenOf(u), ListIntent)

(* A user, or the members of a group, and their organizations.             *)
UsersOf(x) == IF x \in Users THEN {x} ELSE members[x]

OrganizationsOf(x) == {OrganizationOf[u] : u \in UsersOf(x)}

(* shareDocument does nothing if the organization has the secret, or if    *)
(* the event that says where the document lies is missing.                 *)
NotMine(d, o) ==                               \* mutant: any secret will do
    uploaded[d] # NoOne /\ ~\E p \in Organizations : <<d, p>> \in secrets

ToShare(d, o) == uploaded[d] # NoOne /\ <<d, o>> \notin secrets

(* Else it decrypts the secret of the own organization, and refuses root   *)
(* and who may not grant permissions.                                      *)
MayShare(s, i, d) ==
    /\ s.id # Root
    /\ <<d, OrganizationOf[s.id]>> \in secrets
    /\ Permits(i, s, GrantIntent)

-----------------------------------------------------------------------------
Init ==
    /\ stored = {} /\ ids = {} /\ items = {}
    /\ references = [i \in Items |-> {}]
    /\ uploaded = [d \in Docs |-> NoOne]
    /\ secrets = {} /\ permissions = {}
    /\ assignee = [i \in Items |-> NoOne]
    /\ members = FirstMembers
    /\ job = [w \in Workers |-> NoOne]
    /\ tokens = {[id |-> Root, groups |-> {}]} \cup {TokenOf(u) : u \in Users}
    /\ given = {} /\ excused = {} /\ leftOut = {}
    /\ requests = 0

(* What a worker has to do: op is the request, step how far it has come,   *)
(* left the documents it has yet to upload or to announce, half the one it *)
(* has announced without its secret, pairs what it has yet to share, and   *)
(* intents what it has yet to grant, or to revoke, in a handover.          *)
Request(op, step, s, i, ds) ==
    [op |-> op, step |-> step, issuer |-> s, item |-> i, docs |-> ds, left |-> ds,
     refused |-> FALSE, half |-> NoOne, pairs |-> {}, grantee |-> NoOne,
     intents |-> {}]

At(w, step) == job[w] # NoOne /\ job[w].step = step

Idle(w) == job[w] = NoOne /\ requests < MaxRequests

Overlaps(i) == \E w \in Workers : job[w] # NoOne /\ job[w].item = i

Begin(w, request) ==
    /\ job' = [job EXCEPT ![w] = request]
    /\ excused' = IF Overlaps(request.item) THEN excused \cup {request.item} ELSE excused
    /\ requests' = requests + 1
    /\ UNCHANGED Group

(* createWorkflowitem gives fresh ids to the documents and uploads them    *)
(* before it looks at the permission.  Of a restricted workflowitem the    *)
(* assignee matters, who may be another one than the issuer.               *)
CreateWorkflowitem(w, s) ==
    /\ Idle(w)
    /\ \E i \in Items \ ids, ds \in SUBSET (Docs \ ids), x \in Identities \cup {NoOne} :
        /\ Cardinality(ds) <= MaxDocs
        /\ Begin(w, [Request("create", "upload", s, i, ds)
                        EXCEPT !.refused = s.id \notin Creators, !.grantee = x])
        /\ ids' = ids \cup ds \cup {i}
        /\ UNCHANGED <<stored, Item, Announced, given, leftOut>>

(* updateWorkflowitem reads the workflowitem before it uploads and checks  *)
(* after it the permissions it has read before.                            *)
UpdateWorkflowitem(w, s) ==
    /\ Idle(w)
    /\ \E i \in items, ds \in SUBSET (Docs \ ids) :
        /\ ds # {} /\ Cardinality(ds) <= MaxDocs
        /\ Begin(w, [Request("update", "upload", s, i, ds)
                        EXCEPT !.refused = s.id = Root \/ ~Permits(i, s, UpdateIntent)])
        /\ ids' = ids \cup ds
        /\ UNCHANGED <<stored, Item, Announced, given, leftOut>>

(* The storage service of the organization of the API, which is that of    *)
(* the issuer, who could log in nowhere else; root can everywhere.         *)
StorageOf(u) == IF u = Root THEN Organizations ELSE {OrganizationOf[u]}

Put(w) ==
    /\ At(w, "upload")
    /\ \E d \in job[w].left, o \in StorageOf(job[w].issuer.id) :
        /\ stored' = stored \cup {<<d, o>>}
        /\ job' = [job EXCEPT ![w].left = @ \ {d}]
    /\ UNCHANGED <<ids, Item, Announced, Group, given, excused, leftOut, requests>>

(* An error, or no answer in time: it may have stored it all the same.     *)
PutFails(w) ==
    /\ At(w, "upload")
    /\ \E d \in job[w].left, o \in StorageOf(job[w].issuer.id) :
        /\ stored' \in {stored, stored \cup {<<d, o>>}}
        /\ job' = [job EXCEPT ![w].left = @ \ {d}, ![w].refused = TRUE]
    /\ UNCHANGED <<ids, Item, Announced, Group, given, excused, leftOut, requests>>

NotAwaited(left) == TRUE                       \* mutant: missing await
AllDone(left) == left = {}

(* When all uploads have ended, well or not.                               *)
Decide(w) ==
    /\ At(w, "upload") /\ AllDone(job[w].left)
    /\ LET r == job[w]
       IN  job' = [job EXCEPT ![w] =
            IF r.refused THEN NoOne ELSE [r EXCEPT !.step = "store", !.left = r.docs]]
    /\ UNCHANGED <<stored, ids, Item, Announced, Group, given, excused, leftOut, requests>>

(* workflowitem_created or _updated, with the references.                  *)
StoreWorkflowitem(w) ==
    /\ At(w, "store")
    /\ LET r == job[w]
           own == IF r.op = "create" THEN {r.item} \X Intents \X {r.issuer.id} ELSE {}
       IN  /\ items' = items \cup {r.item}
           /\ references' = [references EXCEPT ![r.item] = @ \cup r.docs]
           /\ permissions' = permissions \cup own
           /\ assignee' = IF r.op = "create" THEN [assignee EXCEPT ![r.item] = r.grantee]
                                             ELSE assignee
           /\ given' = given \cup {<<p[1], p[3]>> : p \in own}
    /\ job' = [job EXCEPT ![w].step = "announce"]
    /\ UNCHANGED <<stored, ids, Announced, Group, excused, leftOut, requests>>

(* document_uploaded: the first event with an id is the one that counts.   *)
StoreDocumentUploaded(w) ==
    /\ At(w, "announce") /\ job[w].half = NoOne
    /\ \E d \in job[w].left :
        /\ uploaded' = [uploaded EXCEPT ![d] =
                            IF @ = NoOne THEN OrganizationOf[job[w].issuer.id] ELSE @]
        /\ job' = [job EXCEPT ![w].left = @ \ {d}, ![w].half = d]
    /\ UNCHANGED <<stored, ids, Item, secrets, Group, given, excused, leftOut, requests>>

StoreSecretPublished(w) ==
    /\ At(w, "announce") /\ job[w].half # NoOne
    /\ secrets' = secrets \cup {<<job[w].half, OrganizationOf[job[w].issuer.id]>>}
    /\ job' = [job EXCEPT ![w].half = NoOne]
    /\ UNCHANGED <<stored, ids, Item, uploaded, Group, given, excused, leftOut, requests>>

SecretsNotAwaited(r) == r.left = {}            \* mutant: missing await
AllAnnounced(r) == r.left = {} /\ r.half = NoOne

(* A creation ends here, unless the item is restricted.                    *)
EndCreation(w) ==
    /\ At(w, "announce") /\ job[w].op = "create" /\ AllAnnounced(job[w])
    /\ job' = [job EXCEPT ![w] =
            IF @.grantee = NoOne THEN NoOne
            ELSE [@ EXCEPT !.step = "hand over", !.intents = Intents]]
    /\ UNCHANGED <<stored, ids, Item, Announced, Group, given, excused, leftOut, requests>>

(* An update goes on to share what it has added with the readers.  It      *)
(* takes them all for users: a group among them is an error, although      *)
(* everything has been stored.                                             *)
EveryUser(i) == Users                          \* mutant: not filtered

Readers(i) == {x \in Identities : <<i, ListIntent, x>> \in permissions}

EndAnnouncing(w) ==
    /\ At(w, "announce") /\ job[w].op = "update" /\ AllAnnounced(job[w])
    /\ LET r == job[w]
       IN  IF Readers(r.item) \subseteq Users
             THEN /\ job' = [job EXCEPT ![w].step = "share",
                        ![w].pairs = r.docs \X UNION {OrganizationsOf(x) : x \in Readers(r.item)}]
                  /\ UNCHANGED excused
             ELSE /\ job' = [job EXCEPT ![w] = NoOne]
                  /\ excused' = excused \cup {r.item}
    /\ UNCHANGED <<stored, ids, Item, Announced, Group, given, leftOut, requests>>

(* documentShare, one document and organization at a time; the first that  *)
(* is refused is the last.                                                 *)
ShareDocument(w) ==
    /\ At(w, "share")
    /\ \E p \in job[w].pairs :
        \/ /\ ~ToShare(p[1], p[2])
           /\ job' = [job EXCEPT ![w].pairs = @ \ {p}]
           /\ UNCHANGED <<secrets, excused>>
        \/ /\ ToShare(p[1], p[2]) /\ MayShare(job[w].issuer, job[w].item, p[1])
           /\ secrets' = secrets \cup {p}
           /\ job' = [job EXCEPT ![w].pairs = @ \ {p}]
           /\ UNCHANGED excused
        \/ /\ ToShare(p[1], p[2]) /\ ~MayShare(job[w].issuer, job[w].item, p[1])
           /\ job' = [job EXCEPT ![w] = NoOne]
           /\ excused' = excused \cup {job[w].item}
           /\ UNCHANGED secrets
    /\ UNCHANGED <<stored, ids, Item, uploaded, Group, given, leftOut, requests>>

EndSharing(w) ==
    /\ At(w, "share") /\ job[w].pairs = {}
    /\ job' = [job EXCEPT ![w] = NoOne]
    /\ UNCHANGED <<stored, ids, Item, Announced, Group, given, excused, leftOut, requests>>

(* A grant comes with the secrets that the organizations of the grantee do *)
(* not have yet, and is refused if one of them cannot be had.              *)
GrantPermission(w, s) ==
    /\ Idle(w)
    /\ \E i \in items, n \in Intents, x \in Identities :
        LET pairs == {p \in references[i] \X OrganizationsOf(x) : ToShare(p[1], p[2])}
        IN  /\ Permits(i, s, GrantIntent) /\ <<i, n, x>> \notin permissions
            /\ \A p \in pairs : MayShare(s, i, p[1])
            /\ Begin(w, [Request("grant", "grant", s, i, {})
                            EXCEPT !.pairs = pairs, !.grantee = x, !.intents = {n}])
            /\ leftOut' = leftOut \ ({i} \X UsersOf(x))
            /\ UNCHANGED <<stored, ids, Item, Announced, given>>

StorePermissionGranted(w) ==
    /\ At(w, "grant")
    /\ permissions' = permissions \cup ({job[w].item} \X job[w].intents \X {job[w].grantee})
    /\ given' = given \cup {<<job[w].item, job[w].grantee>>}
    /\ job' = [job EXCEPT ![w].step = "secrets"]
    /\ UNCHANGED <<stored, ids, items, references, assignee, Announced, Group, excused,
                   leftOut, requests>>

StoreSharedSecret(w) ==
    /\ At(w, "secrets")
    /\ \E p \in job[w].pairs :
        /\ secrets' = secrets \cup {p}
        /\ job' = [job EXCEPT ![w].pairs = @ \ {p}]
    /\ UNCHANGED <<stored, ids, Item, uploaded, Group, given, excused, leftOut, requests>>

EndGrant(w) ==
    /\ At(w, "secrets") /\ job[w].pairs = {}
    /\ job' = [job EXCEPT ![w] = NoOne]
    /\ UNCHANGED <<stored, ids, Item, Announced, Group, given, excused, leftOut, requests>>

(* The assignment of a restricted workflowitem, which is to be handed over *)
(* by whoever may assign it and grant permissions on it.                   *)
AssignRestricted(w, s) ==
    /\ Idle(w)
    /\ \E i \in items, x \in Identities :
        /\ assignee[i] \notin {NoOne, x}
        /\ Permits(i, s, AssignIntent) /\ Permits(i, s, GrantIntent)
        /\ Begin(w, [Request("assign", "assign", s, i, {}) EXCEPT !.grantee = x])
        /\ UNCHANGED <<stored, ids, Item, Announced, given, leftOut>>

StoreAssigned(w) ==
    /\ At(w, "assign")
    /\ assignee' = [assignee EXCEPT ![job[w].item] = job[w].grantee]
    /\ job' = [job EXCEPT ![w].step = "hand over", ![w].intents = Intents]
    /\ UNCHANGED <<stored, ids, items, references, permissions, Announced, Group, given,
                   excused, leftOut, requests>>

(* The order of the events is that of workflowitemIntents.                 *)
NextOf(intents) == CHOOSE n \in intents : TRUE

(* The assignee is granted every intent; no secret comes with that.        *)
HandOver(w) ==
    /\ At(w, "hand over") /\ job[w].intents # {}
    /\ LET r == job[w]
           n == NextOf(r.intents)
       IN  /\ permissions' = permissions \cup {<<r.item, n, r.grantee>>}
           /\ given' = given \cup {<<r.item, r.grantee>>}
           /\ leftOut' = leftOut \cup ({r.item} \X {u \in UsersOf(r.grantee) : ~Reads(r.item, u)})
           /\ job' = [job EXCEPT ![w].intents = @ \ {n}]
    /\ UNCHANGED <<stored, ids, items, references, assignee, Announced, Group, excused, requests>>

EndHandOver(w) ==
    /\ At(w, "hand over") /\ job[w].intents = {}
    /\ job' = [job EXCEPT ![w].step = "withdraw",
            ![w].intents = IF job[w].grantee = job[w].issuer.id THEN {} ELSE Intents \ {ListIntent}]
    /\ UNCHANGED <<stored, ids, Item, Announced, Group, given, excused, leftOut, requests>>

(* The issuer, if another one, keeps but the permission to see it.         *)
Withdraw(w) ==
    /\ At(w, "withdraw") /\ job[w].intents # {}
    /\ LET n == NextOf(job[w].intents)
       IN  /\ permissions' = permissions \ {<<job[w].item, n, job[w].issuer.id>>}
           /\ job' = [job EXCEPT ![w].intents = @ \ {n}]
    /\ UNCHANGED <<stored, ids, items, references, assignee, Announced, Group, given, excused,
                   leftOut, requests>>

EndWithdraw(w) ==
    /\ At(w, "withdraw") /\ job[w].intents = {}
    /\ job' = [job EXCEPT ![w] = NoOne]
    /\ UNCHANGED <<stored, ids, Item, Announced, Group, given, excused, leftOut, requests>>

(* Secrets are not taken back.  The last grantor is the matter of Access.  *)
RevokePermission(s) ==
    /\ requests < MaxRequests
    /\ \E i \in items, n \in Intents, x \in Identities :
        /\ Permits(i, s, RevokeIntent)
        /\ n # GrantIntent /\ <<i, n, x>> \in permissions
        /\ permissions' = permissions \ {<<i, n, x>>}
        /\ requests' = requests + 1
        /\ UNCHANGED <<stored, ids, items, references, assignee, Announced, Group, job, given,
                       excused, leftOut>>

(* group_member_added and _removed.  Anybody may log in before and after   *)
(* it.  A new member was not among those that a grant is shared with which *)
(* the group is just being given.                                          *)
ChangeGroup ==
    /\ requests < MaxRequests
    /\ tokens' = tokens \cup {TokenOf(u)' : u \in Users}
    /\ requests' = requests + 1
    /\ UNCHANGED <<stored, ids, Item, Announced, job, given, excused>>

UnderWay(i, g) ==
    \E w \in Workers : job[w] # NoOne /\ job[w].op = "grant" /\ job[w].item = i /\ job[w].grantee = g

AddMember(g, u) ==
    /\ u \notin members[g]
    /\ members' = [members EXCEPT ![g] = @ \cup {u}]
    /\ leftOut' = leftOut \cup
            {i \in items : /\ ~Reads(i, u)
                           /\ <<i, ListIntent, g>> \in permissions \/ UnderWay(i, g)} \X {u}
    /\ ChangeGroup

RemoveMember(g, u) ==
    /\ u \in members[g]
    /\ members' = [members EXCEPT ![g] = @ \ {u}]
    /\ UNCHANGED leftOut
    /\ ChangeGroup

(* Storing fails or the API is killed: the rest is never done.             *)
Fail(w) ==
    /\ job[w] # NoOne
    /\ job' = [job EXCEPT ![w] = NoOne]
    /\ excused' = excused \cup {job[w].item}
    /\ UNCHANGED <<stored, ids, Item, Announced, Group, given, leftOut, requests>>

-----------------------------------------------------------------------------
Upload(w) == Put(w) \/ PutFails(w) \/ Decide(w)

Share(w) ==
    \/ EndAnnouncing(w) \/ ShareDocument(w) \/ EndSharing(w)
    \/ StorePermissionGranted(w) \/ StoreSharedSecret(w) \/ EndGrant(w)

Store(w) ==
    \/ StoreWorkflowitem(w) \/ StoreDocumentUploaded(w) \/ StoreSecretPublished(w)
    \/ EndCreation(w) \/ StoreAssigned(w)
    \/ HandOver(w) \/ EndHandOver(w) \/ Withdraw(w) \/ EndWithdraw(w)

Next ==
    \/ \E w \in Workers, s \in tokens :
        \/ CreateWorkflowitem(w, s) \/ UpdateWorkflowitem(w, s)
        \/ GrantPermission(w, s) \/ AssignRestricted(w, s)
    \/ \E w \in Workers : Upload(w) \/ Store(w) \/ Share(w) \/ Fail(w)
    \/ \E s \in tokens : RevokePermission(s)
    \/ \E g \in Groups, u \in Users : AddMember(g, u) \/ RemoveMember(g, u)

Spec == Init /\ [][Next]_vars

-----------------------------------------------------------------------------
(* Properties.                                                             *)

TypeOK ==
    /\ stored \subseteq Docs \X Organizations
    /\ ids \subseteq Items \cup Docs /\ items \subseteq Items
    /\ references \in [Items -> SUBSET Docs]
    /\ uploaded \in [Docs -> Organizations \cup {NoOne}]
    /\ secrets \subseteq Docs \X Organizations
    /\ permissions \subseteq Items \X Intents \X Identities
    /\ job \in [Workers -> Job \cup {NoOne}]
    /\ assignee \in [Items -> Identities \cup {NoOne}]
    /\ members \in [Groups -> SUBSET Users] /\ tokens \subseteq ServiceUser
    /\ given \subseteq Items \X Identities /\ excused \subseteq Items
    /\ leftOut \subseteq Items \X Users
    /\ requests \in 0 .. MaxRequests
    /\ \A i \in Items \ items : references[i] = {}
    /\ \A w \in Workers : job[w] # NoOne =>
          /\ job[w].left \subseteq job[w].docs /\ job[w].half \in job[w].docs \cup {NoOne}
          /\ job[w].half # NoOne => job[w].step = "announce"
          /\ job[w].step = "share" => job[w].left = {}

(* What the chain says of a document is true whatever has failed: a        *)
(* workflowitem refers to documents that are stored, they are where their  *)
(* events say, and there are secrets only of such documents.               *)
TheChainIsRight ==
    /\ \A i \in items : \A d \in references[i] : \E o \in Organizations : <<d, o>> \in stored
    /\ \A d \in Docs : uploaded[d] # NoOne => <<d, uploaded[d]>> \in stored
    /\ \A s \in secrets : uploaded[s[1]] # NoOne

WasMember(u, x) == \E s \in tokens : s.id = u /\ x \in s.groups

(* An organization gets the secret of a document only if it lies there or  *)
(* if one of its users, or a group that he was in, was granted something   *)
(* on a workflowitem that refers to it: not by a request that failed       *)
(* halfway, nor before the grant itself is stored.                         *)
SecretsAreGiven ==
    \A s \in secrets :
        \/ uploaded[s[1]] = s[2]
        \/ \E g \in given :
              /\ s[1] \in references[g[1]]
              /\ \E u \in Users :
                    /\ OrganizationOf[u] = s[2]
                    /\ u = g[2] \/ WasMember(u, g[2])

(* Download, as getDocument goes about it.                                 *)
Downloadable(u, i, d) ==
    /\ Reads(i, u) /\ d \in references[i]
    /\ uploaded[d] # NoOne
    /\ <<d, OrganizationOf[u]>> \in secrets
    /\ <<d, uploaded[d]>> \in stored

(* Whoever may see a workflowitem can download its documents, whichever    *)
(* came first, unless a request for it is under way, has failed, or has    *)
(* met another one, or he is left out: he could not see it before he was   *)
(* made a member of a group, or was handed over the item, and no grant to  *)
(* him or to his group has been begun since then.                          *)
ReadersCanDownload ==
    \A i \in items \ excused, u \in Users :
        ~Overlaps(i) /\ Reads(i, u) /\ <<i, u>> \notin leftOut =>
            \A d \in references[i] : Downloadable(u, i, d)
=============================================================================

# A TLA+ model of TruBudget

TruBudget is a workflow tool for public spending. Every organization runs an
API (Node.js) beside a node of a private blockchain (MultiChain). Everything
the API knows is derived from *events* in the chain's streams: a command reads
the state derived so far, decides, and publishes new events; a cache in the
API's memory turns the events into projects, subprojects and workflowitems. No
transaction spans the decision and the publishing, and no lock spans two
organizations. This directory holds the TLA+ modules that describe this, the
TLC configurations that check them, and TLAPS proofs about them.

Paths below are relative to `src/`; `domain/` is `api/src/service/domain/`.

## 1. Inventory

| component | state | operations | interacts with |
|---|---|---|---|
| event cache (`api/src/service/cache2.ts`, `RpcClient.ts`) | `Cache2`: lock, cursor per stream, events by stream, aggregates | `withCache` (refresh, then a transaction), `invalidateCache` | every request handler calls it, also from inside a transaction; RPC calls to the node |
| workflow lifecycle (`domain/workflow`, `api/src/service/*.ts`, `store.ts`) | the events of a project's stream, sourced to aggregates | create, assign, update, reorder, close; each yields events and notifications | reads through the cache, writes through `store`; expands an assignee through the groups |
| projects: creation, projected budgets | in the project's aggregate | create, update and delete an entry | as above |
| permissions, global permissions | permission lists in the aggregates, the stream `global` | grant, revoke, grant all, check | every command checks them |
| users and groups (`domain/organization`) | streams `users`, `groups`; tokens at the clients | create, enable, disable, password, members, log in | `resolveUsers`, authentication, assignments |
| restricted workflowitem type (`domain/workflowitem_types`) | none | adds grants and revocations to an assignment or a creation | permissions; makes readers of documents |
| documents and secrets (`domain/document`) | stream `documents`, the storage service of each organization | upload, share, download, validate | workflowitem create, update and grant; public keys |
| notifications | stream `notifications` | list, mark as read | written by the commands |
| network (`api/src/network`) | MultiChain permissions, stream `nodes` | register, vote, approve, decline, list | nodes of other organizations |
| start of the API (`api/src/index.ts`, `organization`, `system`) | the organization's stream (address, private key), streams `public_keys`, `storage_service_url`; the node's wallet | wait for permissions, then publish what is missing | other APIs of the organization; documents need the keys |
| provisioning flags | stream `system_information` | start, end, get | provisioning |
| provisioning (`provisioning/`) | none but what the API keeps | one run of calls, each retried | the API, over HTTP |
| old cache and `Client.ts` | streams of the old format | `updateValue` under a lock of its own | node |
| HTTP layer, authentication | none (tokens) | routes, schemas, `system.*` | every service function |
| blockchain wrapper (`blockchain/`) | the `multichaind` process, backups | spawn, restart, register, back up, restore | API, alpha node |
| multichain-feed, email, export, storage, logging services, frontend, migration, deployment | their own stores | I/O | API |

What is hard, and which properties would be wrong if it went wrong:

* **Interleaving.** JavaScript yields at every `await`. The cache's lock covers
  only the refresh: `withCache` returns the transaction's promise without
  awaiting it, so transactions run while others refresh. Closing a subproject
  reads it, awaits the groups, and reads its items afterwards.
  (`ShowsPrefixes`, `ReadsCoverListing`, `RestoredCacheIsClean`)
* **Decide, then store.** Between the two, requests of this API and of other
  organizations store their events. (`DecisionsStayJustified`, `ItemsLead`,
  `LastGrantorNeedsRace`, `ChecksFailOnlyByRaces`, `ApprovalsDoNotRevoke`;
  `OnlyCreationsReopen`; broken: `ClosedAfterTheChildren`)
* **Failures.** Any RPC call may fail or time out, an item may be unreadable or
  come without its data, the process may be killed, and a command may store only
  some of its events.
  (`RefreshMutex`, `CursorDescribesCache`, `OnlyHoldersAreNotified`,
  `NothingIsLostInHandover`, `TheChainIsRight`; broken: `EachItemOnce`)
* **Starting again.** The API and the provisioning process begin anew after a
  failure and must go on from whatever half they find. (`KeysBelongTogether`,
  `ExitsHaveACause`, `EventuallyUp`, `EndedMeansComplete`, `ClosedIsWhole`;
  broken: `PublicKeyIsDerived`)
* **Permissions that change meanwhile.** A node's permission to publish may be
  revoked in the middle of its start; a user may become a reader of documents by
  joining a group or by being assigned a restricted item. (`EventuallyUp`,
  `ExitsHaveACause`, `ReadersCanDownload`)
* **No answer.** A call that timed out may have been executed, or may be
  executed later. (`TheChainIsRight`, `DuplicatesNeedTimeouts`)
* **The chain changes.** Other nodes' blocks may win and replace or swap items;
  an administrator may restore a backup. (`CursorDescribesCache`,
  `RestoredCacheIsClean`; broken: `RebuildShowsTheChain`)
* **Waiting.** The lock is not reentrant, is polled without a queue, and
  transactions call `withCache` again. (`EveryRequestAnswered`)

`PROJECT.json` lists every hazard at its line and every component, modelled or
not.

## 2. The modules

| module | models |
|---|---|
| `Ledger` | the vocabulary of the cache: stream items, and the value (events or aggregates) that a sequence of items stands for |
| `Ledger_proofs` | what sourcing makes of sequences of items, for every sequence |
| `LedgerView` | what the cache promises: it shows the value of a prefix of each stream |
| `Cache` | `cache2.ts`, the RPC answers it works on, and the threads that call it |
| `MCCache` | instances for TLC, a reference definition of sourcing, and two statements of comments that the code does not keep |
| `Cache_proofs` | theorems about `Cache` |
| `ItemLife` | what ADR 0004 promises of a workflowitem's life |
| `Lifecycle` | the commands of `domain/workflow` and the storing of their events |
| `MCLifecycle` | instances for TLC and a statement of ADR 0004 that the code does not keep |
| `Lifecycle_proofs` | theorems about `Lifecycle`, the refinement of `ItemLife` included |
| `Access` | users, groups, logins, all permissions, restricted workflowitems |
| `MCAccess` | an instance for TLC; the split of the revocations on the list of `intents.ts` |
| `Access_proofs` | theorems about `Access` |
| `Documents` | documents of workflowitems: the storage service, the events, the secrets, the grants that share them, and the readers that come without sharing |
| `MCDocuments`, `Documents_proofs` | an instance for TLC, and theorems |
| `Network` | nodes joining the network, votes, and the start of an API |
| `MCNetwork` | instances for TLC and a comment that the code does not keep |
| `Network_proofs` | theorems about `Network` |
| `Provisioning`, `MCProvisioning` | the provisioning process, the API as it sees it, and an instance for TLC |
| `Provisioning_proofs` | theorems about `Provisioning` |

The modules that decide and store (`Lifecycle`, `Access`, `Documents`) stand on
what `Cache` shows: a command reads a prefix of what is on the chain. They are
kept apart because their states hardly meet: `Lifecycle` lets any request come,
`Access` says who may make it, `Documents` follows one command through the
storage service. `Network` starts where `Documents` assumes the keys to be, and
`Provisioning` calls the commands of all of them as atomic steps.

### Cache

The process is one JavaScript thread; an action is the code between two
points where it yields. A thread of execution is a call of `withCache`
(`Requests`) or a handler of `system.restoreBackup` (`Restorers`).

| variable | code |
|---|---|
| `chain`, `published` | what the local node lists (`liststreams`, `liststreamitems`); transaction ids are numbers in order of publication |
| `isWriteLocked`, `streamState`, `eventsByStream` | the fields of `Cache2` |
| `aggregates` | `cachedProjects`, `cachedSubprojects`, `cachedWorkflowItems`: per id, the events applied since its last creation |
| `pc` | `wait` (in `grabWriteLock`), `list`, `scan`, `fetch` (in `updateCache`), `run` (the transaction), `done`, `failed`, `restore` |
| `listing`, `todo`, `cur`, `isRebuild`, `first`, `newItems` | locals of `updateCache`; `listing` is kept while the transaction runs, as a history |

`GrabWriteLock`, `ListStreams`, `FindStartIndex`, `RetrieveItems` and
`CommitStream` are the path of a refresh; `RpcError`, `NothingNew` (the
`TypeError` of `newItems[-1]`) and `FoundABug` (`process.exit(1)`) are the ways
it can end early. `CommitStream` is everything `updateCache` does after the last
batch of a stream: cursor, events, aggregates and the step to the next stream or
to the transaction. `Continue` releases the lock when the transaction *starts*,
as the `finally` block does. `CallWithCache` is a nested call. `Crash` and
`FoundABug` restart the process.

An item is abstracted to its transaction id, its aggregate, whether it creates
that aggregate, whether its data is too large for the listing, and its content:
- an `event` is sourced;
- an `ignored` one has no JSON, an intent, an unknown type or a failing
  validation: it is in the batch, counts for the cursor, and `parseBusinessEvents`
  drops it (`Parsed`, `EventsIn`);
- a `sealed` one cannot be decrypted: `invoke` leaves it out of the answer of
  `liststreamitems`, so that it does not even count (`Answers`).

The data of a large item takes a further RPC call. If that fails the item is in
the batch all the same, with an error for its data, and is dropped like an
ignored one (`Readings`, `Unread`). `seen` is a history: the kinds of odd items
published so far. What an aggregate makes
of its events (validation, rejected updates) is a function of the sequence of
events since the last creation, so that sequence stands for it. Sourcing
(`SourceOnto`) takes one event after the other (`Applied`), on top of what is
cached, as `sourceWorkflowitems` does; `SourcingAssumption` in `MCCache` has TLC
compare it with the events since the last creation, over all short sequences.
`withCache` is always called with a refresh, as all callers do. Restoring a
backup is one step of the node.

### Lifecycle

A resource is a record of status, rejection, content, parent, assignee,
validator, ordering, creation time and the place of its creation in the stream.
A worker is a request in progress: it is decided (`CreateSubproject`,
`CreateWorkflowitem`, `Assign`, `Update`, `SetWorkflowitemOrdering`,
`CloseWorkflowitem`, or `BeginClose` and `FinishClose`), and stores its events
one by one (`Store`) until it is done or gives up (`Fail`: a failing RPC call, a
timeout, a killed process). `Store` applies the event to the resource with
`Mutate`, which is `sourceEvent` and the `mutate` functions: an event for an
unknown resource and an update of a closed item are errors that leave it alone.

* A command may read a cache that lags behind. To decide on an earlier state
  late is to decide in time and to store late, so commands decide on the
  resources as they are, and storing takes as long as it likes.
* Closing a subproject or project is the one command whose reads lie on both
  sides of an `await` that matters, hence two actions.
* Requests that are refused, or change nothing, store nothing and are left out.
* Permissions are left out: a permitted request may come from any user at any
  time. The checks that are not permissions (assignee, validator, root) are in.
* Clients choose the ids of subprojects; ids of workflowitems are random, hence
  `Fresh`.
* Clocks of two nodes need not agree, so creation times are arbitrary.
* Two values are histories that no guard reads: `everHeld`, and the `basis` of a
  closing event (the resources the decision found closed).
* The notifications of a command follow its event in `newEvents`; their order
  among each other is fixed, as nothing tells them apart.

### Access

As in `Lifecycle`, a request is decided and its events are then stored one by
one. The state is what the aggregates say: `users`, `groups`, `members`,
`granted` (triples of a target, an intent and an identity, for the lists of
every resource, user and group and of the organization), `assignee`; and
`tokens`, each with the groups its user was in when he logged in, which it keeps
for its eight hours (`Login`, `Expire`).

* There is an action for each command that grants or revokes, for both kinds of
  assignment, for the creation of workflowitems, for users and groups. The other
  creations are in the initial state. A restricted item is handed over when it is
  assigned (`AssignRestricted`), or at once when it is created for somebody else
  (`CreateWorkflowitem`, whose first event gives everything to the creator). An
  item exists once it has an assignee (`Exists`); its id is random (`Fresh`).
* `Request` is any of these, by a worker that is `Idle`. `BeginGrantAll` and
  `GrantAllNext` are `global.grantAllPermissions`, which is a loop of requests
  over a list it has read once, and skips what its *issuer* holds.
* The actions from `StoreGranted` to `StoreAuthentication` are the event
  sourcing: a second `user_created` event replaces the user with all his
  permissions, a second `group_created` event is an error.
* `PermissionEvents` is `createPermissionEvents` with the reduce that swaps its
  two accumulators (`Split`). Nothing about it depends on which intents there
  are, except that nothing gets lost; `SplitAssumption` has TLC check that on
  the intents of the run and `MCAccess` on those of `intents.ts`.
* `Walk` is `resolveUsers` with its one set of members seen; `StandsFor`, which
  it is compared with, is the least set closed under membership.
* Histories that no guard reads: `news` (what others stored since a worker's
  decision) and `handover` (a restricted item changing hands, dropped as soon as
  another request touches the item).

### Documents

A worker follows one request: create or update a workflowitem with documents
(`Put`, `PutFails`, `Decide`, then the events one by one, then the sharing), or
grant a permission with the secrets that go with it. Uploads of a request run
concurrently and the code waits for all of them (`AllDone`). The permission is
looked at after the upload, so that refused requests leave documents behind that
nothing refers to. A secret is a pair of a document and an organization;
encrypting and decrypting are who can have one.

A request is made with a token, which names the groups its user was in when he
logged in (`tokens`, all that may be in use). Members come and go (`AddMember`,
`RemoveMember`), and no documents are shared then. A restricted workflowitem is
handed over at its creation or by an assignment (`AssignRestricted`): the
assignee is granted every intent, one by one (`HandOver`), and again nothing is
shared; then the issuer's permissions are withdrawn (`Withdraw`). A creation that
names a `grantee` is one of a restricted item.

Histories: `given` says to whom anything was ever granted; `excused`, for which
items a request failed or overlapped with another one; `leftOut`, which users
became readers of an item without any sharing, and have not been granted anything
on it since.

### Network

`pc` is how far the start of each node's API has come; each action lies between
two reads or writes of the chain. `Restart` is docker's `restart: always`, and
`Kill` may hit at any step. The permission to publish is awaited at the beginning
(`BecomeReady`) and may be revoked at any time: what is published without it is
refused (`Refused`), upon which the address and the registration are tried again
and again, and anything later ends the process (`AfterError`). `RegisterNode` is
the registration that a new node sends to another organization's API. The server
listens before the start is over, so an API serves votes in the middle of it
(`Begin`). A vote is cast for the address in the token of whoever asks for it,
which is any of those the organization has had (`addresses`). A request reads the
organization's vote, the node's access, and the vote once more (`CheckVote`,
`CheckAccess`, `Compute`) before MultiChain is asked to grant or revoke
(`Execute`).

MultiChain is external. Basic permissions are given by any admin; an admin is
made and unmade by more than half of the admins, and a node's `approvedBy` lists
those who want to approve if that is not enough yet. This is what the code's
treatment of `listpermissions` supposes (`Nodes.ts`, `vote.ts`, `list.ts`).
`news`, `raced`, `addresses` and `interrupted` are histories, the last one of the
organizations an API of which stopped between the publication of its two keys.

### Provisioning

`Sections` is what `provisionBlockchain` works through, one after the other; a
section that is not `Essential` stands inside a `try` that swallows its errors.
Within a section the process is at one call (`call`), and `After` and `AfterFind`
say which one comes next: the nested loops of `provisionFromData`,
`provisionSubproject` and `provisionWorkflowitem` are a walk through the tree of
templates, down to the parts of a resource (`PartsOf`), on to its sibling
(`NextSibling`) and up again, closing what is to be closed on the way
(`CloseIfWanted`). `tries` is the position in `withRetry`. The API is the part of
it that these calls see: a list of resources with what has been done to them. A
call is answered (`Write`, `Find`, `LogIn`), refused (`IsRefused`), or not
answered (`Unanswered`), in which case it may be executed at any later time
(`Late`), at once included: an answer with an error code after an effect is
covered by that, too, since the client treats both alike. `TokenIsRefused` and
`Refreshed` are the interceptor that logs in again without being waited for. A
call that is not a creation changes nothing when it is executed twice, so such
twins are dropped (`Twins`). The production run is modelled; the integration
tests that follow in a test environment are not.

## 3. The runs

| run | expects | bounds |
|---|---|---|
| `cache_ledger` | pass | 2 requests, 1 nested call each, 2 streams (one of each kind), 1 aggregate, batches of 2, 3 items, one of which may be ignored, 1 restart |
| `cache_reorg` | pass | the same with 1 restore, 1 reorganisation, 1 item that may be odd in any way, no restart, no nested call |
| `cache_skipped` | violation of `EachItemOnce` | 1 request, 1 sealed item |
| `cache_phantom` | violation of `RebuildShowsTheChain` | 2 requests, 1 reorganisation |
| `lifecycle` | pass | 2 workers, 3 requests, a project with a subproject of two items, 2 more ids, 3 users |
| `lifecycle_hierarchy` | violation of `ClosedAfterTheChildren` | 2 workers, 3 requests, a subproject with one item |
| `access` | pass | 2 workers, 2 requests; 2 users, a group that contains itself, a free id; a project, a subproject, a restricted item, a restricted and another item to be created; 2 to 4 intents for each kind of target |
| `documents` | pass | 2 workers, 3 requests or changes of a group; 2 organizations with a user each, a group; an item, 2 documents |
| `network` | pass | 2 nodes of one organization; 1 worker, 2 requests, 1 failure or kill |
| `network_votes` | pass | 3 nodes, 2 of one organization; 2 workers, 2 requests |
| `network_recovery` | violation of `PublicKeyIsDerived` | 3 nodes, no request, 1 failure or kill |
| `provisioning` | pass | an open project with a closed subproject of 2 items, a closed project; 1 repetition of a call, 1 unanswered call, 2 runs, 1 restart of the API |

**`cache_ledger`.** Here the node only adds to its chain and every item can be
read, if only to be ignored (`Undisturbed` is true throughout). `ShowsPrefixes`:
the cache implements `LedgerView`, i.e. in every state each stream shows the
value of a prefix, and the prefixes only grow except when everything is
forgotten. `ReadsCoverListing`: a transaction, though no longer under the lock,
never sees less than the node listed for its own refresh; the refresh of another
thread can only add. `AnswersAreNotEmpty`: the two ways in which an empty answer
would take the API down are unreachable as long as nobody rewrites the chain and
all items can be read. `RefreshMutex`: the lock is held exactly while someone
refreshes. The same properties are checked or proved of a system in which chains
may be rewritten, too; they then say nothing of states after that
(`Undisturbed`), or after a reorganisation and while a restored chain has yet to
be noticed (`Quiet`); nor of states in which an item has been published that may
be left out or come without its data (`Legible`). `EveryRequestAnswered`: no
deadlock by nesting, no thread left behind. Three items over batches of two give
a full, a partial and an empty answer, an update on top of an earlier refresh,
and items published while the batches are read; two requests give a refresh
during another's transaction.

**`cache_reorg`.** `CursorDescribesCache` holds whatever happens to the chain:
never are more events cached than the cursor says; and they are exactly as many,
the last of them the one the cursor names, unless an item was ignored or large,
whose event may be missing (for a large one whose data could not be fetched,
until the next rebuild). `findStartIndex` decides on the cursor alone, so a wrong
one would never be noticed. A sealed item makes the cursor fall behind the chain,
so that items are cached twice (`cache_skipped`), but not behind the cache.
`RestoredCacheIsClean` shows why `invalidateCache` takes the lock: a refresh that
read half of the old chain is over before the cache is cleared.

**`lifecycle`.** `DecisionsStayJustified`: that "all previous items" (or all
items of a subproject) "are closed" is decided without any lock and still holds
when the event is stored, because what is closed stays closed and an item's id
is never created twice. It does *not* extend to items created in the meantime
(`lifecycle_hierarchy`), nor to subprojects under a project, whose ids clients
choose. `OnlyCreationsReopen`: ADR 0004:69 says "Re-opening is not supported", and
for the project and the workflowitems that is so, whatever is stored late; but of
two requests that create a subproject under one id, both find it free
(`subproject_create.ts:104`), and the second creation replaces what has become of
the first, even if it is closed. `ItemsLead`: the double close, the late update
and the late assignment are stored in any order, and the item still leads the
life of `ItemLife`; the one liberty is that of two concurrent closes a rejection
wins. `OnlyHoldersAreNotified`: no notification without the event it is about
having been possible, even if storing fails half-way. Two workers are enough for
one to decide while the other stores; three requests, for two to store while a
third decides. The data, times, orderings and members are the smallest sets in
which updates differ, creation times disagree, an ordering contradicts them, and
a resource is assigned to a user or to a group of two.

**`access`.** `LastGrantorNeedsRace`: "Revoking ... of last user is not allowed"
is checked on a list that may be stale, so two revocations can strand a resource;
nothing else can, not even half of a handover. The restricted item has the
publisher granting everything before he revokes anything of his own
(`NothingIsLostInHandover`), also when it is created for somebody else, and at
the end he keeps the view only (`OnlyTheViewIsKept`). `ChecksFailOnlyByRaces`:
the checks of `user_disable` and of the two creations fail only because of an
event stored in between. `ResolveUsersFindsAll` compares the walk through the
groups with its definition in every reachable graph of groups, cycles included.
Two requests are what a race takes; the intents are those a command's guard or an
event mentions, and one more. The two workers handle requests alike and may be
exchanged (`AnyWorker`).

**`documents`.** `TheChainIsRight`: a workflowitem and an event never refer to a
document that is not stored, whichever upload failed or was not answered.
`SecretsAreGiven`: no organization gets a secret except through an upload of its
own or a grant to one of its users. `ReadersCanDownload` is the other direction:
whoever may see an item can download its documents, in whatever order upload and
grant came. Its exceptions are real: a request that failed half-way, one that is
under way, two that overlap, and readers who were left out, because they joined a
group that may see the item or were assigned a restricted item, and no grant to
them or to their group followed. It is not what storage-service/README.md:142-144
promises ("If a document should be uploaded for an organization, which is
currently defined by the permissions `workflowitem.list`, the shared public key
of this organization is used to encrypt the document's secret"):
`restricted.ts:60` grants every intent to the assignee, and neither
`workflowitem_create.ts` nor `workflowitem_assign.ts` shares anything, as
`workflowitem_permission_grant.ts` does. Three requests give an upload, a grant
and what overlaps with both, or a creation, a new member and a grant to the
group, under tokens that still name the groups of before; two documents, one of
which is uploaded before a grant and one after it.

**`network`.** One vote makes the second node a member, another one may take the
permission back, or that of the first node, at every stage of a start.
`KeysBelongTogether` and `UpIsUsable` hold after any kill and any refusal, unless
two APIs of an organization start together: both then publish an address or a key
pair, and the code has nothing against that. `ExitsHaveACause` says that this and
a missing public key, after an interruption between the two keys, are the only
ways to end up in an exit by itself (but for an error of the step itself).
`EventuallyUp`: when nothing fails any more, an API comes up and stays up, or
lacks the permission it needs, which was not given or was taken away again, or
its organization has only half of its keys, from which, as `network_recovery`
shows, there is no way out. A second organization does not add to this, as an API
writes for its own only; the proofs are for any number.

**`network_votes`.** Two votes at a time, by APIs of the same or of different
organizations, before, during and after the start of each. `ApprovalsDoNotRevoke`:
the approvals compute what to do from a vote that may have changed since it was
checked, but revoke only in that case. `DeclinedOrApproved`: the same for an
organization that approves and declines a node. Both may go wrong only if two
requests of an organization meet. Failures are left to `network`; the two
properties are proved with them.

**`provisioning`.** `EndedMeansComplete`: the end flag stops all later runs, so
everything must be there by then, except in what a run gave up.
`DuplicatesNeedTimeouts`: a repeated run finds what is there; only a creation
that was not answered and is made again gives a duplicate.
`RefusalsHaveACause`: the order of the calls (children first, assigned before
closed, users before projects) is never refused by the API, except after a
duplicate, without users, as root (after `Refreshed`), or by the last call of a
killed run that arrives late. `ClosedIsWhole`: whatever was interrupted, nothing
is closed before its parts. Two runs with a call left open by the first one are
the shortest history in which these meet; one repetition stands for 24, as each
is like the first.

**The violations** are disagreements between the code and its comments or
documents; "findings" in `PROJECT.json` quotes both sides.

Deadlock is not checked: when all requests are answered, or the bound on
requests is reached, the model stops, and so does the system until the next
request.

**Fairness.** `EveryRequestAnswered` needs weak fairness of each
thread's own steps. Node.js runs every timer and every RPC answer, and an RPC
call that is not answered fails after 90 seconds (`RpcClient.ts:79`). A thread
that polls for the lock could in principle always come too late, but the number
of requests is finite, and so are the nested calls; weak fairness is therefore
enough. Nothing is assumed of failures, crashes, other nodes, or of a
transaction making a nested call. `EventuallyUp` assumes weak fairness of the
steps of each starting API, the restart by docker included: the start is a
sequence of awaited calls and of loops with a timer. Nothing obliges anyone to
vote. `EventuallyOver` assumes weak fairness of the client's steps: a call is
answered, refused, or given up after ten seconds (`provisioning/src/index.js:618`).
Nothing is assumed of calls that are executed late, of the refresh of a token, or
of a killed run being run again.

## 4. The proofs

`tlapm` checks every step of `Ledger_proofs`, `Cache_proofs`,
`Lifecycle_proofs`, `Access_proofs`, `Documents_proofs`, `Network_proofs` and
`Provisioning_proofs`. The theorems hold for every value of the constants that
satisfies the assumptions: `CacheAssumption`, `KeptStreamsAssumption`,
`LifecycleAssumption`, `AccessAssumption`, `DocumentsAssumption`,
`NetworkAssumption` (disjoint ids, finite sets of users and items, non-empty
domains), and, for the templates of the provisioning, `TreeAssumption`,
`ToCloseAssumption` and `NamesAssumption` (projects, subprojects and
workflowitems form a tree without repetitions; what is closed has its parts
closed, too). The bounds are constants as well. `Access` also assumes
`SplitAssumption`, that the split of the revocations loses none of them, which is
a fact about a fold over a list of eight strings and is evaluated by TLC, and
`Documents` assumes `NoRequestAssumption`, that `undefined` is not a request.

**Ledger.** `SourcingInBatches`: to source a sequence of items on top of an
aggregate is to source a first part of it and then the rest on top of that,
wherever it is split. This is why the cache may source each refresh on top of
the aggregates of the one before. `SourceOnto` is a recursive function, and the
induction rules of the library are no use to the provers here; that the function
exists (`RecursionExists`) and what it does follow from `Least`: a set of numbers
at which it would be otherwise has a least element, and there it is not.
`CreationReplaces` and `NothingWithoutCreation` are what lets a sequence of items
stand for an aggregate: it depends on the last creation and on what came after,
and there is none without a creation.

**Cache.** `TypeCorrect`, `RefreshesExclude` (`RefreshMutex`) and
`CursorsDescribe` (`CursorDescribesCache`). `RefreshMutex` is not inductive
without the types of `pc`. For `CursorDescribesCache` the invariant adds what a
thread in the middle of a refresh knows (`FetchInv`): the items it has read,
together with those the cursor counts unless it rebuilds, are as many as `first`
says; that the events among them are no more is `EventsInType`, and that they
are all of them while nothing is ignored follows from `OddInv`: the chain holds
only such oddities as were `seen`, and what is fetched only what is on the chain.
`FetchInv` survives any change of the chain because it never mentions the chain;
it needs `RefreshMutex`, since a second refresh would change the cursor under the
first.

What the cache has to do with the chain is in `PrefixInv`. While it is `Quiet`,
- `ShowsPrefix`: the cursor of each stream points at its item, and events and
  aggregates are the value of the items up to there;
- `Outstanding`: the streams a refresh has yet to update are behind what it was
  told by `liststreams`, all others are not;
- `Fetches`: the items it has read are exactly those between the cursor and
  `first`, and it rebuilds only a stream of which nothing is cached.

The first is what is to be shown, and is not inductive without the other two:
`CommitStream` appends what was read one call at a time while others published,
and is right only because these items continue where the cache ends. That a
batch is read without gaps although the answer may have any items left out is
`AnswersInOrder` (positions that grow and leave out none but sealed items are
consecutive when no item is sealed); that an item read before a `Publish` is still
at its place, `PartsStay`; that the aggregates may be sourced on top,
`SourcingInBatches`. `Quiet` is false while a restorer waits and true again when
it has cleared the cache. `RestoredIsClean` and `AnswersHoldItems`
(`AnswersAreNotEmpty`) follow from it: a refresh that is not done has a stream
with more items than are cached.

`ReadsCover` (`ReadsCoverListing`) also needs that positions grow at every step
but a restart (`PositionsGrow`), for the time in which the transaction runs and
others refresh. `CacheShowsPrefixes` is the refinement of `LedgerView`, for all
behaviours that remain `Undisturbed` (which ends, but does not begin:
`UndisturbedBefore`): `Publish` maps to `Extend`, `CommitStream` to `CatchUp`,
the two restarts to `Forget`, and everything else to a stutter.
`CalmCacheShowsPrefixes` is its instance for the bounds of `cache_ledger`, where
nothing else can happen.

**Lifecycle.** `TypeCorrectness`, `ClosesStayJustified`
(`DecisionsStayJustified`), `NotificationsReachHolders`
(`OnlyHoldersAreNotified`), `ReopeningIsCreation` (`OnlyCreationsReopen`) and
`ItemsLeadTheirLife` (the refinement of `ItemLife`). The inductive invariant
`IInv` is made of
- `TypeOK` and `Tree` (an item's parent is a subproject, a subproject's the
  project), so that the basis of a close consists of items;
- `PendingJustified`: every pending event is still right to store. A pending
  close has its basis closed, which is what is to be shown; a pending creation of
  an item finds that the item does not exist, without which it could open an item
  that is closed, or that someone relied on; any other event is about something
  that exists;
- `OneCreation`: while the creation of an item is pending, no other pending event
  is about that item, so that nothing else can make it exist. Subprojects lack
  exactly this;
- `ClosingExists`, that what is about to be closed exists.

The argument is in two halves: every command yields justified events
(`Deciding`), and storing any event keeps the justification of all that are
pending (`Storing`). The notifications have an invariant of their own: the
recipients of a pending notification hold the resource already or will by the
event stored before it.

**Access.** `TypeCorrect` and the other five properties are proved. For the four of
them that are about pending requests the invariant is `TypeOK` with, for each
worker, what its pending events and its histories have to do with each other:
- `Shape`: after the first event of a request come grants and revocations only;
- `Checked`: what the first pending event was decided on still holds, or its
  target is news; `ChecksFailOnlyByRaces` is this;
- `GrantorsRemain`: for every pending revocation of a grantor, unless the resource
  is news, somebody else is a grantor already or will be by an event that comes
  before it. `LastGrantorNeedsRace` is an action property, and follows from this
  for the step that stores the revocation;
- `Handed`: in an undisturbed handover, by an assignment or by a creation, the
  assignee holds all permissions, or will before the first revocation, and the
  publisher has lost all but the view, or will by an event still pending. At its
  two ends this is `NothingIsLostInHandover` and `OnlyTheViewIsKept`.
Storing an event of one worker keeps these for the others because it becomes
their news or ends their handover. A creation is the first event of its handover
and gives the publisher what he is to hand over, so that `Handed` says nothing of
what he holds before it is stored.

`AllUsersAreFound` (`ResolveUsersFindsAll`) is about the recursion of
`resolveUsers`, which remembers the identities it has seen instead of looking
where it is in the tree. What it finds is what can be reached from the identities
that are left without passing through those seen (`IsReached`, `Finds`). To prove
this the recursion must be known to end: each identity that is seen for the first
time may add as many to the list as there are names, which `Left` allows for, and
nothing else adds any (`LessLeft`). Then the equation of the recursion has a
solution (`WalkExists`), and only this one (`WalkFinds`): a walk on which another
one differs, with the least left to do, would differ on its next step already.

**Documents.** `TypeCorrect`, `ChainIsRight` (`TheChainIsRight`) and
`SecretsOnlyWithPermissions` (`SecretsAreGiven`). The invariant says
at each step of a request what it has done so far (`UploadInv`, `GrantInv`): its
documents lie in the issuer's organization unless they are yet to be uploaded or
it is refused; nobody else announces them, since ids are given once
(`IdsAreFresh`); the secrets it has yet to share go to organizations of someone
to whom a permission on the item has been given, or will be before the first of
them. It is stable because everything but permissions and memberships only grows
(`Grows`), and because whoever is a member now has a token that says so
(`TokensAreKept`).

`ReadersDownload` (`ReadersCanDownload`) follows each request between its decision
and its last step (`DownloadInv`). The documents of an item are `Due` to those who
may see it and were not left out. An item that is not excused has at most one
request about it at a time, and all to whom its documents are due have their
secrets (`ServedBut`), except for the documents the request has yet to announce
and the pairs it is about to share; a creation has no reader but its issuer, and
those a handover adds are left out; a grant knows all organizations of its grantee
that lack a secret, of all his members who are not left out since (`JobServes`).
Items keep this when requests about others, groups or tokens change because that
is elsewhere (`Elsewhere`) and makes the documents due to nobody new
(`NobodyNew`): who joins a group is left out, unless he was served before. No item
is known before it has got its id (`ItemsAreFresh`).

**Network.** `TypeCorrect` and all five invariants of the runs. Those of the start
(`KeysOnlyInPairs`, `UpMeansUsable`, `NoExitWithoutCause`) rest on `StartInv`:
- `Single`: two APIs of an organization are both in the middle of their start
  only if it is in `raced`;
- `ApiInv`: what an API relies on at each step, e.g. that from the publication of
  its private key on the organization's key is its own and no public key is
  there yet, or the organization is in `raced`; and for an API that has exited
  over half a key pair, that nobody is about to publish the other half;
- `OrganizationInv`: half a key pair is there only while someone publishes the
  other half, after an interruption between the two, or in a race; the addresses
  of an organization are those of its nodes.

A step of one API keeps what the others rely on (`StartStep`): those of other
organizations because it writes for its own only, those of its own because
they are not in the middle of their start, or it is a race.
`ApprovalsOnlyGrant` (`ApprovalsDoNotRevoke`) and `NotBothAtOnce`
(`DeclinedOrApproved`) add `JobsInv`: an approval has found that the address it
votes for has not approved, which stays true unless another vote of the
organization becomes its news (`Outlives`); the address is one of the
organization's. The types need
`OpsInv`, that an operation is known when it is executed.

**Provisioning.** All five invariants, for every tree of templates. `TypeCorrect`,
`TheEndMeansComplete` (`EndedMeansComplete`) and `TheClosedAreWhole`
(`ClosedIsWhole`) rest on one inductive invariant:
- `ChainInv`: a resource lies under one of the template that its own is a part
  of, and workflowitems were made in their order;
- `ProcessInv`: what the process has completed when it is about to make a given
  call (`At`). To close a project, e.g., it must have found or made the project,
  done everything else to it, and left each of its parts whole. The earlier
  sections are done;
- `LateInv`: a call that was left open is justified (`Justified`) by what was on
  the chain when it was made, and stays so, since nothing is ever taken back
  (`Grows`). Without this a call of a killed run could close something at a time
  when nothing is known about it.

The step of the invariant that matters is from one call to the next: `WaysOn`
says for each template that leaving it, by whichever way, leads to a call whose
`At` is then true. It is proved along the tree, from the last part of a template
up to the template itself.

`DuplicatesHaveACause` (`DuplicatesNeedTimeouts`) is a matter of counting
(`CountInv`): the resources that are there or may still come (`Known`) are at
most one more than the creations that were not answered (`Doubts`), and not even
that when the process is about to create one. A creation is decided long before
it is made again, so that the invariant counts the open calls with the resources.
`RefusalsAreExplained` (`RefusalsHaveACause`) adds `FirstRunInv` for the updates of
the first run: an item that is closed lies `Behind` the call the process is about
to make, so that no update is refused because its item is closed. "Behind" is the
order in which the process walks through the tree, and each call goes forward in
it (`GoesOn`).

**Only model-checked:** the three liveness properties `EveryRequestAnswered`,
`EventuallyUp` and `EventuallyOver`. Liveness under fairness is out of the
prover's reach. `SplitAssumption` and `SourcingAssumption`, about a fold and a
selection over sequences, are evaluated by TLC, the second on short sequences.

## 5. Not modelled, and what could follow

* *Workflowitem ordering* as an algorithm: `sortWorkflowitems` against a
  reference order, over bounded inputs. `Lifecycle` uses what the close of an
  item needs of it.
* *Creation of projects, and budgets*: lists keyed by organization and currency,
  replaced entry by entry.
* *Composing `Access` with `Lifecycle`*: who may make each request, in one state
  space. It is the product of two that each fill a run.
* *A proof* for every sequence of the rest of `SourcingAssumption`: that the
  events of an aggregate since its last creation are appended in their order.
* `network.list` shows the access of each node by who is listed as its approvers
  (`list.ts:129-137`), and these include those who vote for a pending change, so
  that a first vote for an admin is shown as access in effect. It reads what
  `Network` models and changes nothing.
* `global.grantAllPermissions` skips the intents that its issuer holds instead of
  the grantee's (`global_permissions_grant_all.ts:161`); `Access` models this, no
  run is about it.

Left out for good: schemas, the mapping of errors and the read-only projections
(stateless); the frontend, the export, logging and email services, the
multichain-feed, migration and deployment scripts (I/O); of the blockchain
wrapper, all but that RPC calls may fail, that a chain may be replaced and that a
node registers at another one; passwords and cryptography.

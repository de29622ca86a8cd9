------------------------------- MODULE Cache --------------------------------
(***************************************************************************)
(* The in-memory cache of one API process (api/src/service/cache2.ts) and  *)
(* the requests that use it.  The process is a single JavaScript thread:   *)
(* an action is the code between two points where it yields (an RPC call   *)
(* to the MultiChain node, or the one-millisecond sleep of the lock).      *)
(***************************************************************************)
EXTENDS Ledger, FiniteSets

CONSTANTS
    Requests,       \* calls of withCache by request handlers
    Restorers,      \* handlers of system.restoreBackup, each run once
    BatchSize,      \* items fetched by one liststreamitems call (100)
    MaxItems,       \* bound: items ever published
    Oddities,       \* what may be odd about an item: large, ignored, sealed
    MaxOdd,         \* bound: how many of them are odd
    MaxReorgs,      \* bound: reorganisations of the chain by the node
    MaxCrashes,     \* bound: how often the API process is killed
    MaxNested       \* bound: nested withCache calls of one request

ASSUME CacheAssumption ==
    /\ BatchSize \in Nat \ {0}
    /\ {MaxItems, MaxOdd, MaxReorgs, MaxCrashes, MaxNested} \subseteq Nat
    /\ Oddities \subseteq {"large", "ignored", "sealed"}
    /\ Requests \cap Restorers = {}
    /\ Streams # {}

VARIABLES
    chain,          \* the streams as the local MultiChain node lists them
    published,      \* number of items published so far (the next txid is new)
    odd,            \* number of odd ones among them
    seen,           \* history: the oddities they had
    reorgs,         \* number of reorganisations so far
    crashes,        \* number of kills so far
    isWriteLocked,  \* Cache2.isWriteLocked
    streamState,    \* Cache2.streamState: a cursor per stream
    eventsByStream, \* Cache2.eventsByStream
    aggregates,     \* cachedProjects, cachedSubprojects, cachedWorkflowItems
    pc,             \* where each thread of execution is
    listing,        \* the item counts liststreams returned to it
    todo,           \* the streams its loop still has to update
    cur,            \* the stream it is updating
    isRebuild,      \* whether it rebuilds that stream
    first,          \* index of the next item to fetch
    newItems,       \* the items fetched so far
    nested          \* how many nested withCache calls it has made

chainVars  == <<chain, published, odd, seen, reorgs>>
cacheVars  == <<streamState, eventsByStream, aggregates>>
localVars  == <<cur, isRebuild, first, newItems>>
vars == <<chainVars, crashes, isWriteLocked, cacheVars, pc, listing, todo,
          localVars, nested>>

Threads == Requests \cup Restorers

-----------------------------------------------------------------------------
(* Types.                                                                  *)

NoCursor == [index |-> 0, txid |-> 0]   \* streamState has no entry
Cursor   == [index: Nat, txid: Nat \ {0}]

HasCursor(s) == streamState[s] # NoCursor

(* Number of items of s the cache claims to reflect.                       *)
Position(s) == IF HasCursor(s) THEN streamState[s].index + 1 ELSE 0

(* The pcs at which a thread owns the write lock: about to call            *)
(* liststreams, in the loop over the streams, fetching a stream's items.   *)
Updating == {"list", "scan", "fetch"}

(* "restore": system.restoreBackup is running on the blockchain node;      *)
(* "wait": in grabWriteLock; "run": the transaction's code is running.     *)
Pcs == {"restore", "wait", "run", "done", "failed"} \cup Updating

AggregatesTypeOK == aggregates \in [Streams -> [AggIds -> Seq(Item)]]

StateTypeOK ==
    /\ chain \in [Streams -> Seq(Item)]
    /\ published \in Nat /\ odd \in Nat /\ reorgs \in Nat /\ crashes \in Nat
    /\ seen \in SUBSET Oddities
    /\ isWriteLocked \in BOOLEAN
    /\ streamState \in [Streams -> Cursor \cup {NoCursor}]
    /\ eventsByStream \in [Streams -> Seq(Item)]
    /\ pc \in [Threads -> Pcs]
    /\ listing \in [Threads -> [Streams -> Nat]]
    /\ todo \in [Threads -> SUBSET Streams]
    /\ cur \in [Threads -> Streams]
    /\ isRebuild \in [Threads -> BOOLEAN]
    /\ first \in [Threads -> Nat]
    /\ newItems \in [Threads -> Seq(Item)]
    /\ nested \in [Threads -> Nat]

TypeOK == StateTypeOK /\ AggregatesTypeOK

-----------------------------------------------------------------------------
(* The cache's own operations.                                             *)

NoCursors    == [s \in Streams |-> NoCursor]
NoEvents     == [s \in Streams |-> <<>>]
NoAggregates == [s \in Streams |-> [a \in AggIds |-> <<>>]]

InitCache ==
    /\ streamState    = NoCursors
    /\ eventsByStream = NoEvents
    /\ aggregates     = NoAggregates

ClearCache ==
    /\ streamState'    = NoCursors
    /\ eventsByStream' = NoEvents
    /\ aggregates'     = NoAggregates

(* What reading an item may come to (getOrDecryptItemData).  The data of a *)
(* large one is fetched, and if that fails the item comes without; one     *)
(* that cannot be decrypted is left out, and has no reading.               *)
Unread(item) == [item EXCEPT !.content = "ignored"]

Readings(item) ==
    (IF item.content = "sealed" THEN {} ELSE {item})
        \cup (IF item.large THEN {Unread(item)} ELSE {})

(* findStartIndex: continue after the cursor if its item is still where it *)
(* was, else start over.  The item of the cursor has to be listed, too: if *)
(* it is left out, the list is empty.                                      *)
StartIndexes(s) ==
    LET k       == streamState[s].index + 1
        matches == /\ k <= Len(chain[s])
                   /\ Readings(chain[s][k]) # {}
                   /\ chain[s][k].txid = streamState[s].txid
    IN  IF ~HasCursor(s) THEN {0}
        ELSE (IF matches THEN {k} ELSE {})
               \cup (IF matches /\ chain[s][k].content # "sealed" THEN {} ELSE {0})

(* One answer of retrieveItems(s, from, BatchSize): the positions of the   *)
(* items returned.  invoke leaves out the items it cannot convert, and     *)
(* only a sealed item can be one.                                          *)
Answers(s, from) ==
    LET last  == IF from + BatchSize < Len(chain[s])
                   THEN from + BatchSize ELSE Len(chain[s])
        asked == from + 1 .. last
        picks == UNION {[1 .. n -> asked] : n \in 0 .. BatchSize}
    IN  {pick \in picks :
            /\ \A i, j \in DOMAIN pick : i < j => pick[i] < pick[j]
            /\ \A k \in asked : \/ chain[s][k].content = "sealed"
                                \/ \E i \in DOMAIN pick : pick[i] = k}

(* The items of an answer, each as it was read.                            *)
Batches(s, pick) ==
    {batch \in [DOMAIN pick -> UNION {Readings(chain[s][pick[i]]) : i \in DOMAIN pick}] :
        \A i \in DOMAIN pick : batch[i] \in Readings(chain[s][pick[i]])}

OneBefore(n, items) ==                                 \* mutant: off by one
    [index |-> n - 2, txid |-> items[Len(items)].txid]

(* The cursor after a pass that ended at index n (exclusive).              *)
CursorAfter(n, items) == [index |-> n - 1, txid |-> items[Len(items)].txid]

NewEventsOnly(s, rebuild, items) ==                    \* mutant: set for append
    IF s \in KeptStreams THEN EventsIn(items) ELSE eventsByStream[s]

OnTopOfTheOld(s, rebuild, items) ==                    \* mutant: no reset
    IF s \in KeptStreams THEN eventsByStream[s] \o EventsIn(items) ELSE eventsByStream[s]

(* addEventsToCache, or a new entry when the stream is rebuilt, of what    *)
(* can be parsed.                                                          *)
EventsAfter(s, rebuild, items) ==
    IF s \in KeptStreams
      THEN (IF rebuild THEN <<>> ELSE eventsByStream[s]) \o EventsIn(items)
      ELSE eventsByStream[s]

(* updateAggregates: sourced on top of the cached aggregates.              *)
AggregatesAfter(s, items) ==
    [a \in AggIds |-> IF s \in KeptStreams
                        THEN aggregates[s][a]
                        ELSE SourceOnto(aggregates[s][a], EventsIn(items), a)]

-----------------------------------------------------------------------------
(* The threads of execution.                                               *)

Goto(r, label) == pc' = [pc EXCEPT ![r] = label]

(* The variables of one round of the loop, and of one call of withCache,   *)
(* go out of scope.                                                        *)
AnyStream  == CHOOSE s \in Streams : TRUE
NoListing  == [s \in Streams |-> 0]

EndRound(r) ==
    /\ cur' = [cur EXCEPT ![r] = AnyStream]
    /\ isRebuild' = [isRebuild EXCEPT ![r] = FALSE]
    /\ first' = [first EXCEPT ![r] = 0]
    /\ newItems' = [newItems EXCEPT ![r] = <<>>]

EndCall(r) ==
    /\ listing' = [listing EXCEPT ![r] = NoListing]
    /\ todo' = [todo EXCEPT ![r] = {}]

Init ==
    /\ chain = [s \in Streams |-> <<>>]
    /\ published = 0 /\ odd = 0 /\ seen = {} /\ reorgs = 0 /\ crashes = 0
    /\ isWriteLocked = FALSE
    /\ InitCache
    /\ pc = [r \in Threads |-> IF r \in Restorers THEN "restore" ELSE "wait"]
    /\ listing = [r \in Threads |-> NoListing]
    /\ todo = [r \in Threads |-> {}]
    /\ cur = [r \in Threads |-> AnyStream]
    /\ isRebuild = [r \in Threads |-> FALSE]
    /\ first = [r \in Threads |-> 0]
    /\ newItems = [r \in Threads |-> <<>>]
    /\ nested = [r \in Threads |-> 0]

GrabAnyway(r) ==                                       \* mutant: no test of the lock
    /\ pc[r] = "wait" /\ r \in Requests
    /\ isWriteLocked' = TRUE
    /\ Goto(r, "list")
    /\ UNCHANGED <<chainVars, crashes, cacheVars, listing, todo, localVars, nested>>

(* grabWriteLock of withCache succeeds.                                    *)
GrabWriteLock(r) ==
    /\ pc[r] = "wait" /\ r \in Requests
    /\ ~isWriteLocked
    /\ isWriteLocked' = TRUE
    /\ Goto(r, "list")
    /\ UNCHANGED <<chainVars, crashes, cacheVars, listing, todo, localVars, nested>>

(* The loop over the streams goes on, or is over: then the transaction     *)
(* starts and, as its promise is returned and not awaited, the finally     *)
(* block releases the lock at once.                                        *)
Continue(r, streams) ==
    /\ todo' = [todo EXCEPT ![r] = streams]
    /\ IF streams = {}
         THEN Goto(r, "run") /\ isWriteLocked' = FALSE
         ELSE Goto(r, "scan") /\ UNCHANGED isWriteLocked

NonEmpty(s)  == Len(chain[s]) # 0                      \* mutant: count not compared
NeverSeen(s) == Len(chain[s]) # 0 /\ ~HasCursor(s)     \* mutant: read once only

(* liststreams answers.  Empty streams and those with as many items as the *)
(* cursor says are skipped.                                                *)
NeedsUpdate(s) == Len(chain[s]) # 0 /\ Len(chain[s]) # Position(s)

ListStreams(r) ==
    /\ pc[r] = "list"
    /\ listing' = [listing EXCEPT ![r] = [s \in Streams |-> Len(chain[s])]]
    /\ Continue(r, {s \in Streams : NeedsUpdate(s)})
    /\ UNCHANGED <<chainVars, crashes, cacheVars, localVars, nested>>

FindStartIndex(r) ==
    /\ pc[r] = "scan"
    /\ \E s \in todo[r] : \E start \in StartIndexes(s) :
        /\ cur' = [cur EXCEPT ![r] = s]
        /\ first' = [first EXCEPT ![r] = start]
        /\ isRebuild' = [isRebuild EXCEPT
                            ![r] = ~HasCursor(s) \/ start # streamState[s].index + 1]
    /\ newItems' = [newItems EXCEPT ![r] = <<>>]
    /\ Goto(r, "fetch")
    /\ UNCHANGED <<chainVars, crashes, isWriteLocked, cacheVars, listing, todo, nested>>

(* retrieveItems answers with at least one item: the index advances by     *)
(* the number of items in the answer.                                      *)
RetrieveItems(r) ==
    /\ pc[r] = "fetch"
    /\ \E pick \in Answers(cur[r], first[r]) : \E batch \in Batches(cur[r], pick) :
        /\ pick # <<>>
        /\ first' = [first EXCEPT ![r] = @ + Len(batch)]
        /\ newItems' = [newItems EXCEPT ![r] = @ \o batch]
    /\ UNCHANGED <<chainVars, crashes, isWriteLocked, cacheVars, pc, listing, todo,
                   cur, isRebuild, nested>>

(* retrieveItems answers with nothing: the loop is over.                   *)
EndOfStream(r) == pc[r] = "fetch" /\ <<>> \in Answers(cur[r], first[r])

CommitStream(r) ==
    /\ EndOfStream(r)
    /\ newItems[r] # <<>>
    /\ LET s == cur[r]
       IN  /\ streamState' = [streamState EXCEPT
                                ![s] = CursorAfter(first[r], newItems[r])]
           /\ eventsByStream' = [eventsByStream EXCEPT
                                ![s] = EventsAfter(s, isRebuild[r], newItems[r])]
           /\ aggregates' = [aggregates EXCEPT
                                ![s] = AggregatesAfter(s, newItems[r])]
           /\ Continue(r, todo[r] \ {s})
    /\ EndRound(r)
    /\ UNCHANGED <<chainVars, crashes, listing, nested>>

ThrowOut(r) ==                                         \* mutant: no finally
    /\ Goto(r, "failed")
    /\ EndRound(r) /\ EndCall(r)
    /\ UNCHANGED <<chainVars, crashes, isWriteLocked, cacheVars, nested>>

(* An exception leaves updateCache: the finally block releases the lock    *)
(* and the request is answered with an error.                              *)
Throw(r) ==
    /\ isWriteLocked' = FALSE
    /\ Goto(r, "failed")
    /\ EndRound(r) /\ EndCall(r)
    /\ UNCHANGED <<chainVars, crashes, cacheVars, nested>>

(* An RPC call fails or times out.                                         *)
RpcError(r) == pc[r] \in Updating /\ Throw(r)

(* newItems[newItems.length - 1].txid on an empty list.                    *)
NothingNew(r) ==
    /\ EndOfStream(r)
    /\ newItems[r] = <<>> /\ ~isRebuild[r]
    /\ Throw(r)

(* The process is gone: the cache with it, and the requests it was working *)
(* on.  A request that still waits may as well arrive after the restart.   *)
Restart ==
    /\ isWriteLocked' = FALSE
    /\ ClearCache
    /\ pc' = [r \in Threads |-> IF pc[r] \in Updating \cup {"run"} \/ nested[r] > 0
                                  THEN "failed" ELSE pc[r]]
    /\ listing' = [r \in Threads |-> NoListing]
    /\ todo' = [r \in Threads |-> {}]
    /\ cur' = [r \in Threads |-> AnyStream]
    /\ isRebuild' = [r \in Threads |-> FALSE]
    /\ first' = [r \in Threads |-> 0]
    /\ newItems' = [r \in Threads |-> <<>>]
    /\ UNCHANGED <<chainVars, nested>>

(* "Found a bug!": process.exit(1).                                        *)
FoundABug(r) ==
    /\ EndOfStream(r)
    /\ newItems[r] = <<>> /\ isRebuild[r]
    /\ Restart
    /\ UNCHANGED crashes

Crash ==
    /\ crashes < MaxCrashes
    /\ crashes' = crashes + 1
    /\ Restart

(* The transaction, no longer under the lock, awaits a withCache call of   *)
(* its own (resolveUsers, getGroup, getUser in the command transactions).  *)
CallWithCache(r) ==
    /\ pc[r] = "run" /\ nested[r] < MaxNested
    /\ nested' = [nested EXCEPT ![r] = @ + 1]
    /\ Goto(r, "wait")
    /\ EndCall(r)
    /\ UNCHANGED <<chainVars, crashes, isWriteLocked, cacheVars, localVars>>

Return(r) ==
    /\ pc[r] = "run"
    /\ Goto(r, "done")
    /\ EndCall(r)
    /\ UNCHANGED <<chainVars, crashes, isWriteLocked, cacheVars, localVars, nested>>

(* system.restoreBackup: the node's chain becomes that of an earlier       *)
(* backup, or restoring fails and it stays; invalidateCache follows        *)
(* "regardless of the outcome".                                            *)
RestoreBackup(r) ==
    /\ pc[r] = "restore"
    /\ \E backup \in [Streams -> 0 .. MaxItems] :
        /\ \A s \in Streams : backup[s] <= Len(chain[s])
        /\ chain' = [s \in Streams |-> SubSeq(chain[s], 1, backup[s])]
    /\ Goto(r, "wait")
    /\ UNCHANGED <<published, odd, seen, reorgs, crashes, isWriteLocked, cacheVars,
                   listing, todo, localVars, nested>>

InvalidateAnyway(r) ==                                 \* mutant: no test of the lock
    /\ pc[r] = "wait" /\ r \in Restorers
    /\ ClearCache
    /\ Goto(r, "done")
    /\ UNCHANGED <<chainVars, crashes, isWriteLocked, listing, todo, localVars, nested>>

(* invalidateCache takes the lock, clears the cache and releases the lock  *)
(* without yielding in between.                                            *)
InvalidateCache(r) ==
    /\ pc[r] = "wait" /\ r \in Restorers
    /\ ~isWriteLocked
    /\ ClearCache
    /\ Goto(r, "done")
    /\ UNCHANGED <<chainVars, crashes, isWriteLocked, listing, todo, localVars, nested>>

-----------------------------------------------------------------------------
(* The node.                                                               *)

Creations(s) == IF s \in KeptStreams THEN {FALSE} ELSE BOOLEAN

OdditiesOf(large, content) ==
    (IF large THEN {"large"} ELSE {}) \cup ({content} \ {"event"})

(* An item is published, by this API, by another one of the network, or by *)
(* whatever else writes to the chain.  The events of a kept stream create  *)
(* no project, subproject or workflowitem.                                 *)
Publish(s) ==
    /\ published < MaxItems
    /\ \E a \in AggIds, creates \in Creations(s), large \in BOOLEAN, content \in Contents :
        LET odds == OdditiesOf(large, content)
        IN  /\ odds \subseteq Oddities
            /\ odds # {} => odd < MaxOdd
            /\ chain' = [chain EXCEPT ![s] = Append(@,
                    [txid |-> published + 1, agg |-> a, creates |-> creates,
                     large |-> large, content |-> content])]
            /\ odd' = IF odds = {} THEN odd ELSE odd + 1
            /\ seen' = seen \cup odds
    /\ published' = published + 1
    /\ UNCHANGED <<reorgs, crashes, isWriteLocked, cacheVars, pc, listing, todo,
                   localVars, nested>>

(* Blocks of another node win: two neighbouring items change places, or    *)
(* the last item is replaced ("the last item has changed").                *)
Swapped(items, k) ==
    [i \in DOMAIN items |-> CASE i = k     -> items[k + 1]
                              [] i = k + 1 -> items[k]
                              [] OTHER     -> items[i]]

Reorganise(s) ==
    /\ reorgs < MaxReorgs
    /\ reorgs' = reorgs + 1
    /\ \/ /\ \E k \in 1 .. Len(chain[s]) - 1 :
                chain' = [chain EXCEPT ![s] = Swapped(@, k)]
          /\ UNCHANGED published
       \/ /\ chain[s] # <<>> /\ published < MaxItems
          /\ \E a \in AggIds, creates \in Creations(s) :
                chain' = [chain EXCEPT ![s] = [@ EXCEPT ![Len(@)] =
                    [txid |-> published + 1, agg |-> a, creates |-> creates,
                     large |-> FALSE, content |-> "event"]]]
          /\ published' = published + 1
    /\ UNCHANGED <<odd, seen, crashes, isWriteLocked, cacheVars, pc, listing, todo,
                   localVars, nested>>

-----------------------------------------------------------------------------
Step(r) ==
    \/ GrabWriteLock(r) \/ ListStreams(r) \/ FindStartIndex(r) \/ RetrieveItems(r)
    \/ CommitStream(r) \/ NothingNew(r) \/ FoundABug(r)
    \/ Return(r) \/ RestoreBackup(r) \/ InvalidateCache(r)

Next ==
    \/ \E r \in Threads : Step(r) \/ RpcError(r) \/ CallWithCache(r)
    \/ Crash
    \/ \E s \in Streams : Publish(s) \/ Reorganise(s)

Safety == Init /\ [][Next]_vars

(* Node.js runs every timer and every RPC answer (or its 90 s timeout)     *)
(* sooner or later.  Nothing is assumed of failures, of crashes, of other  *)
(* nodes, nor of a transaction calling withCache again.                    *)
Spec == Safety /\ \A r \in Threads : WF_vars(Step(r))

-----------------------------------------------------------------------------
(* Properties.                                                             *)

(* "A lock is used to prevent sourcing updates concurrently": at most one  *)
(* thread is between grabWriteLock and the start of its transaction, and   *)
(* the lock is held exactly then, whatever fails in between.               *)
RefreshMutex ==
    /\ \A r1, r2 \in Threads :
            pc[r1] \in Updating /\ pc[r2] \in Updating => r1 = r2
    /\ isWriteLocked <=> \E r \in Threads : pc[r] \in Updating

(* The cursor of a kept stream says how many events are cached and which   *)
(* one came last, through batches, rebuilds, failures half-way through the *)
(* loop, invalidation, restarts and any rewriting of the chain meanwhile:  *)
(* findStartIndex decides on nothing else what is missing.  Items that are *)
(* ignored, or could not be read when their turn came, count all the same: *)
(* then there are fewer events than the cursor says, and never more.       *)
NothingIgnored == seen \cap {"large", "ignored"} = {}

CursorDescribesCache ==
    \A s \in KeptStreams :
        /\ Len(eventsByStream[s]) <= Position(s)
        /\ NothingIgnored =>
              /\ Len(eventsByStream[s]) = Position(s)
              /\ HasCursor(s) =>
                    eventsByStream[s][Position(s)].txid = streamState[s].txid

(* The node has only ever added to the chain, since the cache was last     *)
(* told otherwise, and every item could be read, if only to be ignored; or *)
(* even: ever.                                                             *)
Legible     == seen \cap {"large", "sealed"} = {}
Quiet       == reorgs = 0 /\ Legible /\ \A r \in Restorers : pc[r] # "wait"
Undisturbed == reorgs = 0 /\ Legible /\ \A r \in Restorers : pc[r] = "restore"

(* Once a handler of system.restoreBackup is over (it answers first and    *)
(* invalidates the cache then), nothing of the chain it replaced is left   *)
(* in the cache, even if a refresh was under way and saw some of each      *)
(* (without reorganisations, and with every item readable).                *)
RestoredCacheIsClean ==
    Quiet => \A s \in Streams :
        LET shown == SubSeq(chain[s], 1, Position(s))
        IN  /\ Position(s) <= Len(chain[s])
            /\ eventsByStream[s] = EventsOf(s, shown)
            /\ aggregates[s] = AggregatesOf(s, shown)

(* Unless the chain is replaced under it, the code that runs in withCache, *)
(* although no longer under the lock, never sees less of a stream than the *)
(* node listed for its own refresh: a request sees what was stored before  *)
(* it came.                                                                *)
ReadsCoverListing ==
    Undisturbed => \A r \in Threads : pc[r] = "run" =>
        \A s \in Streams : Position(s) >= listing[r][s]

(* Unless the chain is replaced under it, retrieveItems never comes back   *)
(* empty for a stream that liststreams said had more: neither the "Found a *)
(* bug!" exit nor newItems[-1] is ever reached.                            *)
AnswersAreNotEmpty ==
    Quiet => \A r \in Threads : EndOfStream(r) => newItems[r] # <<>>

(* The cache shows the sourced value of a prefix of each stream, whole     *)
(* passes at a time (LedgerView), as long as it is Undisturbed.            *)
View == INSTANCE LedgerView WITH
            ledger   <- chain,
            position <- [s \in Streams |-> Position(s)],
            events   <- eventsByStream

ShowsPrefixes == View!Spec

(* Every call of withCache, nested ones included, and every restore is     *)
(* answered: no thread waits for the lock for ever, and the transaction    *)
(* that waits for a nested call does not hold the lock that call needs.    *)
EveryRequestAnswered ==
    \A r \in Threads : <>(pc[r] \in {"done", "failed"})
=============================================================================

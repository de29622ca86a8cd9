---------------------------- MODULE Cache_proofs ----------------------------
(***************************************************************************)
(* The cache, for every number of requests, streams and items and any size *)
(* of a batch.  Whatever the node does to the chain: every variable keeps  *)
(* its type, refreshes exclude each other, and the cursors agree with the  *)
(* cached events.  As long as it only adds to the chain: what the cache    *)
(* shows is sourced from a prefix of it (PrefixInv), an update always      *)
(* finds new items, a transaction reads what was listed for it, and the    *)
(* cache implements LedgerView.                                            *)
(***************************************************************************)
EXTENDS Cache, Ledger_proofs

(* Items with none but the given oddities.                                 *)
ItemsWith(odds) == {it \in Item : OdditiesOf(it.large, it.content) \subseteq odds}

(* What has been seen is what there is on the chain, and what was fetched  *)
(* are events unless something else has been published.                    *)
OddInv ==
    /\ chain \in [Streams -> Seq(ItemsWith(seen))]
    /\ NothingIgnored => newItems \in [Threads -> Seq(Events)]

(* What a thread that is fetching a stream knows: where its items go.      *)
FetchInv ==
    \A r \in Threads : pc[r] = "fetch" =>
        IF isRebuild[r]
          THEN first[r] = Len(newItems[r])
          ELSE /\ HasCursor(cur[r])
               /\ first[r] = Position(cur[r]) + Len(newItems[r])

IInv == StateTypeOK /\ RefreshMutex /\ FetchInv /\ CursorDescribesCache

LEMMA AnyStreamType == AnyStream \in Streams
BY CacheAssumption DEF AnyStream

(* An answer of retrieveItems holds items of the stream, in order.         *)
LEMMA AnswerType ==
    ASSUME StateTypeOK, NEW s \in Streams, NEW n \in Nat, NEW pick \in Answers(s, n),
           NEW batch \in Batches(s, pick)
    PROVE  /\ Len(pick) \in Nat /\ Len(batch) = Len(pick) /\ batch \in Seq(Item)
           /\ \A k \in 1 .. Len(pick) : /\ pick[k] \in 1 .. Len(chain[s])
                                        /\ batch[k] \in Readings(chain[s][pick[k]])
<1> DEFINE last  == IF n + BatchSize < Len(chain[s]) THEN n + BatchSize ELSE Len(chain[s])
           asked == n + 1 .. last
<1>1. BatchSize \in Nat /\ chain[s] \in Seq(Item)
  BY CacheAssumption DEF StateTypeOK
<1>2. Len(chain[s]) \in Nat
  BY <1>1
<1>3. last \in Nat /\ last <= Len(chain[s])
  BY <1>1, <1>2
<1>4. PICK m \in 0 .. BatchSize : pick \in [1 .. m -> asked]
  BY DEF Answers
<1>5. m \in Nat /\ Len(pick) = m /\ DOMAIN pick = 1 .. m
  BY <1>1, <1>4
<1>6. \A k \in 1 .. m : pick[k] \in asked
  BY <1>4
<1>7. asked \subseteq 1 .. Len(chain[s])
  BY <1>2, <1>3
<1>8. \A k \in 1 .. m : pick[k] \in 1 .. Len(chain[s]) /\ chain[s][pick[k]] \in Item
  BY <1>1, <1>6, <1>7
<1>9. /\ \E read : batch \in [1 .. m -> read]
      /\ \A k \in 1 .. m : batch[k] \in Readings(chain[s][pick[k]])
  BY <1>5 DEF Batches
<1>10. ASSUME NEW item \in Item, NEW reading \in Readings(item)
       PROVE  reading \in Item
  BY DEF Readings, Unread, Item, Contents
<1>11. \A k \in 1 .. m : batch[k] \in Item
  BY <1>8, <1>9, <1>10
<1>12. batch \in [1 .. m -> Item]
  BY <1>9, <1>11
<1>13. batch \in Seq(Item) /\ Len(batch) = m
  BY <1>5, <1>12
<1>14. QED
  BY <1>5, <1>8, <1>9, <1>13

(* findStartIndex starts over, or right after the cursor.                  *)
LEMMA StartIndexType ==
    ASSUME StateTypeOK, NEW s \in Streams, NEW start \in StartIndexes(s)
    PROVE  /\ start \in Nat
           /\ start = 0 \/ (HasCursor(s) /\ start = streamState[s].index + 1)
BY DEF StateTypeOK, StartIndexes, Cursor, NoCursor, HasCursor

LEMMA InitIInv == Init => IInv
<1> SUFFICES ASSUME Init PROVE IInv
  OBVIOUS
<1>1. StateTypeOK
  <2>1. /\ chain \in [Streams -> Seq(Item)]
        /\ eventsByStream \in [Streams -> Seq(Item)]
        /\ newItems \in [Threads -> Seq(Item)]
    BY DEF Init, InitCache, NoEvents
  <2>2. /\ streamState \in [Streams -> Cursor \cup {NoCursor}]
        /\ listing \in [Threads -> [Streams -> Nat]]
        /\ todo \in [Threads -> SUBSET Streams]
    BY DEF Init, InitCache, NoCursors, NoListing
  <2>3. cur \in [Threads -> Streams]
    BY AnyStreamType DEF Init
  <2>4. /\ published \in Nat /\ odd \in Nat /\ reorgs \in Nat /\ crashes \in Nat
        /\ seen \in SUBSET Oddities
        /\ isWriteLocked \in BOOLEAN
        /\ pc \in [Threads -> Pcs]
        /\ isRebuild \in [Threads -> BOOLEAN]
        /\ first \in [Threads -> Nat]
        /\ nested \in [Threads -> Nat]
    BY DEF Init, Pcs, Updating
  <2>5. QED
    BY <2>1, <2>2, <2>3, <2>4 DEF StateTypeOK
<1>2. RefreshMutex /\ FetchInv
  BY DEF Init, RefreshMutex, FetchInv, Updating
<1>3. CursorDescribesCache
  BY KeptStreamsAssumption DEF Init, InitCache, NoCursors, NoEvents, CursorDescribesCache, NothingIgnored,
     HasCursor, Position
<1>4. QED
  BY <1>1, <1>2, <1>3 DEF IInv

LEMMA GrabWriteLockInv ==
    ASSUME IInv, NEW r \in Threads, GrabWriteLock(r)
    PROVE  IInv'
<1> USE DEF IInv, GrabWriteLock, chainVars, cacheVars, localVars, Goto, Updating, Pcs
<1>1. StateTypeOK'
  BY DEF StateTypeOK
<1>2. RefreshMutex'
  BY DEF StateTypeOK, RefreshMutex
<1>3. FetchInv'
  BY DEF StateTypeOK, RefreshMutex, FetchInv, HasCursor, Position
<1>4. CursorDescribesCache'
  BY KeptStreamsAssumption DEF StateTypeOK, CursorDescribesCache, NothingIgnored, HasCursor, Position
<1>5. QED
  BY <1>1, <1>2, <1>3, <1>4

(* What a thread of the loop does to the lock and to its pc.               *)
LEMMA ContinueType ==
    ASSUME StateTypeOK, NEW r \in Threads, NEW streams \in SUBSET Streams,
           Continue(r, streams)
    PROVE  /\ todo' \in [Threads -> SUBSET Streams]
           /\ pc' \in [Threads -> Pcs]
           /\ isWriteLocked' \in BOOLEAN
<1>1. CASE streams = {}
  BY <1>1 DEF StateTypeOK, Continue, Goto, Pcs
<1>2. CASE streams # {}
  BY <1>2 DEF StateTypeOK, Continue, Goto, Pcs, Updating
<1>3. QED
  BY <1>1, <1>2

LEMMA ContinueMutex ==
    ASSUME StateTypeOK, RefreshMutex, NEW r \in Threads, NEW streams, pc[r] \in Updating,
           Continue(r, streams)
    PROVE  /\ RefreshMutex'
           /\ \A q \in Threads : pc'[q] # "fetch"
<1>1. \A q \in Threads \ {r} : pc[q] \notin Updating /\ pc'[q] = pc[q]
  BY DEF StateTypeOK, RefreshMutex, Continue, Goto
<1>2. isWriteLocked
  BY DEF RefreshMutex
<1>3. CASE streams = {}
  <2>1. pc'[r] = "run" /\ isWriteLocked' = FALSE
    BY <1>3 DEF StateTypeOK, Continue, Goto
  <2>2. QED
    BY <1>1, <2>1 DEF RefreshMutex, Updating
<1>4. CASE streams # {}
  <2>1. pc'[r] = "scan" /\ isWriteLocked' = isWriteLocked
    BY <1>4 DEF StateTypeOK, Continue, Goto
  <2>2. QED
    BY <1>1, <1>2, <2>1 DEF RefreshMutex, Updating
<1>5. QED
  BY <1>3, <1>4

LEMMA ListStreamsInv ==
    ASSUME IInv, NEW r \in Threads, ListStreams(r)
    PROVE  IInv'
<1> USE DEF IInv
<1>1. StateTypeOK'
  <2>1. listing' \in [Threads -> [Streams -> Nat]]
    BY DEF ListStreams, StateTypeOK
  <2>2. QED
    BY <2>1, ContinueType DEF ListStreams, StateTypeOK, chainVars, cacheVars, localVars
<1>2. RefreshMutex' /\ FetchInv'
  BY ContinueMutex DEF ListStreams, Updating, FetchInv
<1>3. CursorDescribesCache'
  BY DEF ListStreams, chainVars, cacheVars, CursorDescribesCache, NothingIgnored, HasCursor, Position
<1>4. QED
  BY <1>1, <1>2, <1>3

LEMMA FindStartIndexInv ==
    ASSUME IInv, NEW r \in Threads, FindStartIndex(r)
    PROVE  IInv'
<1> USE DEF IInv
<1>0. PICK s \in todo[r] : \E start \in StartIndexes(s) :
        /\ cur' = [cur EXCEPT ![r] = s]
        /\ first' = [first EXCEPT ![r] = start]
        /\ isRebuild' = [isRebuild EXCEPT
                            ![r] = ~HasCursor(s) \/ start # streamState[s].index + 1]
  BY DEF FindStartIndex
<1>1. PICK start \in StartIndexes(s) :
        /\ cur' = [cur EXCEPT ![r] = s]
        /\ first' = [first EXCEPT ![r] = start]
        /\ isRebuild' = [isRebuild EXCEPT
                            ![r] = ~HasCursor(s) \/ start # streamState[s].index + 1]
  BY <1>0
<1>2. s \in Streams
  BY DEF StateTypeOK
<1>3. /\ start \in Nat
      /\ start = 0 \/ (HasCursor(s) /\ start = streamState[s].index + 1)
  BY <1>2, StartIndexType
<1>4. StateTypeOK'
  BY <1>1, <1>2, <1>3 DEF FindStartIndex, StateTypeOK, Goto, Pcs, Updating, chainVars, cacheVars
<1>5. RefreshMutex'
  BY DEF FindStartIndex, StateTypeOK, RefreshMutex, Goto, Updating
<1>6. FetchInv'
  <2>1. \A q \in Threads \ {r} : pc'[q] # "fetch"
    BY DEF FindStartIndex, StateTypeOK, RefreshMutex, Goto, Updating
  <2>2. /\ cur'[r] = s /\ first'[r] = start /\ Len(newItems'[r]) = 0
        /\ streamState' = streamState
    BY <1>1 DEF FindStartIndex, StateTypeOK, cacheVars
  <2>3. CASE start = 0
    <3>1. HasCursor(s) => streamState[s].index \in Nat
      BY <1>2 DEF StateTypeOK, HasCursor, Cursor
    <3>2. ~HasCursor(s) \/ start # streamState[s].index + 1
      BY <2>3, <3>1
    <3>3. isRebuild' = [isRebuild EXCEPT ![r] = TRUE]
      BY <1>1, <3>2
    <3>4. isRebuild'[r] /\ first'[r] = Len(newItems'[r])
      BY <2>2, <2>3, <3>3 DEF StateTypeOK
    <3>5. QED
      BY <2>1, <3>4 DEF FetchInv
  <2>4. CASE HasCursor(s) /\ start = streamState[s].index + 1
    <3>0. isRebuild' = [isRebuild EXCEPT ![r] = FALSE]
      BY <1>1, <2>4
    <3>1. ~isRebuild'[r] /\ first'[r] = start + Len(newItems'[r])
      BY <1>3, <2>2, <3>0 DEF StateTypeOK
    <3>2. HasCursor(cur[r])' /\ Position(cur[r])' = start
      BY <2>2, <2>4 DEF HasCursor, Position
    <3>3. QED
      BY <2>1, <3>1, <3>2 DEF FetchInv
  <2>5. QED
    BY <1>3, <2>3, <2>4
<1>7. CursorDescribesCache'
  BY DEF FindStartIndex, chainVars, cacheVars, CursorDescribesCache, NothingIgnored, HasCursor, Position
<1>8. QED
  BY <1>4, <1>5, <1>6, <1>7

LEMMA RetrieveItemsInv ==
    ASSUME IInv, NEW r \in Threads, RetrieveItems(r)
    PROVE  IInv'
<1> USE DEF IInv
<1>0. PICK pick \in Answers(cur[r], first[r]) : \E batch \in Batches(cur[r], pick) :
        /\ first' = [first EXCEPT ![r] = @ + Len(batch)]
        /\ newItems' = [newItems EXCEPT ![r] = @ \o batch]
  BY DEF RetrieveItems
<1>1. PICK batch \in Batches(cur[r], pick) :
        /\ first' = [first EXCEPT ![r] = @ + Len(batch)]
        /\ newItems' = [newItems EXCEPT ![r] = @ \o batch]
  BY <1>0
<1>2. cur[r] \in Streams /\ first[r] \in Nat /\ newItems[r] \in Seq(Item)
  BY DEF StateTypeOK
<1>3. Len(pick) \in Nat /\ batch \in Seq(Item) /\ Len(batch) = Len(pick)
  BY <1>2, AnswerType
<1>4. /\ newItems[r] \o batch \in Seq(Item)
      /\ Len(newItems[r] \o batch) = Len(newItems[r]) + Len(pick)
  BY <1>2, <1>3
<1>5. /\ first' = [first EXCEPT ![r] = first[r] + Len(pick)]
      /\ newItems' = [newItems EXCEPT ![r] = newItems[r] \o batch]
  BY <1>1, <1>3 DEF StateTypeOK
<1>6. /\ first' \in [Threads -> Nat]
      /\ newItems' \in [Threads -> Seq(Item)]
  BY <1>2, <1>3, <1>4, <1>5 DEF StateTypeOK
<1>7. StateTypeOK'
  BY <1>6 DEF RetrieveItems, StateTypeOK, chainVars, cacheVars
<1>8. RefreshMutex'
  BY DEF RetrieveItems, RefreshMutex
<1>9. FetchInv'
  <2>1. first'[r] = first[r] + Len(pick) /\ Len(newItems'[r]) = Len(newItems[r]) + Len(pick)
    BY <1>4, <1>5 DEF StateTypeOK
  <2>2. \A q \in Threads \ {r} : first'[q] = first[q] /\ newItems'[q] = newItems[q]
    BY <1>5 DEF StateTypeOK
  <2>3. /\ streamState' = streamState /\ pc' = pc /\ cur' = cur /\ isRebuild' = isRebuild
    BY DEF RetrieveItems, cacheVars
  <2>4. Len(newItems[r]) \in Nat /\ Position(cur[r]) \in Nat
    BY <1>2 DEF StateTypeOK, Position, HasCursor, Cursor
  <2>5. ASSUME NEW q \in Threads, pc'[q] = "fetch"
        PROVE  IF isRebuild'[q]
                 THEN first'[q] = Len(newItems'[q])
                 ELSE HasCursor(cur[q]) /\ first'[q] = Position(cur[q]) + Len(newItems'[q])
    <3>1. CASE q = r
      <4>1. pc[r] = "fetch"
        BY <2>3, <2>5, <3>1
      <4>2. CASE isRebuild[r]
        <5>1. first[r] = Len(newItems[r])
          BY <4>1, <4>2 DEF FetchInv
        <5>2. QED
          BY <1>2, <1>3, <2>1, <2>3, <2>4, <3>1, <4>2, <5>1
      <4>3. CASE ~isRebuild[r]
        <5>1. HasCursor(cur[r]) /\ first[r] = Position(cur[r]) + Len(newItems[r])
          BY <4>1, <4>3 DEF FetchInv
        <5>2. QED
          BY <1>2, <1>3, <2>1, <2>3, <2>4, <3>1, <4>3, <5>1
      <4>4. QED
        BY <4>2, <4>3
    <3>2. CASE q # r
      BY <2>2, <2>3, <2>5, <3>2 DEF FetchInv
    <3>3. QED
      BY <3>1, <3>2
  <2>6. QED
    BY <2>3, <2>5 DEF FetchInv, HasCursor, Position
<1>10. CursorDescribesCache'
  BY DEF RetrieveItems, chainVars, cacheVars, CursorDescribesCache, NothingIgnored, HasCursor, Position
<1>11. QED
  BY <1>7, <1>8, <1>9, <1>10

LEMMA ThrowInv ==
    ASSUME IInv, NEW r \in Threads, pc[r] \in Updating, Throw(r)
    PROVE  IInv'
<1> USE DEF IInv
<1>1. StateTypeOK'
  <2>1. /\ cur' \in [Threads -> Streams]
        /\ isRebuild' \in [Threads -> BOOLEAN]
        /\ first' \in [Threads -> Nat]
        /\ newItems' \in [Threads -> Seq(Item)]
    BY AnyStreamType DEF Throw, EndRound, StateTypeOK
  <2>2. /\ listing' \in [Threads -> [Streams -> Nat]]
        /\ todo' \in [Threads -> SUBSET Streams]
    BY DEF Throw, EndCall, NoListing, StateTypeOK
  <2>3. pc' \in [Threads -> Pcs] /\ isWriteLocked' \in BOOLEAN
    BY DEF Throw, Goto, Pcs, StateTypeOK
  <2>4. QED
    BY <2>1, <2>2, <2>3 DEF Throw, StateTypeOK, chainVars, cacheVars
<1>2. RefreshMutex' /\ FetchInv'
  BY DEF Throw, StateTypeOK, RefreshMutex, FetchInv, Goto, Updating
<1>3. CursorDescribesCache'
  BY DEF Throw, chainVars, cacheVars, CursorDescribesCache, NothingIgnored, HasCursor, Position
<1>4. QED
  BY <1>1, <1>2, <1>3

LEMMA CallWithCacheInv ==
    ASSUME IInv, NEW r \in Threads, CallWithCache(r)
    PROVE  IInv'
<1> USE DEF IInv, CallWithCache, EndCall, NoListing, chainVars, cacheVars, localVars, Goto, Updating, Pcs
<1>1. StateTypeOK'
  BY DEF StateTypeOK
<1>2. RefreshMutex'
  BY DEF StateTypeOK, RefreshMutex
<1>3. FetchInv'
  BY DEF StateTypeOK, RefreshMutex, FetchInv, HasCursor, Position
<1>4. CursorDescribesCache'
  BY KeptStreamsAssumption DEF StateTypeOK, CursorDescribesCache, NothingIgnored, HasCursor, Position
<1>5. QED
  BY <1>1, <1>2, <1>3, <1>4

LEMMA ReturnInv ==
    ASSUME IInv, NEW r \in Threads, Return(r)
    PROVE  IInv'
<1> USE DEF IInv, Return, EndCall, NoListing, chainVars, cacheVars, localVars, Goto, Updating, Pcs
<1>1. StateTypeOK'
  BY DEF StateTypeOK
<1>2. RefreshMutex'
  BY DEF StateTypeOK, RefreshMutex
<1>3. FetchInv'
  BY DEF StateTypeOK, RefreshMutex, FetchInv, HasCursor, Position
<1>4. CursorDescribesCache'
  BY KeptStreamsAssumption DEF StateTypeOK, CursorDescribesCache, NothingIgnored, HasCursor, Position
<1>5. QED
  BY <1>1, <1>2, <1>3, <1>4

LEMMA CommitStreamInv ==
    ASSUME IInv, OddInv, NEW r \in Threads, CommitStream(r)
    PROVE  IInv'
<1> USE DEF IInv
<1> DEFINE s == cur[r]
           items == newItems[r]
           n == first[r]
<1>1. /\ s \in Streams /\ n \in Nat /\ items \in Seq(Item) /\ items # <<>>
      /\ Len(items) \in Nat \ {0}
      /\ pc[r] = "fetch"
      /\ isRebuild[r] \in BOOLEAN
  BY DEF StateTypeOK, CommitStream, EndOfStream
<1>2. items[Len(items)] \in Item
  BY <1>1
<1>3. Position(s) \in Nat /\ Len(eventsByStream[s]) \in Nat /\ eventsByStream[s] \in Seq(Item)
  BY <1>1 DEF StateTypeOK, Position, HasCursor, Cursor
<1>4. /\ isRebuild[r] => n = Len(items)
      /\ ~isRebuild[r] => n = Position(s) + Len(items)
  BY <1>1 DEF FetchInv
<1>5. n \in Nat \ {0}
  BY <1>1, <1>3, <1>4
<1>6. /\ CursorAfter(n, items) \in Cursor
      /\ CursorAfter(n, items) # NoCursor
      /\ CursorAfter(n, items).index = n - 1
      /\ CursorAfter(n, items).txid = items[Len(items)].txid
  BY <1>2, <1>5 DEF CursorAfter, Cursor, NoCursor, Item
<1>7. EventsAfter(s, isRebuild[r], items) \in Seq(Item)
  <2>1. PICK evs : evs = EventsIn(items)
    OBVIOUS
  <2>2. evs \in Seq(Item)
    BY <1>1, <2>1, EventsInType
  <2>3. QED
    BY <1>1, <1>3, <2>1, <2>2 DEF EventsAfter
<1>8. /\ streamState' = [streamState EXCEPT ![s] = CursorAfter(n, items)]
      /\ eventsByStream' = [eventsByStream EXCEPT ![s] = EventsAfter(s, isRebuild[r], items)]
      /\ Continue(r, todo[r] \ {s})
      /\ EndRound(r)
      /\ UNCHANGED <<chainVars, crashes, listing, nested>>
  BY DEF CommitStream
<1> HIDE DEF s, items, n
<1>9. StateTypeOK'
  <2>1. /\ streamState' \in [Streams -> Cursor \cup {NoCursor}]
        /\ eventsByStream' \in [Streams -> Seq(Item)]
    BY <1>6, <1>7, <1>8 DEF StateTypeOK
  <2>2. /\ cur' \in [Threads -> Streams]
        /\ isRebuild' \in [Threads -> BOOLEAN]
        /\ first' \in [Threads -> Nat]
        /\ newItems' \in [Threads -> Seq(Item)]
    BY <1>8, AnyStreamType DEF EndRound, StateTypeOK
  <2>3. todo[r] \ {s} \in SUBSET Streams
    BY DEF StateTypeOK
  <2>4. /\ todo' \in [Threads -> SUBSET Streams]
        /\ pc' \in [Threads -> Pcs]
        /\ isWriteLocked' \in BOOLEAN
    BY <1>8, <2>3, ContinueType
  <2>5. QED
    BY <1>8, <2>1, <2>2, <2>4 DEF StateTypeOK, chainVars
<1>10. RefreshMutex' /\ FetchInv'
  BY <1>1, <1>8, ContinueMutex DEF FetchInv, Updating
<1>11. CursorDescribesCache'
  <2>0. NothingIgnored' = NothingIgnored
    BY <1>8 DEF chainVars, NothingIgnored
  <2>1. SUFFICES ASSUME NEW t \in KeptStreams
                 PROVE  /\ Len(eventsByStream'[t]) <= Position(t)'
                        /\ NothingIgnored =>
                              /\ Len(eventsByStream'[t]) = Position(t)'
                              /\ HasCursor(t)' =>
                                   eventsByStream'[t][Position(t)'].txid = streamState'[t].txid
    BY <2>0 DEF CursorDescribesCache
  <2>2. t \in Streams
    BY KeptStreamsAssumption
  <2>3. CASE t # s
    BY <1>8, <2>2, <2>3 DEF CursorDescribesCache, NothingIgnored, StateTypeOK, Position, HasCursor
  <2>4. CASE t = s
    <3>1. streamState'[t] = CursorAfter(n, items)
      BY <1>8, <2>2, <2>4 DEF StateTypeOK
    <3>2. HasCursor(t)' /\ Position(t)' = n
      BY <1>5, <1>6, <3>1 DEF HasCursor, Position
    <3>3. PICK old, evs : /\ old = IF isRebuild[r] THEN <<>> ELSE eventsByStream[t]
                          /\ evs = EventsIn(items)
      OBVIOUS
    <3>4. old \in Seq(Item) /\ evs \in Seq(Item) /\ Len(evs) <= Len(items)
      BY <1>1, <1>3, <2>4, <3>3, EventsInType
    <3>5. eventsByStream'[t] = old \o evs /\ Len(old \o evs) = Len(old) + Len(evs)
      BY <1>8, <2>2, <2>4, <3>3, <3>4 DEF StateTypeOK, EventsAfter
    <3>6. /\ Len(eventsByStream[t]) <= Position(s)
          /\ NothingIgnored => Len(eventsByStream[t]) = Position(s)
      BY <2>4 DEF CursorDescribesCache
    <3>7. /\ Len(old) \in Nat /\ Len(evs) \in Nat /\ Len(old) + Len(items) <= n
          /\ NothingIgnored => Len(old) + Len(items) = n
      <4>1. CASE isRebuild[r]
        BY <1>1, <1>4, <3>3, <3>4, <4>1
      <4>2. CASE ~isRebuild[r]
        <5>1. old = eventsByStream[t]
          BY <3>3, <4>2
        <5>2. PICK have, read \in Nat : have = Len(old) /\ read = Len(items)
          BY <1>1, <3>4
        <5>3. n = Position(s) + read
          BY <1>4, <4>2, <5>2
        <5>4. have <= Position(s) /\ (NothingIgnored => have = Position(s))
          BY <3>6, <5>1, <5>2
        <5>5. have + read <= n /\ (NothingIgnored => have + read = n)
          BY <1>3, <5>3, <5>4
        <5>6. Len(evs) \in Nat
          BY <3>4
        <5>7. QED
          BY <5>2, <5>5, <5>6
      <4>3. QED
        BY <4>1, <4>2
    <3>8. Len(eventsByStream'[t]) <= n
      BY <1>1, <1>5, <3>4, <3>5, <3>7
    <3>9. ASSUME NothingIgnored
          PROVE  Len(eventsByStream'[t]) = n /\ eventsByStream'[t][n] = items[Len(items)]
      <4>1. items \in Seq(Events)
        BY <3>9 DEF OddInv, items
      <4>2. evs = items
        BY <3>3, <4>1, EventsInEvents
      <4>3. (old \o evs)[Len(old) + Len(items)] = items[Len(items)]
        BY <1>1, <3>4, <4>2
      <4>4. QED
        BY <3>5, <3>7, <3>9, <4>2, <4>3
    <3>10. QED
      BY <1>6, <3>1, <3>2, <3>8, <3>9
  <2>5. QED
    BY <2>3, <2>4
<1>12. QED
  BY <1>9, <1>10, <1>11

LEMMA RestartInv ==
    ASSUME IInv, Restart, crashes' \in Nat
    PROVE  IInv'
<1> USE DEF IInv
<1>1. StateTypeOK'
  <2>1. /\ streamState' \in [Streams -> Cursor \cup {NoCursor}]
        /\ eventsByStream' \in [Streams -> Seq(Item)]
    BY DEF Restart, ClearCache, NoCursors, NoEvents
  <2>2. cur' \in [Threads -> Streams]
    BY AnyStreamType DEF Restart
  <2>3. /\ newItems' \in [Threads -> Seq(Item)]
        /\ listing' \in [Threads -> [Streams -> Nat]]
        /\ todo' \in [Threads -> SUBSET Streams]
    BY DEF Restart, NoListing
  <2>4. /\ isRebuild' \in [Threads -> BOOLEAN]
        /\ first' \in [Threads -> Nat]
    BY DEF Restart
  <2>5. pc' \in [Threads -> Pcs]
    BY DEF Restart, StateTypeOK, Pcs
  <2>6. QED
    BY <2>1, <2>2, <2>3, <2>4, <2>5 DEF Restart, StateTypeOK, chainVars
<1>2. RefreshMutex' /\ FetchInv'
  BY DEF Restart, RefreshMutex, FetchInv, Updating
<1>3. CursorDescribesCache'
  BY KeptStreamsAssumption
     DEF Restart, ClearCache, NoCursors, NoEvents, CursorDescribesCache, NothingIgnored, HasCursor, Position
<1>4. QED
  BY <1>1, <1>2, <1>3

(* The items on the chain remain in any set that has all that may be       *)
(* published.                                                              *)
LEMMA RestoreBackupChain ==
    ASSUME StateTypeOK, NEW r \in Threads, RestoreBackup(r), NEW P \in SUBSET Item,
           chain \in [Streams -> Seq(P)]
    PROVE  chain' \in [Streams -> Seq(P)]
<1>1. PICK backup \in [Streams -> 0 .. MaxItems] :
        /\ \A s \in Streams : backup[s] <= Len(chain[s])
        /\ chain' = [s \in Streams |-> SubSeq(chain[s], 1, backup[s])]
  BY DEF RestoreBackup
<1>2. ASSUME NEW s \in Streams
      PROVE  SubSeq(chain[s], 1, backup[s]) \in Seq(P)
  <2>1. chain[s] \in Seq(P) /\ backup[s] \in 0 .. Len(chain[s])
    BY <1>1, CacheAssumption
  <2>2. \A k \in 1 .. backup[s] : chain[s][k] \in P
    BY <2>1
  <2>3. QED
    BY <2>1, <2>2
<1>3. QED
  BY <1>1, <1>2

LEMMA RestoreBackupInv ==
    ASSUME IInv, NEW r \in Threads, RestoreBackup(r)
    PROVE  IInv'
<1> USE DEF IInv
<1>2. chain' \in [Streams -> Seq(Item)]
  BY RestoreBackupChain DEF StateTypeOK
<1>3. StateTypeOK'
  BY <1>2 DEF RestoreBackup, StateTypeOK, cacheVars, localVars, Goto, Pcs
<1>4. RefreshMutex' /\ FetchInv'
  BY DEF RestoreBackup, StateTypeOK, RefreshMutex, FetchInv, Goto, Updating, cacheVars,
     localVars, HasCursor, Position
<1>5. CursorDescribesCache'
  BY DEF RestoreBackup, cacheVars, CursorDescribesCache, NothingIgnored, HasCursor, Position
<1>6. QED
  BY <1>3, <1>4, <1>5

LEMMA InvalidateCacheInv ==
    ASSUME IInv, NEW r \in Threads, InvalidateCache(r)
    PROVE  IInv'
<1> USE DEF IInv
<1>1. StateTypeOK'
  <2>1. /\ streamState' \in [Streams -> Cursor \cup {NoCursor}]
        /\ eventsByStream' \in [Streams -> Seq(Item)]
    BY DEF InvalidateCache, ClearCache, NoCursors, NoEvents
  <2>2. QED
    BY <2>1 DEF InvalidateCache, StateTypeOK, chainVars, localVars, Goto, Pcs
<1>2. \A q \in Threads : pc[q] \notin Updating
  BY DEF InvalidateCache, RefreshMutex
<1>3. RefreshMutex' /\ FetchInv'
  BY <1>2 DEF InvalidateCache, StateTypeOK, RefreshMutex, FetchInv, Goto, Updating
<1>4. CursorDescribesCache'
  BY KeptStreamsAssumption DEF InvalidateCache, ClearCache, NoCursors, NoEvents,
     CursorDescribesCache, NothingIgnored, HasCursor, Position
<1>5. QED
  BY <1>1, <1>3, <1>4

LEMMA PublishChain ==
    ASSUME StateTypeOK, NEW s \in Streams, Publish(s), NEW P \in SUBSET Item,
           ItemsWith(seen') \subseteq P, chain \in [Streams -> Seq(P)]
    PROVE  chain' \in [Streams -> Seq(P)]
<1>1. PICK a \in AggIds, creates \in Creations(s), large \in BOOLEAN, content \in Contents :
        /\ chain' = [chain EXCEPT ![s] = Append(@,
             [txid |-> published + 1, agg |-> a, creates |-> creates,
              large |-> large, content |-> content])]
        /\ seen' = seen \cup OdditiesOf(large, content)
  BY DEF Publish
<1>2. PICK x : x = [txid |-> published + 1, agg |-> a, creates |-> creates,
                    large |-> large, content |-> content]
  OBVIOUS
<1>3. x \in Item /\ x.large = large /\ x.content = content
  <2>1. creates \in BOOLEAN
    BY DEF Creations
  <2>2. published + 1 \in Nat \ {0}
    BY DEF StateTypeOK
  <2>3. QED
    BY <1>2, <2>1, <2>2 DEF Item
<1>4. x \in P
  BY <1>1, <1>3 DEF ItemsWith
<1>5. chain' = [chain EXCEPT ![s] = Append(chain[s], x)]
  BY <1>1, <1>2
<1>6. QED
  BY <1>4, <1>5

LEMMA PublishTypes ==
    ASSUME StateTypeOK, NEW s \in Streams, Publish(s)
    PROVE  /\ odd' \in Nat /\ published' \in Nat
           /\ seen' \in SUBSET Oddities /\ seen \subseteq seen'
<1>1. PICK odds \in SUBSET Oddities : /\ odd' = IF odds = {} THEN odd ELSE odd + 1
                                      /\ seen' = seen \cup odds
  BY DEF Publish
<1>2. QED
  BY <1>1 DEF Publish, StateTypeOK

LEMMA PublishInv ==
    ASSUME IInv, NEW s \in Streams, Publish(s)
    PROVE  IInv'
<1> USE DEF IInv
<1>1. chain' \in [Streams -> Seq(Item)]
  <2>1. ItemsWith(seen') \subseteq Item /\ chain \in [Streams -> Seq(Item)]
    BY DEF ItemsWith, StateTypeOK
  <2>2. QED
    BY <2>1, PublishChain
<1>2. odd' \in Nat /\ published' \in Nat /\ seen' \in SUBSET Oddities /\ seen \subseteq seen'
  BY PublishTypes
<1>3. StateTypeOK'
  BY <1>1, <1>2 DEF Publish, StateTypeOK, cacheVars, localVars
<1>4. RefreshMutex' /\ FetchInv'
  BY DEF Publish, RefreshMutex, FetchInv, cacheVars, localVars, HasCursor, Position
<1>5. CursorDescribesCache'
  <2>1. NothingIgnored' => NothingIgnored
    BY <1>2 DEF NothingIgnored
  <2>2. QED
    BY <2>1 DEF Publish, CursorDescribesCache, cacheVars, HasCursor, Position
<1>6. QED
  BY <1>3, <1>4, <1>5

LEMMA ReorganiseChain ==
    ASSUME StateTypeOK, NEW s \in Streams, Reorganise(s), NEW P \in SUBSET Item,
           ItemsWith(seen) \subseteq P, chain \in [Streams -> Seq(P)]
    PROVE  chain' \in [Streams -> Seq(P)] /\ published' \in Nat
<1>1. chain[s] \in Seq(P) /\ published + 1 \in Nat \ {0}
  BY DEF StateTypeOK
<1>2. CASE \E k \in 1 .. Len(chain[s]) - 1 :
              chain' = [chain EXCEPT ![s] = Swapped(@, k)] /\ published' = published
  <2>1. PICK k \in 1 .. Len(chain[s]) - 1 :
              chain' = [chain EXCEPT ![s] = Swapped(@, k)] /\ published' = published
    BY <1>2
  <2>2. k \in 1 .. Len(chain[s]) /\ k + 1 \in 1 .. Len(chain[s])
    BY <1>1
  <2>3. \A i \in 1 .. Len(chain[s]) : chain[s][i] \in P
    BY <1>1
  <2>4. Swapped(chain[s], k) \in [1 .. Len(chain[s]) -> P]
    BY <1>1, <2>2, <2>3 DEF Swapped
  <2>5. Swapped(chain[s], k) \in Seq(P)
    BY <1>1, <2>4
  <2>6. QED
    BY <2>1, <2>5 DEF StateTypeOK
<1>3. CASE /\ chain[s] # <<>>
           /\ \E a \in AggIds, creates \in Creations(s) :
                chain' = [chain EXCEPT ![s] = [@ EXCEPT ![Len(@)] =
                  [txid |-> published + 1, agg |-> a, creates |-> creates,
                   large |-> FALSE, content |-> "event"]]]
           /\ published' = published + 1
  <2>1. PICK a \in AggIds, creates \in Creations(s) :
                chain' = [chain EXCEPT ![s] = [@ EXCEPT ![Len(@)] =
                  [txid |-> published + 1, agg |-> a, creates |-> creates,
                   large |-> FALSE, content |-> "event"]]]
    BY <1>3
  <2> DEFINE it == [txid |-> published + 1, agg |-> a, creates |-> creates,
                    large |-> FALSE, content |-> "event"]
  <2>2. it \in P
    <3>1. creates \in BOOLEAN
      BY DEF Creations
    <3>2. it \in Item
      BY <1>1, <3>1 DEF Item, Contents
    <3>3. OdditiesOf(it.large, it.content) = {}
      BY DEF OdditiesOf
    <3>4. QED
      BY <3>2, <3>3 DEF ItemsWith
  <2> HIDE DEF it
  <2>3. [chain[s] EXCEPT ![Len(chain[s])] = it] \in Seq(P)
    <3>1. chain[s] \in [1 .. Len(chain[s]) -> P] /\ Len(chain[s]) \in Nat
      BY <1>1
    <3>2. [chain[s] EXCEPT ![Len(chain[s])] = it] \in [1 .. Len(chain[s]) -> P]
      BY <2>2, <3>1
    <3>3. QED
      BY <3>1, <3>2
  <2>4. chain' = [chain EXCEPT ![s] = [chain[s] EXCEPT ![Len(chain[s])] = it]]
    BY <2>1 DEF it
  <2>5. QED
    BY <1>1, <1>3, <2>3, <2>4
<1>4. QED
  BY <1>2, <1>3 DEF Reorganise

LEMMA ReorganiseInv ==
    ASSUME IInv, NEW s \in Streams, Reorganise(s)
    PROVE  IInv'
<1> USE DEF IInv
<1>1. chain' \in [Streams -> Seq(Item)] /\ published' \in Nat
  <2>1. ItemsWith(seen) \subseteq Item /\ chain \in [Streams -> Seq(Item)]
    BY DEF ItemsWith, StateTypeOK
  <2>2. QED
    BY <2>1, ReorganiseChain
<1>2. StateTypeOK'
  BY <1>1 DEF Reorganise, StateTypeOK, cacheVars, localVars
<1>3. RefreshMutex' /\ FetchInv' /\ CursorDescribesCache'
  BY DEF Reorganise, RefreshMutex, FetchInv, CursorDescribesCache, NothingIgnored, cacheVars,
     localVars, HasCursor, Position
<1>4. QED
  BY <1>2, <1>3

(* IInv is inductive.                                                      *)
LEMMA NextIInv == IInv /\ OddInv /\ [Next]_vars => IInv'
<1> SUFFICES ASSUME IInv, OddInv, [Next]_vars PROVE IInv'
  OBVIOUS
<1>1. ASSUME NEW r \in Threads, Step(r)
      PROVE  IInv'
  <2>1. CASE GrabWriteLock(r) BY <2>1, GrabWriteLockInv
  <2>2. CASE ListStreams(r) BY <2>2, ListStreamsInv
  <2>3. CASE FindStartIndex(r) BY <2>3, FindStartIndexInv
  <2>4. CASE RetrieveItems(r) BY <2>4, RetrieveItemsInv
  <2>5. CASE CommitStream(r) BY <2>5, CommitStreamInv
  <2>6. CASE NothingNew(r)
    BY <2>6, ThrowInv DEF NothingNew, EndOfStream, Updating
  <2>7. CASE FoundABug(r)
    BY <2>7, RestartInv DEF FoundABug, IInv, StateTypeOK
  <2>8. CASE Return(r) BY <2>8, ReturnInv
  <2>9. CASE RestoreBackup(r) BY <2>9, RestoreBackupInv
  <2>10. CASE InvalidateCache(r) BY <2>10, InvalidateCacheInv
  <2>11. QED
    BY <1>1, <2>1, <2>2, <2>3, <2>4, <2>5, <2>6, <2>7, <2>8, <2>9, <2>10 DEF Step
<1>2. ASSUME NEW r \in Threads, RpcError(r)
      PROVE  IInv'
  BY <1>2, ThrowInv DEF RpcError
<1>3. ASSUME NEW r \in Threads, CallWithCache(r)
      PROVE  IInv'
  BY <1>3, CallWithCacheInv
<1>4. ASSUME Crash
      PROVE  IInv'
  <2>1. Restart
    BY <1>4 DEF Crash
  <2>2. crashes' = crashes + 1
    BY <1>4 DEF Crash
  <2>3. crashes \in Nat
    BY DEF IInv, StateTypeOK
  <2>4. crashes' \in Nat
    BY <2>2, <2>3
  <2>5. QED
    BY <2>1, <2>4, RestartInv
<1>5. ASSUME NEW s \in Streams, Publish(s)
      PROVE  IInv'
  BY <1>5, PublishInv
<1>6. ASSUME NEW s \in Streams, Reorganise(s)
      PROVE  IInv'
  BY <1>6, ReorganiseInv
<1>7. ASSUME UNCHANGED vars
      PROVE  IInv'
  BY <1>7 DEF vars, chainVars, cacheVars, localVars, IInv, StateTypeOK, RefreshMutex, FetchInv,
     CursorDescribesCache, NothingIgnored, HasCursor, Position
<1>8. QED
  BY <1>1, <1>2, <1>3, <1>4, <1>5, <1>6, <1>7 DEF Next

(* What is fetched are events if nothing else was published.               *)
LEMMA RetrieveItemsOdd ==
    ASSUME IInv, OddInv, NEW r \in Threads, RetrieveItems(r), NothingIgnored
    PROVE  newItems' \in [Threads -> Seq(Events)]
<1>1. PICK pick \in Answers(cur[r], first[r]) : \E batch \in Batches(cur[r], pick) :
        newItems' = [newItems EXCEPT ![r] = @ \o batch]
  BY DEF RetrieveItems
<1>2. PICK batch \in Batches(cur[r], pick) :
        newItems' = [newItems EXCEPT ![r] = @ \o batch]
  BY <1>1
<1>3. PICK s : s = cur[r]
  OBVIOUS
<1>4. /\ StateTypeOK /\ s \in Streams /\ first[r] \in Nat /\ chain[s] \in Seq(ItemsWith(seen))
      /\ newItems \in [Threads -> Seq(Events)]
  BY <1>3 DEF IInv, StateTypeOK, OddInv
<1>5. /\ Len(pick) \in Nat /\ Len(batch) = Len(pick) /\ batch \in Seq(Item)
      /\ \A k \in 1 .. Len(pick) : /\ pick[k] \in 1 .. Len(chain[s])
                                   /\ batch[k] \in Readings(chain[s][pick[k]])
  BY <1>3, <1>4, AnswerType
<1>6. ASSUME NEW k \in 1 .. Len(batch)
      PROVE  batch[k] \in Events
  <2>1. PICK item : item = chain[s][pick[k]]
    OBVIOUS
  <2>2. item \in ItemsWith(seen) /\ batch[k] \in Readings(item) /\ batch[k] \in Item
    BY <1>4, <1>5, <2>1
  <2>3. item \in Item /\ OdditiesOf(item.large, item.content) \cap {"large", "ignored"} = {}
    BY <2>2 DEF ItemsWith, NothingIgnored
  <2>4. ~item.large /\ item.content # "ignored" /\ item.content \in Contents
    BY <2>3 DEF OdditiesOf, Item
  <2>5. batch[k] = item /\ item.content # "sealed"
    BY <2>2, <2>4 DEF Readings
  <2>6. QED
    BY <2>2, <2>4, <2>5 DEF Contents, Events
<1>7. batch \in Seq(Events)
  <2>1. batch \in [1 .. Len(batch) -> Events]
    BY <1>5, <1>6
  <2>2. QED
    BY <1>5, <2>1
<1>8. newItems[r] \o batch \in Seq(Events)
  BY <1>4, <1>7
<1>9. QED
  BY <1>2, <1>4, <1>8

LEMMA WithMore ==
    ASSUME NEW some, NEW more, some \subseteq more
    PROVE  ItemsWith(some) \subseteq ItemsWith(more)
BY DEF ItemsWith

LEMMA OddStep == IInv /\ OddInv /\ [Next]_vars => OddInv'
<1> SUFFICES ASSUME IInv, OddInv, [Next]_vars PROVE OddInv'
  OBVIOUS
<1>1. StateTypeOK
  BY DEF IInv
<1>2. ItemsWith(seen) \in SUBSET Item /\ ItemsWith(seen') \in SUBSET Item
  BY DEF ItemsWith
<1>3. <<>> \in Seq(Events)
  OBVIOUS
<1>4. ASSUME UNCHANGED <<chain, seen>>, UNCHANGED newItems
      PROVE  OddInv'
  BY <1>4 DEF OddInv, NothingIgnored
<1>5. ASSUME NEW r \in Threads, UNCHANGED <<chain, seen>>, newItems' = [newItems EXCEPT ![r] = <<>>]
      PROVE  OddInv'
  BY <1>3, <1>5 DEF OddInv, NothingIgnored
<1>6. ASSUME UNCHANGED <<chain, seen>>, newItems' = [r \in Threads |-> <<>>]
      PROVE  OddInv'
  BY <1>3, <1>6 DEF OddInv, NothingIgnored
<1>7. ASSUME NEW r \in Threads, RestoreBackup(r)
      PROVE  OddInv'
  <2>1. UNCHANGED <<seen, newItems>>
    BY <1>7 DEF RestoreBackup, localVars
  <2>2. chain' \in [Streams -> Seq(ItemsWith(seen))]
    BY <1>1, <1>2, <1>7, RestoreBackupChain DEF OddInv
  <2>3. QED
    BY <2>1, <2>2 DEF OddInv, NothingIgnored
<1>8. ASSUME NEW r \in Threads, RetrieveItems(r)
      PROVE  OddInv'
  <2>1. UNCHANGED <<chain, seen>>
    BY <1>8 DEF RetrieveItems, chainVars
  <2>2. QED
    BY <1>8, <2>1, RetrieveItemsOdd DEF OddInv, NothingIgnored
<1>9. ASSUME NEW s \in Streams, Publish(s)
      PROVE  OddInv'
  <2>1. seen \subseteq seen' /\ UNCHANGED newItems
    BY <1>1, <1>9, PublishTypes DEF Publish, localVars
  <2>2. ItemsWith(seen) \subseteq ItemsWith(seen')
    BY <2>1, WithMore
  <2>3. chain \in [Streams -> Seq(ItemsWith(seen'))]
    BY <2>2 DEF OddInv
  <2>4. chain' \in [Streams -> Seq(ItemsWith(seen'))]
    BY <1>1, <1>2, <1>9, <2>3, PublishChain
  <2>5. NothingIgnored' => NothingIgnored
    BY <2>1 DEF NothingIgnored
  <2>6. QED
    BY <2>1, <2>4, <2>5 DEF OddInv
<1>10. ASSUME NEW s \in Streams, Reorganise(s)
       PROVE  OddInv'
  <2>1. UNCHANGED <<seen, newItems>>
    BY <1>10 DEF Reorganise, localVars
  <2>2. chain' \in [Streams -> Seq(ItemsWith(seen))]
    BY <1>1, <1>2, <1>10, ReorganiseChain DEF OddInv
  <2>3. QED
    BY <2>1, <2>2 DEF OddInv, NothingIgnored
<1>11. ASSUME NEW r \in Threads, Throw(r)
       PROVE  OddInv'
  BY <1>5, <1>11 DEF Throw, EndRound, chainVars
<1>12. ASSUME Restart
       PROVE  OddInv'
  BY <1>6, <1>12 DEF Restart, chainVars
<1>13. ASSUME NEW r \in Threads, Step(r)
       PROVE  OddInv'
  <2>1. CASE GrabWriteLock(r) \/ ListStreams(r) \/ Return(r) \/ InvalidateCache(r)
    BY <1>4, <2>1 DEF GrabWriteLock, ListStreams, Return, InvalidateCache, chainVars, localVars
  <2>2. CASE FindStartIndex(r)
    BY <1>5, <2>2 DEF FindStartIndex, chainVars
  <2>3. CASE CommitStream(r)
    BY <1>5, <2>3 DEF CommitStream, EndRound, chainVars
  <2>4. CASE NothingNew(r) \/ FoundABug(r)
    BY <1>11, <1>12, <2>4 DEF NothingNew, FoundABug
  <2>5. CASE RetrieveItems(r) \/ RestoreBackup(r)
    BY <1>7, <1>8, <2>5
  <2>6. QED
    BY <1>13, <2>1, <2>2, <2>3, <2>4, <2>5 DEF Step
<1>14. ASSUME NEW r \in Threads, CallWithCache(r)
       PROVE  OddInv'
  BY <1>4, <1>14 DEF CallWithCache, chainVars, localVars
<1>15. ASSUME UNCHANGED vars
       PROVE  OddInv'
  BY <1>4, <1>15 DEF vars, chainVars, localVars
<1>16. QED
  BY <1>9, <1>10, <1>11, <1>12, <1>13, <1>14, <1>15 DEF Next, RpcError, Crash

LEMMA InitOddInv == Init => OddInv
BY DEF Init, OddInv

LEMMA Invariants == Safety => [](IInv /\ OddInv)
<1>1. QED
  BY InitIInv, InitOddInv, NextIInv, OddStep, PTL DEF Safety

THEOREM Invariance == Safety => []IInv
<1>1. QED
  BY Invariants, PTL

LEMMA OddInvariance == Safety => []OddInv
<1>1. QED
  BY Invariants, PTL

(* While everything is legible, so is what is on the chain.                *)
LEMMA LegibleChain ==
    ASSUME OddInv, Legible, NEW s \in Streams, NEW k \in 1 .. Len(chain[s])
    PROVE  ~chain[s][k].large /\ chain[s][k].content # "sealed"
<1>1. chain[s] \in Seq(ItemsWith(seen))
  BY DEF OddInv
<1>2. PICK item : item = chain[s][k]
  OBVIOUS
<1>3. item \in ItemsWith(seen)
  BY <1>1, <1>2
<1>4. OdditiesOf(item.large, item.content) \cap {"large", "sealed"} = {}
  BY <1>3 DEF ItemsWith, Legible
<1>5. QED
  BY <1>2, <1>4 DEF OdditiesOf

(* Every variable but the aggregates keeps its type.                       *)
THEOREM StateTypes == Safety => []StateTypeOK
<1>1. IInv => StateTypeOK
  BY DEF IInv
<1>2. QED
  BY <1>1, Invariance, PTL

(* cache2.ts:73: the lock prevents sourcing updates concurrently, and it   *)
(* is held exactly while a thread of execution refreshes the cache.        *)
THEOREM RefreshesExclude == Safety => []RefreshMutex
<1>1. IInv => RefreshMutex
  BY DEF IInv
<1>2. QED
  BY <1>1, Invariance, PTL

(* The cursor of a kept stream always counts the cached events and names   *)
(* the last of them, however the chain changes during a refresh.           *)
THEOREM CursorsDescribe == Safety => []CursorDescribesCache
<1>1. IInv => CursorDescribesCache
  BY DEF IInv
<1>2. QED
  BY <1>1, Invariance, PTL
-----------------------------------------------------------------------------
(* The contents of the cache.  As long as the node only adds to the chain, *)
(* they are sourced from a prefix of each stream.                          *)

OnlyRestorers == \A r \in Threads : pc[r] = "restore" => r \in Restorers

(* The items of a sequence that follow the first m of them, up to the nth. *)
Part(xs, m, n) == SubSeq(xs, m + 1, n)

Shown(s) == Part(chain[s], 0, Position(s))

(* What the cache shows of a stream is sourced from a prefix of it.        *)
ShowsPrefix(s) ==
    /\ Position(s) <= Len(chain[s])
    /\ HasCursor(s) => streamState[s].txid = chain[s][Position(s)].txid
    /\ eventsByStream[s] = EventsOf(s, Shown(s))
    /\ aggregates[s] = AggregatesOf(s, Shown(s))

(* What a refresh has yet to do: the streams in todo are behind what the   *)
(* node has listed, the others are not.                                    *)
Outstanding(r) ==
    \A s \in Streams :
        /\ listing[r][s] <= Len(chain[s])
        /\ IF s \in todo[r] THEN Position(s) < listing[r][s] ELSE listing[r][s] <= Position(s)

Refreshes(r) == pc[r] \in {"scan", "fetch"} => Outstanding(r)

(* Its items are those that follow what is cached, up to first.            *)
Fetches(r) ==
    pc[r] = "fetch" =>
        /\ cur[r] \in todo[r]
        /\ isRebuild[r] => ~HasCursor(cur[r])
        /\ first[r] \in Position(cur[r]) .. Len(chain[cur[r]])
        /\ newItems[r] = Part(chain[cur[r]], Position(cur[r]), first[r])

CacheInv == Quiet => (\A s \in Streams : ShowsPrefix(s)) /\ (\A r \in Threads : Refreshes(r) /\ Fetches(r))

PrefixInv == OddInv /\ OnlyRestorers /\ CacheInv

(* The aggregates are made of items.                                       *)
LEMMA AggregatesStep == IInv /\ AggregatesTypeOK /\ [Next]_vars => AggregatesTypeOK'
<1> SUFFICES ASSUME IInv, AggregatesTypeOK, [Next]_vars PROVE AggregatesTypeOK'
  OBVIOUS
<1>1. ASSUME ClearCache
      PROVE  AggregatesTypeOK'
  BY <1>1 DEF ClearCache, NoAggregates, AggregatesTypeOK
<1>2. ASSUME NEW r \in Threads, CommitStream(r)
      PROVE  AggregatesTypeOK'
  <2>1. cur[r] \in Streams /\ EventsIn(newItems[r]) \in Seq(Item)
    BY EventsInType DEF IInv, StateTypeOK
  <2>2. ASSUME NEW a \in AggIds
        PROVE  SourceOnto(aggregates[cur[r]][a], EventsIn(newItems[r]), a) \in Seq(Item)
    <3>1. PICK evs : evs = EventsIn(newItems[r])
      OBVIOUS
    <3>2. SourceOnto(aggregates[cur[r]][a], evs, a) \in Seq(Item)
      BY <2>1, <3>1, SourceOntoType DEF AggregatesTypeOK
    <3>3. QED
      BY <3>1, <3>2
  <2>3. AggregatesAfter(cur[r], newItems[r]) \in [AggIds -> Seq(Item)]
    BY <2>1, <2>2 DEF AggregatesAfter, AggregatesTypeOK
  <2>4. aggregates' = [aggregates EXCEPT ![cur[r]] = AggregatesAfter(cur[r], newItems[r])]
    BY <1>2 DEF CommitStream
  <2>5. QED
    BY <2>3, <2>4 DEF AggregatesTypeOK
<1>3. ASSUME UNCHANGED aggregates
      PROVE  AggregatesTypeOK'
  BY <1>3 DEF AggregatesTypeOK
<1>4. ASSUME NEW r \in Threads, Step(r)
      PROVE  AggregatesTypeOK'
  <2>1. CASE CommitStream(r) BY <1>2, <2>1
  <2>2. CASE FoundABug(r) \/ InvalidateCache(r)
    BY <1>1, <2>2 DEF FoundABug, Restart, InvalidateCache
  <2>3. CASE GrabWriteLock(r) \/ ListStreams(r) \/ FindStartIndex(r) \/ RetrieveItems(r)
             \/ NothingNew(r) \/ Return(r) \/ RestoreBackup(r)
    BY <1>3, <2>3 DEF GrabWriteLock, ListStreams, FindStartIndex, RetrieveItems, NothingNew,
       Throw, Return, RestoreBackup, cacheVars
  <2>4. QED
    BY <1>4, <2>1, <2>2, <2>3 DEF Step
<1>5. QED
  BY <1>1, <1>3, <1>4 DEF Next, RpcError, Throw, CallWithCache, Crash, Restart, Publish,
     Reorganise, vars, cacheVars

LEMMA AggregatesTyped == Safety => []AggregatesTypeOK
<1>1. Init => AggregatesTypeOK
  BY DEF Init, InitCache, NoAggregates, AggregatesTypeOK
<1>2. QED
  BY <1>1, AggregatesStep, Invariance, PTL DEF Safety

(* Every variable keeps its type.                                          *)
THEOREM TypeCorrect == Safety => []TypeOK
<1>1. IInv /\ AggregatesTypeOK => TypeOK
  BY DEF IInv, TypeOK
<1>2. QED
  BY <1>1, AggregatesTyped, Invariance, PTL

(* All items of an answer are there, in order, if none of them is sealed:  *)
(* a rising sequence that leaves out none of the indexes is their list.    *)
LEMMA AnswersInOrder ==
    ASSUME StateTypeOK, NEW s \in Streams, NEW n \in Nat, n <= Len(chain[s]),
           \A k \in 1 .. Len(chain[s]) : chain[s][k].content # "sealed",
           NEW pick \in Answers(s, n)
    PROVE  /\ Len(pick) \in Nat /\ n + Len(pick) <= Len(chain[s])
           /\ \A k \in 1 .. Len(pick) : pick[k] = n + k
           /\ pick = <<>> => n = Len(chain[s])
<1>1. PICK L : L = Len(chain[s])
  OBVIOUS
<1>2. L \in Nat /\ BatchSize \in Nat \ {0}
  BY <1>1, CacheAssumption DEF StateTypeOK
<1>3. PICK last : last = IF n + BatchSize < L THEN n + BatchSize ELSE L
  OBVIOUS
<1>4. last \in Nat /\ n <= last /\ last <= L /\ (n < L => n < last)
  BY <1>1, <1>2, <1>3
<1>5. /\ pick \in UNION {[1 .. m -> n + 1 .. last] : m \in 0 .. BatchSize}
      /\ \A i, j \in DOMAIN pick : i < j => pick[i] < pick[j]
      /\ \A k \in n + 1 .. last : chain[s][k].content = "sealed" \/ \E i \in DOMAIN pick : pick[i] = k
  BY <1>1, <1>3 DEF Answers
<1>6. PICK m \in 0 .. BatchSize : pick \in [1 .. m -> n + 1 .. last]
  BY <1>5
<1>7. m \in Nat /\ Len(pick) = m /\ DOMAIN pick = 1 .. m
  BY <1>2, <1>6
<1>8. \A k \in n + 1 .. last : \E i \in 1 .. m : pick[i] = k
  <2>1. TAKE k \in n + 1 .. last
  <2>2. k \in 1 .. L
    BY <1>2, <1>4
  <2>3. chain[s][k].content # "sealed"
    BY <1>1, <2>2
  <2>4. QED
    BY <1>5, <1>7, <2>3
<1>9. \A k \in 1 .. m : pick[k] = n + k
  <2>1. PICK T : T = {k \in 1 .. m : pick[k] # n + k}
    OBVIOUS
  <2>2. SUFFICES ASSUME T # {} PROVE FALSE
    BY <2>1
  <2>3. T \in SUBSET Nat
    BY <2>1
  <2>4. PICK i \in T : \A k \in T : i <= k
    BY <2>2, <2>3, Least
  <2>5. i \in 1 .. m /\ pick[i] # n + i /\ \A k \in 1 .. m : k < i => pick[k] = n + k
    BY <2>1, <2>4
  <2>6. \A k \in 1 .. m : pick[k] \in n + 1 .. last
    BY <1>6
  <2>7. pick[i] > n + i
    <3>1. CASE i = 1
      BY <2>5, <2>6, <3>1
    <3>2. CASE i # 1
      <4>1. i - 1 \in 1 .. m /\ i - 1 < i
        BY <1>7, <2>5, <3>2
      <4>2. pick[i - 1] = n + (i - 1) /\ pick[i - 1] < pick[i]
        BY <1>5, <1>7, <2>5, <4>1
      <4>3. pick[i] \in Nat
        BY <2>5, <2>6
      <4>4. pick[i] > n + (i - 1) /\ i \in Nat
        BY <2>5, <4>2
      <4>5. QED
        BY <2>5, <4>3, <4>4
    <3>3. QED
      BY <3>1, <3>2
  <2>8. n + i \in n + 1 .. last
    BY <1>4, <2>5, <2>6, <2>7
  <2>9. PICK j \in 1 .. m : pick[j] = n + i
    BY <1>8, <2>8
  <2>10. CASE j < i
    BY <2>5, <2>9, <2>10
  <2>11. CASE j = i
    BY <2>5, <2>9, <2>11
  <2>12. CASE j > i
    <3>1. pick[i] < pick[j]
      BY <1>5, <1>7, <2>5, <2>12
    <3>2. pick[i] \in Nat
      BY <2>5, <2>6
    <3>3. QED
      BY <2>5, <2>7, <2>9, <3>1, <3>2
  <2>13. QED
    BY <2>5, <2>10, <2>11, <2>12
<1>10. n + m <= last
  <2>1. CASE m = 0
    BY <1>4, <2>1
  <2>2. CASE m # 0
    <3>1. m \in 1 .. m
      BY <1>7, <2>2
    <3>2. QED
      BY <1>6, <1>9, <3>1
  <2>3. QED
    BY <2>1, <2>2
<1>11. pick = <<>> => n = L
  <2>1. SUFFICES ASSUME pick = <<>>, n # L PROVE FALSE
    OBVIOUS
  <2>2. m = 0 /\ n + 1 \in n + 1 .. last
    BY <1>1, <1>2, <1>4, <1>7, <2>1
  <2>3. QED
    BY <1>8, <2>2
<1>12. QED
  BY <1>1, <1>4, <1>7, <1>9, <1>10, <1>11

LEMMA PartIs ==
    ASSUME NEW xs \in Seq(Item), NEW m \in Nat, NEW n \in Nat, m <= n, n <= Len(xs)
    PROVE  /\ Part(xs, m, n) \in Seq(Item) /\ Len(Part(xs, m, n)) = n - m
           /\ \A i \in 1 .. n - m : Part(xs, m, n)[i] = xs[m + i]
<1>1. \A i \in m + 1 .. n : xs[i] \in Item
  OBVIOUS
<1>2. /\ SubSeq(xs, m + 1, n) \in Seq(Item)
      /\ Len(SubSeq(xs, m + 1, n)) = IF m + 1 <= n THEN n - (m + 1) + 1 ELSE 0
      /\ \A i \in 1 .. n - (m + 1) + 1 : SubSeq(xs, m + 1, n)[i] = xs[(m + 1) + i - 1]
  BY <1>1, SubSeqProperties
<1>3. PICK part : part = SubSeq(xs, m + 1, n)
  OBVIOUS
<1>4. PICK d : d = n - m
  OBVIOUS
<1>5. n - (m + 1) + 1 = d /\ d \in Nat /\ (~(m + 1 <= n) => d = 0)
  BY <1>4
<1>6. /\ part \in Seq(Item)
      /\ Len(part) = IF m + 1 <= n THEN n - (m + 1) + 1 ELSE 0
      /\ \A i \in 1 .. n - (m + 1) + 1 : part[i] = xs[(m + 1) + i - 1]
  BY <1>2, <1>3, Zenon
<1>7. \A i \in 1 .. d : (m + 1) + i - 1 = m + i
  BY <1>5
<1>8. Len(part) = d /\ \A i \in 1 .. d : part[i] = xs[m + i]
  BY <1>5, <1>6, <1>7
<1>9. part \in Seq(Item) /\ Len(part) = n - m /\ \A i \in 1 .. n - m : part[i] = xs[m + i]
  BY <1>4, <1>6, <1>8
<1>10. Part(xs, m, n) = part
  BY <1>3 DEF Part
<1>11. QED
  BY <1>9, <1>10

LEMMA PartEmpty ==
    ASSUME NEW xs, NEW n \in Nat
    PROVE  Part(xs, n, n) = <<>>
<1>1. n + 1 > n
  OBVIOUS
<1>2. QED
  BY <1>1, SubSeqEmpty DEF Part

(* Appending to a sequence leaves its parts as they are.                   *)
LEMMA PartsStay ==
    ASSUME NEW xs \in Seq(Item), NEW x \in Item, NEW m \in Nat, NEW n \in Nat,
           m <= n, n <= Len(xs)
    PROVE  Part(Append(xs, x), m, n) = Part(xs, m, n)
<1>1. PICK ys : ys = Append(xs, x)
  OBVIOUS
<1>2. Len(xs) \in Nat /\ ys \in Seq(Item) /\ Len(ys) = Len(xs) + 1
      /\ \A i \in 1 .. Len(xs) : ys[i] = xs[i]
  BY <1>1, AppendProperties
<1>3. n <= Len(ys)
  BY <1>2
<1>4. PICK d : d = n - m
  OBVIOUS
<1>5. d \in Nat /\ \A i \in 1 .. d : m + i \in 1 .. Len(xs)
  BY <1>2, <1>4
<1>6. /\ Part(xs, m, n) \in Seq(Item) /\ Len(Part(xs, m, n)) = d
      /\ \A i \in 1 .. d : Part(xs, m, n)[i] = xs[m + i]
  BY <1>4, PartIs
<1>7. /\ Part(ys, m, n) \in Seq(Item) /\ Len(Part(ys, m, n)) = d
      /\ \A i \in 1 .. d : Part(ys, m, n)[i] = ys[m + i]
  BY <1>2, <1>3, <1>4, PartIs
<1>8. \A i \in 1 .. d : Part(ys, m, n)[i] = Part(xs, m, n)[i]
  BY <1>2, <1>5, <1>6, <1>7
<1>9. Part(ys, m, n) = Part(xs, m, n)
  BY <1>6, <1>7, <1>8, SeqEqual
<1>10. QED
  BY <1>1, <1>9

(* A part of a sequence and the items that follow it.                      *)
Follows(ys, xs, n) ==
    n + Len(ys) <= Len(xs) /\ \A i \in 1 .. Len(ys) : ys[i] = xs[n + i]

LEMMA PartsJoin ==
    ASSUME NEW xs \in Seq(Item), NEW ys \in Seq(Item), NEW m \in Nat, NEW n \in Nat, m <= n,
           Follows(ys, xs, n)
    PROVE  Part(xs, m, n) \o ys = Part(xs, m, n + Len(ys))
<1>1. PICK as, bs, d, e, k, o : /\ as = Part(xs, m, n) /\ k = Len(ys) /\ o = n + k
                                /\ bs = Part(xs, m, o) /\ d = n - m /\ e = o - m
  OBVIOUS
<1>2. d \in Nat /\ e \in Nat /\ k \in Nat /\ o \in Nat /\ e = d + k /\ m + d = n /\ n <= o
  BY <1>1
<1>3. n <= Len(xs) /\ m <= o /\ o <= Len(xs)
  <2>1. o <= Len(xs)
    BY <1>1 DEF Follows
  <2>2. Len(xs) \in Nat
    OBVIOUS
  <2>3. QED
    BY <1>2, <2>1, <2>2
<1>4. as \in Seq(Item) /\ Len(as) = d /\ \A i \in 1 .. d : as[i] = xs[m + i]
  BY <1>1, <1>3, PartIs
<1>5. bs \in Seq(Item) /\ Len(bs) = e /\ \A i \in 1 .. e : bs[i] = xs[m + i]
  <2>1. o \in Nat /\ m <= o /\ o <= Len(xs) /\ bs = Part(xs, m, o) /\ e = o - m
    BY <1>1, <1>2, <1>3
  <2>2. QED
    BY <2>1, PartIs
<1>6. Len(ys) = k /\ \A i \in 1 .. k : ys[i] = xs[n + i]
  BY <1>1 DEF Follows
<1>7. /\ as \o ys \in Seq(Item) /\ Len(as \o ys) = e
      /\ \A i \in 1 .. e : (as \o ys)[i] = IF i <= d THEN as[i] ELSE ys[i - d]
  <2>1. /\ as \o ys \in Seq(Item) /\ Len(as \o ys) = Len(as) + Len(ys)
        /\ \A i \in 1 .. Len(as) + Len(ys) :
                (as \o ys)[i] = IF i <= Len(as) THEN as[i] ELSE ys[i - Len(as)]
    BY <1>4, ConcatProperties
  <2>2. Len(as) + Len(ys) = e
    BY <1>2, <1>4, <1>6
  <2>3. QED
    BY <1>4, <2>1, <2>2
<1>8. ASSUME NEW i \in 1 .. e
      PROVE  (as \o ys)[i] = bs[i]
  <2>1. CASE i <= d
    <3>1. i \in 1 .. d
      BY <1>2, <2>1
    <3>2. QED
      BY <1>4, <1>5, <1>7, <2>1, <3>1
  <2>2. CASE ~(i <= d)
    <3>1. i - d \in 1 .. k /\ n + (i - d) = m + i
      BY <1>2, <2>2
    <3>2. ys[i - d] = xs[m + i]
      BY <1>6, <3>1
    <3>3. QED
      BY <1>5, <1>7, <2>2, <3>2
  <2>3. QED
    BY <2>1, <2>2
<1>9. as \o ys = bs
  BY <1>5, <1>7, <1>8, SeqEqual
<1>10. QED
  BY <1>1, <1>9

LEMMA QuietBefore ==
    ASSUME StateTypeOK, Quiet', UNCHANGED <<reorgs, seen>>, NEW r \in Threads,
           pc[r] # "wait" \/ r \notin Restorers, \A q \in Threads \ {r} : pc'[q] = pc[q]
    PROVE  Quiet
BY DEF Quiet, Legible, Threads

LEMMA PrefixStays ==
    ASSUME UNCHANGED chain, UNCHANGED cacheVars, NEW s \in Streams, ShowsPrefix(s)
    PROVE  ShowsPrefix(s)' /\ Position(s)' = Position(s)
BY DEF ShowsPrefix, Shown, Position, HasCursor, cacheVars

LEMMA ThreadStays ==
    ASSUME UNCHANGED chain, UNCHANGED cacheVars, NEW q \in Threads,
           pc'[q] = pc[q], listing'[q] = listing[q], todo'[q] = todo[q], cur'[q] = cur[q],
           isRebuild'[q] = isRebuild[q], first'[q] = first[q], newItems'[q] = newItems[q],
           Refreshes(q), Fetches(q)
    PROVE  Refreshes(q)' /\ Fetches(q)'
BY DEF Refreshes, Outstanding, Fetches, Position, HasCursor, cacheVars

LEMMA Idle ==
    ASSUME NEW q \in Threads, pc'[q] \notin {"scan", "fetch"}
    PROVE  Refreshes(q)' /\ Fetches(q)'
BY DEF Refreshes, Fetches

LEMMA NothingSourced ==
    ASSUME NEW s
    PROVE  AggregatesOf(s, <<>>) = [a \in AggIds |-> <<>>] /\ EventsOf(s, <<>>) = <<>>
<1>1. <<>> \in Seq(Item)
  OBVIOUS
<1>2. \A a : Sourced(<<>>, a) = <<>>
  BY <1>1, SourceOntoNothing DEF Sourced
<1>3. QED
  BY <1>2, EventsInNothing DEF AggregatesOf, EventsOf

(* A cache that has been cleared shows an empty prefix of each stream.     *)
LEMMA ClearedShows ==
    ASSUME StateTypeOK', ClearCache, \A q \in Threads : pc'[q] \notin {"scan", "fetch"}
    PROVE  CacheInv'
<1>1. ASSUME NEW s \in Streams
      PROVE  ShowsPrefix(s)'
  <2>1. ~HasCursor(s)' /\ Position(s)' = 0 /\ eventsByStream'[s] = <<>>
    BY DEF ClearCache, NoCursors, NoEvents, HasCursor, Position
  <2>2. aggregates'[s] = [a \in AggIds |-> <<>>]
    BY DEF ClearCache, NoAggregates
  <2>3. Shown(s)' = <<>>
    BY <2>1, PartEmpty DEF Shown
  <2>4. AggregatesOf(s, <<>>) = [a \in AggIds |-> <<>>] /\ EventsOf(s, <<>>) = <<>>
    BY NothingSourced
  <2>5. Len(chain'[s]) \in Nat
    BY DEF StateTypeOK
  <2>6. QED
    BY <2>1, <2>2, <2>3, <2>4, <2>5 DEF ShowsPrefix
<1>2. QED
  BY <1>1, Idle DEF CacheInv

LEMMA ListStreamsShows ==
    ASSUME IInv, CacheInv, NEW r \in Threads, ListStreams(r)
    PROVE  CacheInv'
<1> SUFFICES ASSUME Quiet'
             PROVE  /\ \A s \in Streams : ShowsPrefix(s)'
                    /\ \A q \in Threads : Refreshes(q)' /\ Fetches(q)'
  BY DEF CacheInv
<1> DEFINE behind == {s \in Streams : NeedsUpdate(s)}
<1>1. /\ StateTypeOK /\ pc[r] = "list"
      /\ listing' = [listing EXCEPT ![r] = [s \in Streams |-> Len(chain[s])]]
      /\ Continue(r, behind)
      /\ UNCHANGED chain /\ UNCHANGED cacheVars
      /\ UNCHANGED <<reorgs, seen>> /\ UNCHANGED localVars
  BY DEF IInv, ListStreams, chainVars
<1>2. /\ todo' = [todo EXCEPT ![r] = behind]
      /\ \A q \in Threads \ {r} : pc'[q] = pc[q]
      /\ pc'[r] # "fetch"
  BY <1>1 DEF Continue, Goto, StateTypeOK
<1> HIDE DEF behind
<1>3. Quiet
  BY <1>1, <1>2, QuietBefore
<1>4. \A s \in Streams : ShowsPrefix(s) /\ ShowsPrefix(s)' /\ Position(s)' = Position(s)
  BY <1>1, <1>3, PrefixStays DEF CacheInv
<1>5. ASSUME NEW q \in Threads \ {r}
      PROVE  Refreshes(q)' /\ Fetches(q)'
  <2>1. listing'[q] = listing[q] /\ todo'[q] = todo[q] /\ pc'[q] = pc[q]
    BY <1>1, <1>2 DEF StateTypeOK
  <2>2. Refreshes(q) /\ Fetches(q)
    BY <1>3 DEF CacheInv
  <2>3. QED
    BY <1>1, <2>1, <2>2, ThreadStays DEF localVars
<1>6. Fetches(r)'
  BY <1>2 DEF Fetches
<1>7. Refreshes(r)'
  <2>1. SUFFICES ASSUME NEW s \in Streams
                 PROVE  /\ listing'[r][s] <= Len(chain'[s])
                        /\ IF s \in todo'[r] THEN Position(s)' < listing'[r][s]
                                             ELSE listing'[r][s] <= Position(s)'
    BY DEF Refreshes, Outstanding
  <2>2. Len(chain[s]) \in Nat /\ Position(s) \in Nat
    BY <1>1 DEF StateTypeOK, Position, HasCursor, Cursor
  <2>3. listing'[r][s] = Len(chain[s]) /\ chain'[s] = chain[s] /\ todo'[r] = behind
    BY <1>1, <1>2 DEF StateTypeOK
  <2>4. Position(s) <= Len(chain[s]) /\ Position(s)' = Position(s)
    BY <1>4 DEF ShowsPrefix
  <2>5. s \in behind <=> Len(chain[s]) # 0 /\ Len(chain[s]) # Position(s)
    BY DEF behind, NeedsUpdate
  <2>6. QED
    BY <2>2, <2>3, <2>4, <2>5
<1>8. QED
  BY <1>4, <1>5, <1>6, <1>7

LEMMA FindStartIndexShows ==
    ASSUME IInv, OddInv, CacheInv, NEW r \in Threads, FindStartIndex(r)
    PROVE  CacheInv'
<1> SUFFICES ASSUME Quiet'
             PROVE  /\ \A s \in Streams : ShowsPrefix(s)'
                    /\ \A q \in Threads : Refreshes(q)' /\ Fetches(q)'
  BY DEF CacheInv
<1>1. /\ StateTypeOK /\ pc[r] = "scan" /\ pc' = [pc EXCEPT ![r] = "fetch"]
      /\ newItems' = [newItems EXCEPT ![r] = <<>>]
      /\ UNCHANGED chain /\ UNCHANGED cacheVars
      /\ UNCHANGED <<reorgs, seen>> /\ UNCHANGED <<listing, todo>>
  BY DEF IInv, FindStartIndex, chainVars, Goto
<1>2. PICK s \in todo[r] : \E start \in StartIndexes(s) :
        /\ cur' = [cur EXCEPT ![r] = s]
        /\ first' = [first EXCEPT ![r] = start]
        /\ isRebuild' = [isRebuild EXCEPT
                            ![r] = ~HasCursor(s) \/ start # streamState[s].index + 1]
  BY DEF FindStartIndex
<1>3. PICK start \in StartIndexes(s) :
        /\ cur' = [cur EXCEPT ![r] = s]
        /\ first' = [first EXCEPT ![r] = start]
        /\ isRebuild' = [isRebuild EXCEPT
                            ![r] = ~HasCursor(s) \/ start # streamState[s].index + 1]
  BY <1>2
<1>4. s \in Streams /\ \A q \in Threads \ {r} : pc'[q] = pc[q]
  BY <1>1 DEF StateTypeOK
<1>5. Quiet
  BY <1>1, <1>4, QuietBefore
<1>6. \A t \in Streams : ShowsPrefix(t) /\ ShowsPrefix(t)' /\ Position(t)' = Position(t)
  BY <1>1, <1>5, PrefixStays DEF CacheInv
<1>7. ASSUME NEW q \in Threads \ {r}
      PROVE  Refreshes(q)' /\ Fetches(q)'
  <2>1. /\ cur'[q] = cur[q] /\ first'[q] = first[q] /\ isRebuild'[q] = isRebuild[q]
        /\ newItems'[q] = newItems[q] /\ pc'[q] = pc[q]
    BY <1>1, <1>3 DEF StateTypeOK
  <2>2. Refreshes(q) /\ Fetches(q)
    BY <1>5 DEF CacheInv
  <2>3. QED
    BY <1>1, <2>1, <2>2, ThreadStays
<1>8. Refreshes(r)'
  <2>1. Refreshes(r)
    BY <1>5 DEF CacheInv
  <2>2. QED
    BY <1>1, <1>6, <2>1 DEF Refreshes, Outstanding
<1>9. Position(s) \in Nat /\ Len(chain[s]) \in Nat /\ Position(s) <= Len(chain[s])
  <2>1. ShowsPrefix(s)
    BY <1>4, <1>6
  <2>2. QED
    BY <1>1, <1>4, <2>1 DEF ShowsPrefix, StateTypeOK, Position, HasCursor, Cursor
<1>10. start = Position(s) /\ (HasCursor(s) => start = streamState[s].index + 1)
  <2>1. CASE ~HasCursor(s)
    BY <1>3, <2>1 DEF StartIndexes, Position
  <2>2. CASE HasCursor(s)
    <3>1. Position(s) = streamState[s].index + 1 /\ streamState[s].index \in Nat
      BY <1>1, <1>4, <2>2 DEF Position, StateTypeOK, HasCursor, Cursor
    <3>2. Position(s) \in 1 .. Len(chain[s])
      BY <1>9, <3>1
    <3>3. /\ chain[s][Position(s)].content # "sealed"
          /\ Readings(chain[s][Position(s)]) # {}
      BY <1>4, <1>5, <3>2, LegibleChain DEF Quiet, Readings
    <3>4. chain[s][Position(s)].txid = streamState[s].txid
      BY <1>4, <1>6, <2>2 DEF ShowsPrefix
    <3>5. Position(s) <= Len(chain[s])
      BY <1>9
    <3>6. StartIndexes(s) = {Position(s)}
      BY <2>2, <3>1, <3>3, <3>4, <3>5 DEF StartIndexes
    <3>7. QED
      BY <3>1, <3>6
  <2>3. QED
    BY <2>1, <2>2
<1>11. Fetches(r)'
  <2>1. /\ cur'[r] = s /\ first'[r] = start /\ newItems'[r] = <<>> /\ todo'[r] = todo[r]
        /\ chain' = chain
    BY <1>1, <1>3 DEF StateTypeOK
  <2>2. ASSUME HasCursor(s)
        PROVE  ~isRebuild'[r]
    <3>1. isRebuild' = [isRebuild EXCEPT ![r] = FALSE]
      BY <1>3, <1>10, <2>2
    <3>2. QED
      BY <1>1, <3>1 DEF StateTypeOK
  <2>3. isRebuild'[r] => ~HasCursor(s)
    BY <2>2
  <2>4. HasCursor(s)' = HasCursor(s) /\ Position(s)' = Position(s)
    BY <1>1 DEF cacheVars, HasCursor, Position
  <2>5. Part(chain[s], Position(s), start) = <<>>
    BY <1>9, <1>10, PartEmpty
  <2>6. start \in Position(s) .. Len(chain[s])
    BY <1>9, <1>10
  <2>7. /\ cur'[r] \in todo'[r]
        /\ isRebuild'[r] => ~HasCursor(cur[r])'
        /\ first'[r] \in Position(cur[r])' .. Len(chain'[cur'[r]])
        /\ newItems'[r] = Part(chain'[cur'[r]], Position(cur[r])', first'[r])
    BY <2>1, <2>3, <2>4, <2>5, <2>6 DEF HasCursor, Position
  <2>8. QED
    BY <2>7 DEF Fetches
<1>12. QED
  BY <1>6, <1>7, <1>8, <1>11

LEMMA RetrieveItemsShows ==
    ASSUME IInv, OddInv, CacheInv, NEW r \in Threads, RetrieveItems(r)
    PROVE  CacheInv'
<1> SUFFICES ASSUME Quiet'
             PROVE  /\ \A s \in Streams : ShowsPrefix(s)'
                    /\ \A q \in Threads : Refreshes(q)' /\ Fetches(q)'
  BY DEF CacheInv
<1>1. /\ StateTypeOK /\ pc[r] = "fetch"
      /\ UNCHANGED chain /\ UNCHANGED cacheVars
      /\ UNCHANGED <<reorgs, seen>> /\ UNCHANGED <<pc, listing, todo, cur, isRebuild>>
  BY DEF IInv, RetrieveItems, chainVars
<1>0. PICK pick \in Answers(cur[r], first[r]) : \E batch \in Batches(cur[r], pick) :
        /\ first' = [first EXCEPT ![r] = @ + Len(batch)]
        /\ newItems' = [newItems EXCEPT ![r] = @ \o batch]
  BY DEF RetrieveItems
<1>2. PICK batch \in Batches(cur[r], pick) :
        /\ first' = [first EXCEPT ![r] = @ + Len(batch)]
        /\ newItems' = [newItems EXCEPT ![r] = @ \o batch]
  BY <1>0
<1>3. PICK s, n : s = cur[r] /\ n = first[r]
  OBVIOUS
<1>4. /\ s \in Streams /\ n \in Nat /\ newItems[r] \in Seq(Item) /\ chain[s] \in Seq(Item)
      /\ pick \in Answers(s, n) /\ batch \in Batches(s, pick)
  BY <1>1, <1>2, <1>3 DEF StateTypeOK
<1>5. Quiet
  BY <1>1, QuietBefore
<1>6. \A t \in Streams : ShowsPrefix(t) /\ ShowsPrefix(t)' /\ Position(t)' = Position(t)
  BY <1>1, <1>5, PrefixStays DEF CacheInv
<1>7. \A q \in Threads : Refreshes(q) /\ Fetches(q)
  BY <1>5 DEF CacheInv
<1>8. /\ n \in Position(s) .. Len(chain[s]) /\ newItems[r] = Part(chain[s], Position(s), n)
      /\ s \in todo[r] /\ (isRebuild[r] => ~HasCursor(s))
  BY <1>1, <1>3, <1>7 DEF Fetches
<1>9. Position(s) \in Nat /\ Len(chain[s]) \in Nat /\ n <= Len(chain[s])
  BY <1>1, <1>4, <1>8 DEF StateTypeOK, Position, HasCursor, Cursor
<1>10. \A k \in 1 .. Len(chain[s]) : ~chain[s][k].large /\ chain[s][k].content # "sealed"
  BY <1>4, <1>5, LegibleChain DEF Quiet
<1>11. /\ Len(pick) \in Nat /\ n + Len(pick) <= Len(chain[s])
       /\ \A k \in 1 .. Len(pick) : pick[k] = n + k
  BY <1>1, <1>4, <1>9, <1>10, AnswersInOrder
<1>12. /\ batch \in Seq(Item) /\ Len(batch) = Len(pick)
       /\ \A k \in 1 .. Len(pick) : /\ pick[k] \in 1 .. Len(chain[s])
                                    /\ batch[k] \in Readings(chain[s][pick[k]])
  BY <1>1, <1>4, AnswerType
<1>13. \A k \in 1 .. Len(pick) : batch[k] = chain[s][n + k]
  <2>1. TAKE k \in 1 .. Len(pick)
  <2>2. pick[k] = n + k /\ pick[k] \in 1 .. Len(chain[s]) /\ batch[k] \in Readings(chain[s][n + k])
    BY <1>11, <1>12
  <2>3. ~chain[s][n + k].large /\ chain[s][n + k].content # "sealed"
    BY <1>10, <2>2
  <2>4. QED
    BY <2>2, <2>3 DEF Readings
<1>14. newItems[r] \o batch = Part(chain[s], Position(s), n + Len(pick))
  <2>1. PICK xs, p, o : xs = chain[s] /\ p = Position(s) /\ o = n + Len(pick)
    OBVIOUS
  <2>2. xs \in Seq(Item) /\ p \in Nat /\ n \in Nat /\ p <= n /\ batch \in Seq(Item)
    BY <1>4, <1>8, <1>9, <1>12, <2>1
  <2>3. Follows(batch, xs, n) /\ n + Len(batch) = o
    BY <1>11, <1>12, <1>13, <2>1 DEF Follows
  <2>4. Part(xs, p, n) \o batch = Part(xs, p, n + Len(batch))
    BY <2>2, <2>3, PartsJoin
  <2>5. QED
    BY <1>8, <2>1, <2>3, <2>4
<1>15. /\ first' = [first EXCEPT ![r] = n + Len(pick)]
       /\ newItems' = [newItems EXCEPT ![r] = newItems[r] \o batch]
  BY <1>1, <1>2, <1>3, <1>12 DEF StateTypeOK
<1>16. ASSUME NEW q \in Threads \ {r}
       PROVE  Refreshes(q)' /\ Fetches(q)'
  <2>1. first'[q] = first[q] /\ newItems'[q] = newItems[q]
    BY <1>1, <1>15 DEF StateTypeOK
  <2>2. QED
    BY <1>1, <1>7, <2>1, ThreadStays
<1>17. Refreshes(r)'
  BY <1>1, <1>6, <1>7 DEF Refreshes, Outstanding
<1>18. Fetches(r)'
  <2>1. first'[r] = n + Len(pick) /\ newItems'[r] = newItems[r] \o batch
    BY <1>1, <1>15 DEF StateTypeOK
  <2>2. cur'[r] = s /\ chain' = chain /\ todo' = todo /\ isRebuild' = isRebuild
    BY <1>1, <1>3
  <2>3. Position(s)' = Position(s) /\ HasCursor(s)' = HasCursor(s)
    BY <1>1 DEF cacheVars, HasCursor, Position
  <2>4. n + Len(pick) \in Position(s) .. Len(chain[s])
    BY <1>8, <1>9, <1>11
  <2>5. /\ cur'[r] \in todo'[r]
        /\ isRebuild'[r] => ~HasCursor(cur[r])'
        /\ first'[r] \in Position(cur[r])' .. Len(chain'[cur'[r]])
        /\ newItems'[r] = Part(chain'[cur'[r]], Position(cur[r])', first'[r])
    BY <1>8, <1>14, <2>1, <2>2, <2>3, <2>4 DEF HasCursor, Position
  <2>6. QED
    BY <2>5 DEF Fetches
<1>19. QED
  BY <1>6, <1>16, <1>17, <1>18

(* At the end of a stream all of it has been read.                         *)
LEMMA AllIsRead ==
    ASSUME StateTypeOK, OddInv, CacheInv, Quiet, NEW r \in Threads, EndOfStream(r)
    PROVE  /\ cur[r] \in Streams /\ Position(cur[r]) \in Nat /\ first[r] \in Nat
           /\ first[r] = Len(chain[cur[r]]) /\ Position(cur[r]) < first[r]
           /\ newItems[r] = Part(chain[cur[r]], Position(cur[r]), first[r])
           /\ Len(newItems[r]) = first[r] - Position(cur[r])
           /\ isRebuild[r] => ~HasCursor(cur[r])
<1>1. PICK s, n : s = cur[r] /\ n = first[r]
  OBVIOUS
<1>2. /\ s \in Streams /\ n \in Nat /\ chain[s] \in Seq(Item) /\ Len(chain[s]) \in Nat
      /\ Position(s) \in Nat /\ listing[r][s] \in Nat
  BY <1>1 DEF StateTypeOK, Position, HasCursor, Cursor
<1>3. pc[r] = "fetch" /\ <<>> \in Answers(s, n)
  BY <1>1 DEF EndOfStream
<1>4. Refreshes(r) /\ Fetches(r)
  BY DEF CacheInv
<1>5. /\ s \in todo[r] /\ n \in Position(s) .. Len(chain[s])
      /\ newItems[r] = Part(chain[s], Position(s), n)
      /\ isRebuild[r] => ~HasCursor(s)
  BY <1>1, <1>3, <1>4 DEF Fetches
<1>6. listing[r][s] <= Len(chain[s]) /\ Position(s) < listing[r][s]
  BY <1>2, <1>3, <1>4, <1>5 DEF Refreshes, Outstanding
<1>7. \A k \in 1 .. Len(chain[s]) : chain[s][k].content # "sealed"
  BY <1>2, LegibleChain DEF Quiet
<1>8. n <= Len(chain[s]) /\ Position(s) <= n
  BY <1>5
<1>9. n = Len(chain[s])
  BY <1>2, <1>3, <1>7, <1>8, AnswersInOrder
<1>10. Len(Part(chain[s], Position(s), n)) = n - Position(s)
  BY <1>2, <1>8, PartIs
<1>11. QED
  BY <1>1, <1>2, <1>5, <1>6, <1>9, <1>10

LEMMA CommitStreamShows ==
    ASSUME IInv, AggregatesTypeOK, OddInv, CacheInv, NEW r \in Threads, CommitStream(r),
           NEW s, s = cur[r]
    PROVE  /\ CacheInv'
           /\ Quiet' => Position(s) < Position(s)' /\ Outstanding(r)'
<1> SUFFICES ASSUME Quiet'
             PROVE  /\ \A t \in Streams : ShowsPrefix(t)'
                    /\ \A q \in Threads : Refreshes(q)' /\ Fetches(q)'
                    /\ Position(s) < Position(s)' /\ Outstanding(r)'
  BY DEF CacheInv
<1>1. PICK n, items : s = cur[r] /\ n = first[r] /\ items = newItems[r]
  OBVIOUS
<1>2. /\ StateTypeOK /\ RefreshMutex /\ EndOfStream(r) /\ pc[r] = "fetch"
      /\ streamState' = [streamState EXCEPT ![s] = CursorAfter(n, items)]
      /\ eventsByStream' = [eventsByStream EXCEPT ![s] = EventsAfter(s, isRebuild[r], items)]
      /\ aggregates' = [aggregates EXCEPT ![s] = AggregatesAfter(s, items)]
      /\ Continue(r, todo[r] \ {s})
      /\ UNCHANGED chain /\ UNCHANGED <<reorgs, seen>> /\ UNCHANGED listing
  BY <1>1 DEF IInv, CommitStream, EndOfStream, chainVars
<1>3. /\ todo' = [todo EXCEPT ![r] = todo[r] \ {s}]
      /\ \A q \in Threads \ {r} : pc'[q] = pc[q] /\ pc[q] \notin Updating
      /\ pc'[r] # "fetch"
  BY <1>2 DEF Continue, Goto, StateTypeOK, RefreshMutex, Updating
<1>4. Quiet
  BY <1>2, <1>3, QuietBefore
<1>5. /\ s \in Streams /\ Position(s) \in Nat /\ n \in Nat
      /\ n = Len(chain[s]) /\ Position(s) < n
      /\ items = Part(chain[s], Position(s), n) /\ Len(items) = n - Position(s)
      /\ isRebuild[r] => ~HasCursor(s)
  BY <1>1, <1>2, <1>4, AllIsRead
<1>6. chain[s] \in Seq(Item) /\ items \in Seq(Item) /\ isRebuild[r] \in BOOLEAN
  BY <1>1, <1>2, <1>5 DEF StateTypeOK
<1>7. \A t \in Streams : ShowsPrefix(t)
  BY <1>4 DEF CacheInv
<1>8. PICK xs, p, k : xs = chain[s] /\ p = Position(s) /\ k = n - p
  OBVIOUS
<1>9. /\ xs \in Seq(Item) /\ p \in Nat /\ k \in Nat /\ p + k = n /\ p <= n /\ n = Len(xs)
      /\ k # 0 /\ Len(items) = k /\ items = Part(xs, p, n) /\ p <= Len(xs)
  <2>1. /\ p \in Nat /\ n \in Nat /\ p < n /\ n = Len(xs)
        /\ items = Part(xs, p, n) /\ Len(items) = n - p
    BY <1>5, <1>8
  <2>2. k \in Nat /\ p + k = n /\ k # 0 /\ p <= n
    <3>1. p \in Nat /\ n \in Nat /\ p < n /\ k = n - p
      BY <1>8, <2>1
    <3>2. QED
      BY <3>1
  <2>3. QED
    BY <1>6, <1>8, <2>1, <2>2
<1>10. \A i \in 1 .. k : items[i] = xs[p + i]
  <2>1. xs \in Seq(Item) /\ p \in Nat /\ n \in Nat /\ p <= n /\ n <= Len(xs) /\ k = n - p
    BY <1>5, <1>8, <1>9
  <2>2. \A i \in 1 .. n - p : Part(xs, p, n)[i] = xs[p + i]
    BY <2>1, PartIs
  <2>3. QED
    BY <1>8, <1>9, <2>2
<1>11. items[Len(items)] = xs[n] /\ items[Len(items)] \in Item /\ n # 0
  <2>1. k \in 1 .. k /\ n \in 1 .. Len(xs)
    BY <1>5, <1>9
  <2>2. QED
    BY <1>9, <1>10, <2>1
<1>12. Position(s)' = n /\ HasCursor(s)' /\ streamState'[s].txid = xs[n].txid
  <2>1. streamState'[s] = [index |-> n - 1, txid |-> xs[n].txid]
    BY <1>2, <1>5, <1>11 DEF StateTypeOK, CursorAfter
  <2>2. xs[n].txid # 0
    BY <1>11 DEF Item
  <2>3. streamState'[s] # NoCursor
    BY <2>1, <2>2 DEF NoCursor
  <2>4. streamState'[s].index + 1 = n
    BY <1>5, <2>1
  <2>5. QED
    BY <2>1, <2>3, <2>4 DEF HasCursor, Position
<1>13. \A t \in Streams \ {s} : ShowsPrefix(t)' /\ Position(t)' = Position(t)
  BY <1>2, <1>7 DEF ShowsPrefix, Shown, Position, HasCursor, StateTypeOK, AggregatesTypeOK
<1>14. Shown(s) \o items = Part(xs, 0, n) /\ Shown(s) \in Seq(Item)
  <2>1. PICK z : z = 0
    OBVIOUS
  <2>2. z \in Nat /\ z <= p /\ p <= Len(xs) /\ xs \in Seq(Item) /\ p \in Nat /\ items \in Seq(Item)
    BY <1>6, <1>9, <2>1
  <2>3. Follows(items, xs, p) /\ p + Len(items) = n
    <3>1. Len(items) = k /\ p + k = n /\ n <= Len(xs)
      BY <1>5, <1>9
    <3>2. QED
      BY <1>10, <3>1 DEF Follows
  <2>4. Part(xs, z, p) \o items = Part(xs, z, p + Len(items))
    BY <2>2, <2>3, PartsJoin
  <2>5. Part(xs, z, p) \in Seq(Item)
    BY <2>2, PartIs
  <2>6. QED
    BY <1>8, <2>1, <2>3, <2>4, <2>5 DEF Shown
<1>15. ShowsPrefix(s)'
  <2>0. PICK shown, before, evs :
            /\ shown = Shown(s) /\ before = EventsIn(shown) /\ evs = EventsIn(items)
    OBVIOUS
  <2>1. Shown(s)' = Shown(s) \o items
    BY <1>2, <1>8, <1>12, <1>14 DEF Shown
  <2>7. /\ shown \in Seq(Item) /\ before \in Seq(Item) /\ evs \in Seq(Item)
        /\ EventsIn(shown \o items) = before \o evs
    <3>1. shown \in Seq(Item) /\ items \in Seq(Item)
      BY <1>6, <1>14, <2>0
    <3>2. EventsIn(shown \o items) = EventsIn(shown) \o EventsIn(items)
      BY <3>1, ParsingInBatches
    <3>3. QED
      BY <2>0, <3>1, <3>2, EventsInType
  <2>2. eventsByStream'[s] = EventsOf(s, Shown(s) \o items)
    <3>1. eventsByStream'[s] = EventsAfter(s, isRebuild[r], items)
      BY <1>2, <1>5 DEF StateTypeOK
    <3>2. eventsByStream[s] = EventsOf(s, Shown(s))
      BY <1>5, <1>7 DEF ShowsPrefix
    <3>3. CASE s \notin KeptStreams
      BY <3>1, <3>2, <3>3 DEF EventsOf, EventsAfter
    <3>4. CASE s \in KeptStreams /\ ~isRebuild[r]
      BY <2>0, <2>7, <3>1, <3>2, <3>4 DEF EventsOf, EventsAfter
    <3>5. CASE s \in KeptStreams /\ isRebuild[r]
      <4>1. Position(s) = 0
        BY <1>5, <3>5 DEF Position
      <4>2. Shown(s) = <<>>
        BY <4>1, PartEmpty DEF Shown
      <4>3. before = <<>>
        BY <2>0, <4>2, EventsInNothing
      <4>4. QED
        BY <2>0, <2>7, <3>1, <3>5, <4>3 DEF EventsOf, EventsAfter
    <3>6. QED
      BY <3>3, <3>4, <3>5
  <2>3. aggregates'[s] = AggregatesOf(s, Shown(s) \o items)
    <3>1. aggregates'[s] = AggregatesAfter(s, items)
      BY <1>2, <1>5 DEF AggregatesTypeOK
    <3>2. aggregates[s] = AggregatesOf(s, Shown(s))
      BY <1>5, <1>7 DEF ShowsPrefix
    <3>3. CASE s \in KeptStreams
      BY <3>1, <3>2, <3>3 DEF AggregatesAfter, AggregatesOf
    <3>4. CASE s \notin KeptStreams
      <4>1. AggregatesAfter(s, items) = [a \in AggIds |-> SourceOnto(Sourced(before, a), evs, a)]
        BY <2>0, <3>2, <3>4 DEF AggregatesAfter, AggregatesOf
      <4>2. AggregatesOf(s, Shown(s) \o items) = [a \in AggIds |-> Sourced(before \o evs, a)]
        BY <2>0, <2>7, <3>4 DEF AggregatesOf
      <4>3. PICK none : none = <<>>
        OBVIOUS
      <4>4. none \in Seq(Item)
        BY <4>3
      <4>5. \A a : SourceOnto(SourceOnto(none, before, a), evs, a) = SourceOnto(none, before \o evs, a)
        BY <2>7, <4>4, SourcingInBatches
      <4>6. \A a : SourceOnto(Sourced(before, a), evs, a) = Sourced(before \o evs, a)
        BY <4>3, <4>5 DEF Sourced
      <4>7. QED
        BY <3>1, <4>1, <4>2, <4>6
    <3>5. QED
      BY <3>3, <3>4
  <2>4. Position(s)' <= Len(chain'[s])
    BY <1>2, <1>5, <1>12
  <2>5. streamState'[s].txid = chain'[s][Position(s)'].txid
    BY <1>2, <1>8, <1>12
  <2>6. QED
    BY <2>1, <2>2, <2>3, <2>4, <2>5 DEF ShowsPrefix
<1>16. ASSUME NEW q \in Threads \ {r}
       PROVE  Refreshes(q)' /\ Fetches(q)'
  <2>1. pc'[q] \notin {"scan", "fetch"}
    BY <1>3 DEF Updating
  <2>2. QED
    BY <2>1, Idle
<1>17. Fetches(r)'
  BY <1>3 DEF Fetches
<1>18. Outstanding(r)'
  <2>1. Outstanding(r)
    BY <1>2, <1>4 DEF CacheInv, Refreshes
  <2>2. SUFFICES ASSUME NEW t \in Streams
                 PROVE  /\ listing'[r][t] <= Len(chain'[t])
                        /\ IF t \in todo'[r] THEN Position(t)' < listing'[r][t]
                                             ELSE listing'[r][t] <= Position(t)'
    BY DEF Outstanding
  <2>3. todo'[r] = todo[r] \ {s} /\ listing' = listing /\ chain' = chain
    BY <1>2, <1>3 DEF StateTypeOK
  <2>4. /\ listing[r][t] <= Len(chain[t])
        /\ IF t \in todo[r] THEN Position(t) < listing[r][t] ELSE listing[r][t] <= Position(t)
    BY <1>2, <2>1 DEF Outstanding
  <2>5. CASE t = s
    BY <1>5, <1>12, <2>3, <2>4, <2>5
  <2>6. CASE t # s
    BY <1>13, <2>3, <2>4, <2>6
  <2>7. QED
    BY <2>5, <2>6
<1>19. QED
  BY <1>5, <1>12, <1>13, <1>15, <1>16, <1>17, <1>18 DEF Refreshes

(* Steps of a thread that is not, or no longer, in the loop.               *)
LEMMA AsideShows ==
    ASSUME StateTypeOK, CacheInv, UNCHANGED chain, UNCHANGED cacheVars,
           UNCHANGED <<reorgs, seen>>, NEW r \in Threads,
           pc[r] # "wait" \/ r \notin Restorers, pc'[r] \notin {"scan", "fetch"},
           \A q \in Threads \ {r} :
                /\ pc'[q] = pc[q] /\ listing'[q] = listing[q] /\ todo'[q] = todo[q]
                /\ cur'[q] = cur[q] /\ isRebuild'[q] = isRebuild[q]
                /\ first'[q] = first[q] /\ newItems'[q] = newItems[q]
    PROVE  CacheInv'
<1> SUFFICES ASSUME Quiet'
             PROVE  /\ \A s \in Streams : ShowsPrefix(s)'
                    /\ \A q \in Threads : Refreshes(q)' /\ Fetches(q)'
  BY DEF CacheInv
<1>1. Quiet
  BY QuietBefore
<1>2. \A s \in Streams : ShowsPrefix(s)'
  BY <1>1, PrefixStays DEF CacheInv
<1>3. ASSUME NEW q \in Threads \ {r}
      PROVE  Refreshes(q)' /\ Fetches(q)'
  BY <1>1, ThreadStays DEF CacheInv
<1>4. Refreshes(r)' /\ Fetches(r)'
  BY Idle
<1>5. QED
  BY <1>2, <1>3, <1>4

LEMMA GrabWriteLockShows ==
    ASSUME IInv, CacheInv, NEW r \in Threads, GrabWriteLock(r)
    PROVE  CacheInv'
<1>1. r \notin Restorers /\ pc' = [pc EXCEPT ![r] = "list"] /\ StateTypeOK
  BY CacheAssumption DEF GrabWriteLock, Goto, IInv
<1>2. QED
  BY <1>1, AsideShows DEF GrabWriteLock, StateTypeOK, chainVars, localVars

LEMMA ThrowShows ==
    ASSUME IInv, CacheInv, NEW r \in Threads, pc[r] \in Updating, Throw(r)
    PROVE  CacheInv'
<1>1. pc' = [pc EXCEPT ![r] = "failed"] /\ StateTypeOK /\ pc[r] # "wait"
  BY DEF Throw, Goto, IInv, Updating
<1>2. \A q \in Threads \ {r} :
                /\ pc'[q] = pc[q] /\ listing'[q] = listing[q] /\ todo'[q] = todo[q]
                /\ cur'[q] = cur[q] /\ isRebuild'[q] = isRebuild[q]
                /\ first'[q] = first[q] /\ newItems'[q] = newItems[q]
  BY <1>1 DEF Throw, EndRound, EndCall, StateTypeOK
<1>3. pc'[r] = "failed"
  BY <1>1 DEF StateTypeOK
<1>4. QED
  BY <1>1, <1>2, <1>3, AsideShows DEF Throw, chainVars

LEMMA CallWithCacheShows ==
    ASSUME IInv, CacheInv, NEW r \in Threads, CallWithCache(r) \/ Return(r)
    PROVE  CacheInv'
<1>1. PICK label \in {"wait", "done"} : pc' = [pc EXCEPT ![r] = label]
  BY DEF CallWithCache, Return, Goto
<1>2. StateTypeOK /\ pc[r] = "run" /\ EndCall(r) /\ UNCHANGED <<chainVars, cacheVars, localVars>>
  BY DEF IInv, CallWithCache, Return
<1>3. \A q \in Threads \ {r} :
                /\ pc'[q] = pc[q] /\ listing'[q] = listing[q] /\ todo'[q] = todo[q]
                /\ cur'[q] = cur[q] /\ isRebuild'[q] = isRebuild[q]
                /\ first'[q] = first[q] /\ newItems'[q] = newItems[q]
  BY <1>1, <1>2 DEF EndCall, StateTypeOK, localVars
<1>4. pc'[r] \notin {"scan", "fetch"}
  BY <1>1, <1>2 DEF StateTypeOK
<1>5. QED
  BY <1>2, <1>3, <1>4, AsideShows DEF chainVars

LEMMA InvalidateCacheShows ==
    ASSUME IInv, IInv', NEW r \in Threads, InvalidateCache(r)
    PROVE  CacheInv'
<1>1. \A q \in Threads : pc[q] \notin Updating
  BY DEF InvalidateCache, IInv, RefreshMutex
<1>2. \A q \in Threads : pc'[q] \notin {"scan", "fetch"}
  BY <1>1 DEF InvalidateCache, Goto, IInv, StateTypeOK, Updating
<1>3. QED
  BY <1>2, ClearedShows DEF InvalidateCache, IInv

LEMMA RestartShows ==
    ASSUME IInv, IInv', Restart
    PROVE  CacheInv'
<1>1. \A q \in Threads : pc'[q] \notin {"scan", "fetch"}
  BY DEF Restart, IInv, StateTypeOK, Updating
<1>2. QED
  BY <1>1, ClearedShows DEF Restart, IInv

LEMMA Published ==
    ASSUME IInv, NEW s \in Streams, Publish(s)
    PROVE  /\ \E x \in Item : chain' = [chain EXCEPT ![s] = Append(chain[s], x)]
           /\ seen \subseteq seen'
<1>1. PICK a \in AggIds, creates \in Creations(s), large \in BOOLEAN, content \in Contents :
        chain' = [chain EXCEPT ![s] = Append(@,
             [txid |-> published + 1, agg |-> a, creates |-> creates,
              large |-> large, content |-> content])]
  BY DEF Publish
<1>2. PICK x : x = [txid |-> published + 1, agg |-> a, creates |-> creates,
                    large |-> large, content |-> content]
  OBVIOUS
<1>3. creates \in BOOLEAN /\ published + 1 \in Nat \ {0}
  <2>1. creates \in BOOLEAN
    BY DEF Creations
  <2>2. QED
    BY <2>1 DEF IInv, StateTypeOK
<1>4. x \in Item
  BY <1>2, <1>3 DEF Item
<1>5. chain' = [chain EXCEPT ![s] = Append(chain[s], x)]
  BY <1>1, <1>2 DEF IInv, StateTypeOK
<1>6. seen \subseteq seen'
  BY PublishTypes DEF IInv
<1>7. QED
  BY <1>4, <1>5, <1>6

LEMMA PublishShows ==
    ASSUME IInv, CacheInv, NEW s \in Streams, Publish(s)
    PROVE  CacheInv'
<1> SUFFICES ASSUME Quiet'
             PROVE  /\ \A t \in Streams : ShowsPrefix(t)'
                    /\ \A q \in Threads : Refreshes(q)' /\ Fetches(q)'
  BY DEF CacheInv
<1>1. PICK x \in Item : chain' = [chain EXCEPT ![s] = Append(chain[s], x)]
  BY Published
<1>2. /\ StateTypeOK /\ UNCHANGED reorgs /\ UNCHANGED cacheVars /\ UNCHANGED localVars
      /\ UNCHANGED <<pc, listing, todo>>
  BY DEF IInv, Publish
<1>3. Quiet
  BY <1>2, Published DEF Quiet, Legible
<1>4. \A t \in Streams : Position(t)' = Position(t) /\ HasCursor(t)' = HasCursor(t)
  BY <1>2 DEF cacheVars, Position, HasCursor
<1>5. \A t \in Streams : Position(t) \in Nat /\ chain[t] \in Seq(Item) /\ Len(chain[t]) \in Nat
  BY <1>2 DEF StateTypeOK, Position, HasCursor, Cursor
<1>6. ASSUME NEW t \in Streams
      PROVE  /\ Len(chain[t]) <= Len(chain'[t])
             /\ \A k \in 1 .. Len(chain[t]) : chain'[t][k] = chain[t][k]
             /\ \A m, n \in Nat : m <= n /\ n <= Len(chain[t]) =>
                    Part(chain'[t], m, n) = Part(chain[t], m, n)
  <2>1. CASE t # s
    <3>1. chain'[t] = chain[t]
      BY <1>1, <1>2, <2>1 DEF StateTypeOK
    <3>2. QED
      BY <1>5, <3>1
  <2>2. CASE t = s
    <3>1. PICK xs : xs = chain[t]
      OBVIOUS
    <3>2. chain'[t] = Append(xs, x) /\ xs \in Seq(Item)
      BY <1>1, <1>2, <1>5, <2>2, <3>1 DEF StateTypeOK
    <3>3. \A m, n \in Nat : m <= n /\ n <= Len(xs) =>
                Part(Append(xs, x), m, n) = Part(xs, m, n)
      BY <3>2, PartsStay
    <3>4. Len(Append(xs, x)) = Len(xs) + 1 /\ \A k \in 1 .. Len(xs) : Append(xs, x)[k] = xs[k]
      BY <3>2, AppendProperties
    <3>5. Len(xs) \in Nat
      BY <3>2
    <3>6. QED
      BY <3>1, <3>2, <3>3, <3>4, <3>5
  <2>3. QED
    BY <2>1, <2>2
<1>7. ASSUME NEW t \in Streams
      PROVE  ShowsPrefix(t)'
  <2>1. ShowsPrefix(t)
    BY <1>3 DEF CacheInv
  <2>2. PICK z : z = 0
    OBVIOUS
  <2>3. z \in Nat /\ z <= Position(t) /\ Position(t) <= Len(chain[t])
    BY <1>5, <2>1, <2>2 DEF ShowsPrefix
  <2>4. Part(chain'[t], z, Position(t)) = Part(chain[t], z, Position(t))
    BY <1>5, <1>6, <2>3
  <2>5. Shown(t)' = Shown(t)
    BY <1>4, <2>2, <2>4 DEF Shown
  <2>6. Position(t)' <= Len(chain'[t])
    <3>1. Len(chain'[t]) \in Nat /\ Len(chain[t]) <= Len(chain'[t])
      BY <1>1, <1>2, <1>5, <1>6 DEF StateTypeOK
    <3>2. QED
      BY <1>4, <1>5, <2>3, <3>1
  <2>7. HasCursor(t)' => streamState'[t].txid = chain'[t][Position(t)'].txid
    <3>1. SUFFICES ASSUME HasCursor(t) PROVE streamState[t].txid = chain'[t][Position(t)].txid
      BY <1>2, <1>4 DEF cacheVars
    <3>2. Position(t) \in 1 .. Len(chain[t])
      <4>1. Position(t) # 0
        BY <1>2, <3>1 DEF Position, HasCursor, StateTypeOK, Cursor
      <4>2. QED
        BY <1>5, <2>3, <4>1
    <3>3. QED
      BY <1>6, <2>1, <3>1, <3>2 DEF ShowsPrefix
  <2>8. QED
    BY <1>2, <2>1, <2>5, <2>6, <2>7 DEF ShowsPrefix, cacheVars
<1>8. ASSUME NEW q \in Threads
      PROVE  Refreshes(q)'
  <2>1. SUFFICES ASSUME Outstanding(q), NEW t \in Streams PROVE listing[q][t] <= Len(chain'[t])
    BY <1>2, <1>3, <1>4 DEF CacheInv, Refreshes, Outstanding
  <2>2. listing[q][t] \in Nat /\ listing[q][t] <= Len(chain[t])
    BY <1>2, <2>1 DEF Outstanding, StateTypeOK
  <2>3. Len(chain'[t]) \in Nat /\ Len(chain[t]) <= Len(chain'[t])
    BY <1>1, <1>2, <1>5, <1>6 DEF StateTypeOK
  <2>4. QED
    BY <1>5, <2>2, <2>3
<1>9. ASSUME NEW q \in Threads
      PROVE  Fetches(q)'
  <2>1. SUFFICES ASSUME pc[q] = "fetch"
                 PROVE  /\ cur[q] \in todo[q]
                        /\ isRebuild[q] => ~HasCursor(cur[q])
                        /\ first[q] \in Position(cur[q]) .. Len(chain'[cur[q]])
                        /\ newItems[q] = Part(chain'[cur[q]], Position(cur[q]), first[q])
    BY <1>2 DEF Fetches, localVars, cacheVars, HasCursor, Position
  <2>2. PICK t : t = cur[q]
    OBVIOUS
  <2>3. /\ t \in Streams /\ t \in todo[q] /\ (isRebuild[q] => ~HasCursor(t))
        /\ first[q] \in Position(t) .. Len(chain[t])
        /\ newItems[q] = Part(chain[t], Position(t), first[q])
    BY <1>2, <1>3, <2>1, <2>2 DEF CacheInv, Fetches, StateTypeOK
  <2>4. Len(chain'[t]) \in Nat /\ Len(chain[t]) <= Len(chain'[t])
    BY <1>1, <1>2, <1>5, <1>6, <2>3 DEF StateTypeOK
  <2>5. first[q] \in Nat /\ Position(t) <= first[q] /\ first[q] <= Len(chain[t]) /\ Position(t) \in Nat
    BY <1>5, <2>3
  <2>6. Part(chain'[t], Position(t), first[q]) = Part(chain[t], Position(t), first[q])
    BY <1>6, <2>3, <2>5
  <2>7. first[q] \in Position(t) .. Len(chain'[t])
    BY <1>5, <2>3, <2>4, <2>5
  <2>8. QED
    BY <2>2, <2>3, <2>6, <2>7
<1>10. QED
  BY <1>7, <1>8, <1>9

(* Nobody begins to restore a backup after the start.                      *)
LEMMA RestoreStep ==
    ASSUME IInv, [Next]_vars, NEW r \in Threads, pc'[r] = "restore"
    PROVE  pc[r] = "restore"
<1>1. ASSUME NEW q \in Threads, NEW label \in Pcs \ {"restore"}, pc' = [pc EXCEPT ![q] = label]
      PROVE  pc[r] = "restore"
  BY <1>1 DEF IInv, StateTypeOK
<1>2. ASSUME Restart
      PROVE  pc[r] = "restore"
  BY <1>2 DEF Restart
<1>3. ASSUME NEW q \in Threads, NEW streams, Continue(q, streams)
      PROVE  pc[r] = "restore"
  BY <1>3, <1>1 DEF Continue, Goto, Pcs, Updating
<1>4. ASSUME NEW q \in Threads, Throw(q)
      PROVE  pc[r] = "restore"
  BY <1>4, <1>1 DEF Throw, Goto, Pcs
<1>5. ASSUME NEW q \in Threads, Step(q)
      PROVE  pc[r] = "restore"
  <2>1. CASE GrabWriteLock(q)
    BY <2>1, <1>1 DEF GrabWriteLock, Goto, Pcs, Updating
  <2>2. CASE ListStreams(q) \/ CommitStream(q)
    BY <2>2, <1>3 DEF ListStreams, CommitStream
  <2>3. CASE FindStartIndex(q)
    BY <2>3, <1>1 DEF FindStartIndex, Goto, Pcs, Updating
  <2>4. CASE RetrieveItems(q)
    BY <2>4 DEF RetrieveItems
  <2>5. CASE NothingNew(q) \/ FoundABug(q)
    BY <2>5, <1>2, <1>4 DEF NothingNew, FoundABug
  <2>6. CASE Return(q)
    BY <2>6, <1>1 DEF Return, Goto, Pcs
  <2>7. CASE RestoreBackup(q)
    BY <2>7, <1>1 DEF RestoreBackup, Goto, Pcs
  <2>8. CASE InvalidateCache(q)
    BY <2>8, <1>1 DEF InvalidateCache, Goto, Pcs
  <2>9. QED
    BY <1>5, <2>1, <2>2, <2>3, <2>4, <2>5, <2>6, <2>7, <2>8 DEF Step
<1>6. ASSUME NEW q \in Threads, CallWithCache(q)
      PROVE  pc[r] = "restore"
  BY <1>6, <1>1 DEF CallWithCache, Goto, Pcs
<1>7. ASSUME UNCHANGED pc
      PROVE  pc[r] = "restore"
  BY <1>7
<1>8. QED
  BY <1>2, <1>4, <1>5, <1>6, <1>7 DEF Next, RpcError, Crash, Publish, Reorganise, vars

LEMMA CacheInvStep ==
    IInv /\ IInv' /\ AggregatesTypeOK /\ PrefixInv /\ [Next]_vars => CacheInv'
<1> SUFFICES ASSUME IInv, IInv', AggregatesTypeOK, PrefixInv, [Next]_vars PROVE CacheInv'
  OBVIOUS
<1>1. OddInv /\ OnlyRestorers /\ CacheInv
  BY DEF PrefixInv
<1>2. ASSUME NEW r \in Threads, Step(r)
      PROVE  CacheInv'
  <2>1. CASE GrabWriteLock(r) BY <1>1, <2>1, GrabWriteLockShows
  <2>2. CASE ListStreams(r) BY <1>1, <2>2, ListStreamsShows
  <2>3. CASE FindStartIndex(r) BY <1>1, <2>3, FindStartIndexShows
  <2>4. CASE RetrieveItems(r) BY <1>1, <2>4, RetrieveItemsShows
  <2>5. CASE CommitStream(r) BY <1>1, <2>5, CommitStreamShows
  <2>6. CASE NothingNew(r)
    BY <1>1, <2>6, ThrowShows DEF NothingNew, EndOfStream, Updating
  <2>7. CASE FoundABug(r) BY <2>7, RestartShows DEF FoundABug
  <2>8. CASE Return(r) BY <1>1, <2>8, CallWithCacheShows
  <2>9. CASE RestoreBackup(r)
    <3>1. r \in Restorers /\ pc'[r] = "wait"
      BY <1>1, <2>9 DEF OnlyRestorers, RestoreBackup, Goto, IInv, StateTypeOK
    <3>2. ~Quiet'
      BY <3>1 DEF Quiet
    <3>3. QED
      BY <3>2 DEF CacheInv
  <2>10. CASE InvalidateCache(r) BY <2>10, InvalidateCacheShows
  <2>11. QED
    BY <1>2, <2>1, <2>2, <2>3, <2>4, <2>5, <2>6, <2>7, <2>8, <2>9, <2>10 DEF Step
<1>3. ASSUME NEW r \in Threads, RpcError(r)
      PROVE  CacheInv'
  BY <1>1, <1>3, ThrowShows DEF RpcError
<1>4. ASSUME NEW r \in Threads, CallWithCache(r)
      PROVE  CacheInv'
  BY <1>1, <1>4, CallWithCacheShows
<1>5. ASSUME Crash
      PROVE  CacheInv'
  BY <1>5, RestartShows DEF Crash
<1>6. ASSUME NEW s \in Streams, Publish(s)
      PROVE  CacheInv'
  BY <1>1, <1>6, PublishShows
<1>7. ASSUME NEW s \in Streams, Reorganise(s)
      PROVE  CacheInv'
  <2>1. reorgs' = reorgs + 1 /\ reorgs \in Nat
    BY <1>7 DEF Reorganise, IInv, StateTypeOK
  <2>2. reorgs' # 0
    BY <2>1
  <2>3. QED
    BY <2>2 DEF CacheInv, Quiet
<1>8. ASSUME UNCHANGED vars
      PROVE  CacheInv'
  <2>1. UNCHANGED <<chain, streamState, eventsByStream, aggregates, seen, reorgs>>
    BY <1>8 DEF vars, chainVars, cacheVars
  <2>2. UNCHANGED <<pc, listing, todo, cur, isRebuild, first, newItems>>
    BY <1>8 DEF vars, localVars
  <2>3. QED
    BY <1>1, <2>1, <2>2 DEF CacheInv, Quiet, Legible, ShowsPrefix, Shown, Position, HasCursor, Refreshes,
       Outstanding, Fetches
<1>9. QED
  BY <1>2, <1>3, <1>4, <1>5, <1>6, <1>7, <1>8 DEF Next

LEMMA InitPrefixInv == Init => PrefixInv
<1> SUFFICES ASSUME Init PROVE PrefixInv
  OBVIOUS
<1>1. \A s \in Streams : chain[s] = <<>>
  BY DEF Init
<1>2. OddInv
  BY InitOddInv
<1>3. OnlyRestorers
  BY DEF Init, OnlyRestorers
<1>4. ASSUME NEW s \in Streams
      PROVE  ShowsPrefix(s)
  <2>1. ~HasCursor(s) /\ Position(s) = 0 /\ eventsByStream[s] = <<>>
    BY DEF Init, InitCache, NoCursors, NoEvents, HasCursor, Position
  <2>2. aggregates[s] = [a \in AggIds |-> <<>>]
    BY DEF Init, InitCache, NoAggregates
  <2>3. Shown(s) = <<>>
    BY <2>1, PartEmpty DEF Shown
  <2>4. AggregatesOf(s, <<>>) = [a \in AggIds |-> <<>>] /\ EventsOf(s, <<>>) = <<>>
    BY NothingSourced
  <2>5. Len(chain[s]) = 0
    BY <1>1
  <2>6. QED
    BY <2>1, <2>2, <2>3, <2>4, <2>5 DEF ShowsPrefix
<1>5. \A r \in Threads : Refreshes(r) /\ Fetches(r)
  BY DEF Init, Refreshes, Fetches
<1>6. QED
  BY <1>2, <1>3, <1>4, <1>5 DEF PrefixInv, CacheInv

LEMMA PrefixStep ==
    IInv /\ IInv' /\ AggregatesTypeOK /\ PrefixInv /\ [Next]_vars => PrefixInv'
<1> SUFFICES ASSUME IInv, IInv', AggregatesTypeOK, PrefixInv, [Next]_vars PROVE PrefixInv'
  OBVIOUS
<1>1. OddInv' /\ CacheInv'
  BY OddStep, CacheInvStep DEF PrefixInv
<1>2. OnlyRestorers'
  BY RestoreStep DEF PrefixInv, OnlyRestorers
<1>3. QED
  BY <1>1, <1>2 DEF PrefixInv

(* What the cache shows, and what a refresh is about to add, is what the   *)
(* chain holds, as long as it is Quiet.                                    *)
LEMMA ShownPrefixes == Safety => []PrefixInv
<1>1. QED
  BY InitPrefixInv, PrefixStep, AggregatesTyped, Invariance, PTL DEF Safety

(* cache2.ts:110 and system_restore: nothing of the chain that a restored  *)
(* backup replaced is left in the cache once it has been invalidated, even *)
(* if a refresh saw some of each: what the cache shows is sourced from a   *)
(* prefix of the chain as it is now.                                       *)
THEOREM RestoredIsClean == Safety => []RestoredCacheIsClean
<1>1. PrefixInv => RestoredCacheIsClean
  BY DEF PrefixInv, CacheInv, RestoredCacheIsClean, ShowsPrefix, Shown, Part
<1>2. QED
  BY <1>1, ShownPrefixes, PTL

(* cache2.ts:436-455: while nothing is taken from the chain, an update of  *)
(* a stream that was listed as longer finds new items: neither "Found a    *)
(* bug!" nor newItems[-1] is ever reached.                                 *)
THEOREM AnswersHoldItems == Safety => []AnswersAreNotEmpty
<1>1. ASSUME IInv, PrefixInv, Quiet, NEW r \in Threads, EndOfStream(r)
      PROVE  newItems[r] # <<>>
  <2>1. /\ Position(cur[r]) \in Nat /\ first[r] \in Nat /\ Position(cur[r]) < first[r]
        /\ Len(newItems[r]) = first[r] - Position(cur[r])
    BY <1>1, AllIsRead DEF IInv, PrefixInv
  <2>2. Len(newItems[r]) # 0
    BY <2>1
  <2>3. Len(<<>>) = 0
    OBVIOUS
  <2>4. QED
    BY <2>2, <2>3
<1>2. IInv /\ PrefixInv => AnswersAreNotEmpty
  BY <1>1 DEF AnswersAreNotEmpty
<1>3. QED
  BY <1>2, Invariance, ShownPrefixes, PTL

(* Positions while nothing is taken from the chain: only a restart, which  *)
(* ends every running transaction, takes one back.                         *)
LEMMA UndisturbedBefore ==
    ASSUME IInv, IInv', AggregatesTypeOK, PrefixInv, [Next]_vars, Undisturbed'
    PROVE  Undisturbed
<1>1. \A r \in Restorers : pc[r] = "restore"
  BY RestoreStep DEF Undisturbed, Threads
<1>2. reorgs = 0 /\ Legible
  <2>1. reorgs \in Nat /\ reorgs' = 0 /\ Legible'
    BY DEF IInv, StateTypeOK, Undisturbed
  <2>2. ASSUME NEW s \in Streams, Publish(s)
        PROVE  reorgs' = reorgs /\ seen \subseteq seen'
    BY <2>2, Published DEF Publish
  <2>3. ASSUME NEW s \in Streams, Reorganise(s)
        PROVE  FALSE
    <3>1. reorgs' = reorgs + 1
      BY <2>3 DEF Reorganise
    <3>2. QED
      BY <2>1, <3>1
  <2>4. ASSUME NEW r \in Threads, Step(r)
        PROVE  UNCHANGED <<reorgs, seen>>
    BY <2>4 DEF Step, GrabWriteLock, ListStreams, FindStartIndex, RetrieveItems,
         CommitStream, NothingNew, Throw, FoundABug, Restart, Return, RestoreBackup,
         InvalidateCache, chainVars
  <2>5. CASE reorgs' = reorgs /\ seen \subseteq seen'
    BY <2>1, <2>5 DEF Legible
  <2>6. QED
    BY <2>2, <2>3, <2>4, <2>5 DEF Next, RpcError, Throw, CallWithCache, Crash, Restart,
       vars, chainVars
<1>3. QED
  BY <1>1, <1>2 DEF Undisturbed

LEMMA UndisturbedIsQuiet == Undisturbed => Quiet
BY DEF Undisturbed, Quiet

(* What a step does to the cache and to the chain, seen from outside.      *)
LEMMA UndisturbedStep ==
    ASSUME IInv, IInv', AggregatesTypeOK, PrefixInv, [Next]_vars, Undisturbed'
    PROVE  \/ \E s \in Streams : Publish(s)
           \/ Restart
           \/ \E r \in Threads : CommitStream(r)
           \/ UNCHANGED chain /\ UNCHANGED cacheVars
<1>1. Undisturbed
  BY UndisturbedBefore
<1>2. ASSUME NEW r \in Threads, RestoreBackup(r) \/ InvalidateCache(r)
      PROVE  FALSE
  <2>1. CASE RestoreBackup(r)
    BY <2>1 DEF PrefixInv, OnlyRestorers, RestoreBackup, Goto, IInv, StateTypeOK, Undisturbed
  <2>2. CASE InvalidateCache(r)
    BY <1>1, <2>2 DEF InvalidateCache, Undisturbed
  <2>3. QED
    BY <1>2, <2>1, <2>2
<1>3. ASSUME NEW s \in Streams, Reorganise(s)
      PROVE  FALSE
  <2>1. reorgs' = reorgs + 1 /\ reorgs = 0 /\ reorgs' = 0
    BY <1>1, <1>3 DEF Reorganise, Undisturbed
  <2>2. QED
    BY <2>1
<1>4. ASSUME NEW r \in Threads, Step(r)
      PROVE  Restart \/ CommitStream(r) \/ (UNCHANGED chain /\ UNCHANGED cacheVars)
  BY <1>2, <1>4 DEF Step, GrabWriteLock, ListStreams, FindStartIndex, RetrieveItems, NothingNew,
     Throw, FoundABug, Return, chainVars
<1>5. QED
  BY <1>3, <1>4 DEF Next, RpcError, Throw, CallWithCache, Crash, vars, chainVars

LEMMA PositionsGrow ==
    ASSUME IInv, IInv', AggregatesTypeOK, PrefixInv, [Next]_vars, Undisturbed', ~Restart,
           NEW t \in Streams
    PROVE  Position(t) \in Nat /\ Position(t)' \in Nat /\ Position(t) <= Position(t)'
<1>1. Position(t) \in Nat /\ Position(t)' \in Nat
  BY DEF IInv, StateTypeOK, Position, HasCursor, Cursor
<1>2. CASE UNCHANGED cacheVars
  <2>1. Position(t)' = Position(t)
    BY <1>2 DEF cacheVars, Position, HasCursor
  <2>2. QED
    BY <1>1, <2>1
<1>3. ASSUME NEW r \in Threads, CommitStream(r)
      PROVE  Position(t) <= Position(t)'
  <2>1. PICK s : s = cur[r]
    OBVIOUS
  <2>2. Position(s) < Position(s)'
    BY <1>3, <2>1, CommitStreamShows, UndisturbedIsQuiet DEF PrefixInv, Undisturbed, Quiet
  <2>3. CASE t = s
    BY <1>1, <2>2, <2>3
  <2>4. CASE t # s
    <3>1. streamState'[t] = streamState[t]
      BY <1>3, <2>1, <2>4 DEF CommitStream, IInv, StateTypeOK
    <3>2. Position(t)' = Position(t)
      BY <3>1 DEF Position, HasCursor
    <3>3. QED
      BY <1>1, <3>2
  <2>5. QED
    BY <2>3, <2>4
<1>4. ASSUME NEW s \in Streams, Publish(s)
      PROVE  UNCHANGED cacheVars
  BY <1>4 DEF Publish
<1>5. QED
  BY <1>1, <1>2, <1>3, <1>4, UndisturbedStep

(* Transactions start at the end of a refresh.                             *)
LEMMA RunStep ==
    ASSUME IInv, [Next]_vars, NEW r \in Threads, pc'[r] = "run"
    PROVE  \/ pc[r] = "run" /\ listing'[r] = listing[r]
           \/ ListStreams(r)
           \/ CommitStream(r)
<1> DEFINE stays == pc[r] = "run" /\ listing'[r] = listing[r]
<1>1. ASSUME NEW q \in Threads, Throw(q)
      PROVE  stays
  <2>1. q # r
    BY <1>1 DEF Throw, Goto, IInv, StateTypeOK
  <2>2. QED
    BY <1>1, <2>1 DEF Throw, Goto, EndCall, IInv, StateTypeOK
<1>2. ASSUME Restart
      PROVE  FALSE
  BY <1>2 DEF Restart
<1>3. ASSUME NEW q \in Threads \ {r}, Step(q) \/ CallWithCache(q)
      PROVE  stays
  <2>1. CASE ListStreams(q) \/ CommitStream(q)
    BY <2>1 DEF ListStreams, CommitStream, Continue, Goto, IInv, StateTypeOK
  <2>2. CASE NothingNew(q) \/ FoundABug(q)
    BY <2>2, <1>1, <1>2 DEF NothingNew, FoundABug
  <2>3. CASE GrabWriteLock(q) \/ FindStartIndex(q) \/ RetrieveItems(q)
    BY <2>3 DEF GrabWriteLock, FindStartIndex, RetrieveItems, Goto, IInv, StateTypeOK
  <2>4. CASE Return(q) \/ RestoreBackup(q) \/ InvalidateCache(q) \/ CallWithCache(q)
    BY <2>4 DEF Return, RestoreBackup, InvalidateCache, CallWithCache, EndCall, Goto, IInv, StateTypeOK
  <2>5. QED
    BY <1>3, <2>1, <2>2, <2>3, <2>4 DEF Step
<1>4. ASSUME Step(r) \/ CallWithCache(r), ~ListStreams(r), ~CommitStream(r)
      PROVE  FALSE
  <2>1. CASE NothingNew(r) \/ FoundABug(r)
    BY <2>1, <1>2 DEF NothingNew, FoundABug, Throw, Goto, IInv, StateTypeOK
  <2>2. CASE GrabWriteLock(r) \/ FindStartIndex(r) \/ RetrieveItems(r)
    BY <2>2 DEF GrabWriteLock, FindStartIndex, RetrieveItems, Goto, IInv, StateTypeOK
  <2>3. CASE Return(r) \/ RestoreBackup(r) \/ InvalidateCache(r) \/ CallWithCache(r)
    BY <2>3 DEF Return, RestoreBackup, InvalidateCache, CallWithCache, Goto, IInv, StateTypeOK
  <2>4. QED
    BY <1>4, <2>1, <2>2, <2>3 DEF Step
<1>5. CASE UNCHANGED <<pc, listing>>
  BY <1>5
<1>6. QED
  BY <1>1, <1>2, <1>3, <1>4, <1>5 DEF Next, RpcError, Crash, Publish, Reorganise, vars

LEMMA ReadsStep ==
    IInv /\ IInv' /\ AggregatesTypeOK /\ PrefixInv /\ ReadsCoverListing /\ [Next]_vars
        => ReadsCoverListing'
<1> SUFFICES ASSUME IInv, IInv', AggregatesTypeOK, PrefixInv, ReadsCoverListing, [Next]_vars,
                    Undisturbed', NEW r \in Threads, pc'[r] = "run", NEW t \in Streams
             PROVE  Position(t)' >= listing'[r][t]
  BY DEF ReadsCoverListing
<1>1. Undisturbed
  BY UndisturbedBefore
<1>2. ~Restart
  BY DEF Restart
<1>3. /\ Position(t) \in Nat /\ Position(t)' \in Nat /\ Position(t) <= Position(t)'
      /\ listing[r][t] \in Nat /\ listing'[r][t] \in Nat
  BY <1>2, PositionsGrow DEF IInv, StateTypeOK
<1>4. CASE pc[r] = "run" /\ listing'[r] = listing[r]
  <2>1. Position(t) >= listing[r][t]
    BY <1>1, <1>4 DEF ReadsCoverListing
  <2>2. QED
    BY <1>3, <1>4, <2>1
<1>5. CASE ListStreams(r)
  <2>1. listing'[r][t] = Len(chain[t]) /\ Continue(r, {s \in Streams : NeedsUpdate(s)})
    BY <1>5 DEF ListStreams, IInv, StateTypeOK
  <2>2. ~NeedsUpdate(t)
    BY <2>1 DEF Continue, Goto, IInv, StateTypeOK
  <2>3. QED
    BY <1>3, <2>1, <2>2 DEF NeedsUpdate
<1>6. CASE CommitStream(r)
  <2>1. PICK s : s = cur[r]
    OBVIOUS
  <2>2. Outstanding(r)'
    BY <1>6, <2>1, CommitStreamShows, UndisturbedIsQuiet DEF PrefixInv, Undisturbed, Quiet
  <2>3. todo'[r] = {}
    BY <1>6 DEF CommitStream, Continue, Goto, IInv, StateTypeOK
  <2>4. listing'[r][t] <= Position(t)'
    BY <2>2, <2>3 DEF Outstanding
  <2>5. QED
    BY <1>3, <2>4
<1>7. QED
  BY <1>4, <1>5, <1>6, RunStep

(* cache2.ts:146 withCache: while nothing is taken from the chain, what a  *)
(* transaction reads, although no longer under the lock, includes all that *)
(* the node listed for its refresh.                                        *)
THEOREM ReadsCover == Safety => []ReadsCoverListing
<1>1. Init => ReadsCoverListing
  BY DEF Init, ReadsCoverListing
<1>2. QED
  BY <1>1, ReadsStep, Invariance, AggregatesTyped, ShownPrefixes, PTL DEF Safety

-----------------------------------------------------------------------------
(* The cache implements LedgerView while nothing is taken from the chain.  *)

LEMMA InitView == Init => View!Init
<1> SUFFICES ASSUME Init PROVE View!Init
  OBVIOUS
<1>1. \A s \in Streams : Position(s) = 0
  BY DEF Init, InitCache, NoCursors, HasCursor, Position
<1>2. QED
  BY <1>1 DEF Init, InitCache, NoEvents, NoAggregates, View!Init, View!Nowhere, View!NoEvents,
     View!NoAggregates

LEMMA SameValues ==
    ASSUME NEW s, NEW items
    PROVE  /\ View!EventsOf(s, items) = EventsOf(s, items)
           /\ View!AggregatesOf(s, items) = AggregatesOf(s, items)
<1>0. View!EventsIn(items) = EventsIn(items)
  BY Zenon DEF View!EventsIn, EventsIn, View!Parsed, Parsed
<1>1. View!EventsOf(s, items) = EventsOf(s, items)
  BY <1>0 DEF View!EventsOf, EventsOf
<1>2. ASSUME NEW a, NEW evs
      PROVE  View!Sourced(evs, a) = Sourced(evs, a)
  BY Zenon DEF View!Sourced, Sourced, View!SourceOnto, SourceOnto, View!Applied, Applied
<1>3. View!AggregatesOf(s, items) = AggregatesOf(s, items)
  BY <1>0, <1>2 DEF View!AggregatesOf, AggregatesOf
<1>4. QED
  BY <1>1, <1>3

LEMMA PositionTypes ==
    ASSUME StateTypeOK, StateTypeOK', NEW s \in Streams
    PROVE  Position(s) \in Nat /\ Position(s)' \in Nat /\ Len(chain[s]) \in Nat
BY DEF StateTypeOK, Position, HasCursor, Cursor

LEMMA StepView ==
    ASSUME IInv, IInv', AggregatesTypeOK, PrefixInv, PrefixInv', [Next]_vars, Undisturbed'
    PROVE  [View!Next]_(View!vars)
<1>1. CASE UNCHANGED chain /\ UNCHANGED cacheVars
  BY <1>1 DEF View!vars, cacheVars, Position, HasCursor
<1>2. CASE Restart
  <2>1. \A s \in Streams : Position(s)' = 0
    BY <1>2 DEF Restart, ClearCache, NoCursors, HasCursor, Position
  <2>2. View!Forget
    BY <1>2, <2>1 DEF Restart, ClearCache, NoEvents, NoAggregates, chainVars, View!Forget,
       View!Nowhere, View!NoEvents, View!NoAggregates
  <2>3. QED
    BY <2>2 DEF View!Next
<1>3. ASSUME NEW s \in Streams, Publish(s)
      PROVE  View!Extend(s)
  <2>1. PICK x \in Item : chain' = [chain EXCEPT ![s] = Append(chain[s], x)]
    BY <1>3, Published
  <2>2. PICK xs : xs = chain[s]
    OBVIOUS
  <2>3. xs \in Seq(Item) /\ chain'[s] = Append(xs, x)
    BY <2>1, <2>2 DEF IInv, StateTypeOK
  <2>4. Append(xs, x) # <<>> /\ Last(Append(xs, x)) = x
    <3>1. /\ Len(Append(xs, x)) = Len(xs) + 1 /\ Append(xs, x)[Len(xs) + 1] = x
          /\ Len(xs) \in Nat
      BY <2>3, AppendProperties
    <3>2. Len(Append(xs, x)) # 0 /\ Len(<<>>) = 0
      BY <3>1
    <3>3. QED
      BY <3>1, <3>2 DEF Last
  <2>5. chain' = [chain EXCEPT ![s] = Append(chain[s], Last(chain'[s]))] /\ chain'[s] # <<>>
    BY <2>1, <2>3, <2>4
  <2>6. UNCHANGED cacheVars
    BY <1>3 DEF Publish
  <2>7. \A t \in Streams : Position(t)' = Position(t)
    BY <2>6 DEF cacheVars, Position, HasCursor
  <2>8. UNCHANGED <<[t \in Streams |-> Position(t)], eventsByStream, aggregates>>
    BY <2>6, <2>7 DEF cacheVars
  <2>9. QED
    BY <2>5, <2>8 DEF View!Extend, View!Last, Last
<1>4. ASSUME NEW r \in Threads, CommitStream(r)
      PROVE  \E s \in Streams : View!CatchUp(s)
  <2>1. PICK s : s = cur[r]
    OBVIOUS
  <2>2. s \in Streams
    BY <2>1 DEF IInv, StateTypeOK
  <2>3. Quiet' /\ Position(s) < Position(s)'
    BY <1>4, <2>1, CommitStreamShows, UndisturbedIsQuiet DEF PrefixInv, Undisturbed, Quiet
  <2>4. ShowsPrefix(s)'
    BY <2>2, <2>3 DEF PrefixInv, CacheInv
  <2>5. PICK cursor, evs, aggs :
            /\ streamState' = [streamState EXCEPT ![s] = cursor]
            /\ eventsByStream' = [eventsByStream EXCEPT ![s] = evs]
            /\ aggregates' = [aggregates EXCEPT ![s] = aggs]
    BY <1>4, <2>1 DEF CommitStream
  <2>6. chain' = chain
    BY <1>4 DEF CommitStream, chainVars
  <2>7. PICK n : n = Position(s)'
    OBVIOUS
  <2>8. evs = EventsOf(s, SubSeq(chain[s], 1, n)) /\ aggs = AggregatesOf(s, SubSeq(chain[s], 1, n))
    <3>1. eventsByStream'[s] = evs /\ aggregates'[s] = aggs
      BY <2>2, <2>5 DEF IInv, StateTypeOK, AggregatesTypeOK
    <3>2. /\ eventsByStream'[s] = EventsOf(s, Shown(s)') /\ aggregates'[s] = AggregatesOf(s, Shown(s)')
          /\ Shown(s)' = SubSeq(chain[s], 1, n)
      BY <2>4, <2>6, <2>7 DEF ShowsPrefix, Shown, Part
    <3>3. QED
      BY <3>1, <3>2
  <2>9. [t \in Streams |-> Position(t)'] = [[t \in Streams |-> Position(t)] EXCEPT ![s] = n]
    <3>1. \A t \in Streams \ {s} : Position(t)' = Position(t)
      BY <2>5 DEF Position, HasCursor, IInv, StateTypeOK
    <3>2. QED
      BY <2>2, <2>7, <3>1
  <2>10. n \in Position(s) + 1 .. Len(chain[s])
    <3>1. Position(s) \in Nat /\ n \in Nat /\ Len(chain[s]) \in Nat
      BY <2>2, <2>7, PositionTypes DEF IInv
    <3>2. Position(s) < n /\ n <= Len(chain[s])
      BY <2>3, <2>4, <2>6, <2>7 DEF ShowsPrefix
    <3>3. QED
      BY <3>1, <3>2
  <2>11. View!CatchUp(s)
    <3>1. [t \in Streams |-> Position(t)][s] = Position(s)
      BY <2>2
    <3>2. PICK prefix : prefix = SubSeq(chain[s], 1, n)
      OBVIOUS
    <3>3. evs = View!EventsOf(s, prefix) /\ aggs = View!AggregatesOf(s, prefix)
      BY <2>8, <3>2, SameValues
    <3>4. QED
      BY <2>5, <2>6, <2>9, <2>10, <3>1, <3>2, <3>3 DEF View!CatchUp
  <2>12. QED
    BY <2>2, <2>11
<1>5. QED
  BY <1>1, <1>2, <1>3, <1>4, UndisturbedStep DEF View!Next

(* LedgerView: while nothing is taken from the chain, every stream is      *)
(* shown as it was at some earlier length, and a refresh brings whole      *)
(* passes into view, at once and in order.                                 *)
THEOREM CacheShowsPrefixes == Safety /\ []Undisturbed => ShowsPrefixes
<1>1. IInv /\ IInv' /\ AggregatesTypeOK /\ PrefixInv /\ PrefixInv' /\ [Next]_vars /\ Undisturbed'
        => [View!Next]_(View!vars)
  BY StepView
<1>2. QED
  BY <1>1, InitView, Invariance, AggregatesTyped, ShownPrefixes, PTL
     DEF Safety, ShowsPrefixes, View!Spec

LEMMA CalmStep ==
    ASSUME MaxReorgs = 0, Oddities \subseteq {"ignored"}, Restorers = {}, IInv, IInv', Undisturbed,
           [Next]_vars
    PROVE  Undisturbed'
<1>1. reorgs = 0
  BY DEF Undisturbed
<1>2. Legible'
  BY DEF IInv, StateTypeOK, Legible
<1>3. ASSUME NEW s \in Streams, Reorganise(s)
      PROVE  FALSE
  <2>1. reorgs < MaxReorgs
    BY <1>3 DEF Reorganise
  <2>2. QED
    BY <1>1, <2>1
<1>4. ASSUME NEW r \in Threads, Step(r)
      PROVE  UNCHANGED reorgs
  BY <1>4 DEF Step, GrabWriteLock, ListStreams, FindStartIndex, RetrieveItems, CommitStream,
     NothingNew, Throw, FoundABug, Restart, Return, RestoreBackup, InvalidateCache, chainVars
<1>5. UNCHANGED reorgs
  BY <1>3, <1>4 DEF Next, RpcError, Throw, CallWithCache, Crash, Restart, Publish, vars, chainVars
<1>6. QED
  BY <1>1, <1>2, <1>5 DEF Undisturbed

(* In particular if the node never reorganises the chain, can read every   *)
(* item, and nobody restores a backup.                                     *)
THEOREM CalmCacheShowsPrefixes ==
    ASSUME MaxReorgs = 0, Oddities \subseteq {"ignored"}, Restorers = {}
    PROVE  Safety => ShowsPrefixes
<1>1. Init => Undisturbed
  BY DEF Init, Undisturbed, Legible
<1>2. IInv /\ IInv' /\ Undisturbed /\ [Next]_vars => Undisturbed'
  BY CalmStep
<1>3. Safety => []Undisturbed
  BY <1>1, <1>2, Invariance, PTL DEF Safety
<1>4. QED
  BY <1>3, CacheShowsPrefixes, PTL

=============================================================================

------------------------------ MODULE MCCache -------------------------------
(***************************************************************************)
(* Instances of Cache for TLC, and two statements made in comments of the  *)
(* code that the code does not keep.                                       *)
(***************************************************************************)
EXTENDS Cache

(* Under the bounds the system stops when everything is answered.          *)
AllAnswered == \A r \in Threads : pc[r] \in {"done", "failed"}

(* What the parsing and sourcing of items amounts to: an aggregate is what *)
(* its events since its last creation make of it, however the items were   *)
(* split into batches.                                                     *)
SinceLastCreation(items, a) ==
    LET own       == SelectSeq(items, LAMBDA it : it.agg = a /\ it.content = "event")
        creations == {k \in DOMAIN own : own[k].creates}
    IN  IF creations = {} THEN <<>> ELSE SubSeq(own, Max(creations), Len(own))

SomeItems == {item \in [agg: {"a", "b"}, creates: BOOLEAN, content: {"event", "ignored"}] :
                item.content = "event" \/ item.creates}

ASSUME SourcingAssumption ==
    \A n \in 0 .. 4 : \A items \in [1 .. n -> SomeItems] : \A k \in 0 .. n :
        SourceOnto(Sourced(EventsIn(SubSeq(items, 1, k)), "a"),
                   EventsIn(SubSeq(items, k + 1, n)), "a") = SinceLastCreation(items, "a")

(* RpcClient.ts:223 "Log errors occured while converting and skip items":  *)
(* an item that cannot be decrypted is left out and the others are sourced *)
(* as ever, each once.  But the next index is computed from the number of  *)
(* items left in the answer, so later ones are fetched and sourced again.  *)
EachItemOnce ==
    \A s \in KeptStreams : \A i, j \in DOMAIN eventsByStream[s] :
        eventsByStream[s][i] = eventsByStream[s][j] => i = j

(* cache2.ts:428 "Even if the last item has changed in the meantime, we'll *)
(* pick up the change along with the next": a rebuild that has read the    *)
(* whole stream leaves the cache with the stream's value.  But it only     *)
(* deletes the events of a kept stream, not the aggregates of a project,   *)
(* and one whose creation is no longer on the chain stays.                 *)
RebuildShowsTheChain ==
    [][\A r \in Threads :
            CommitStream(r) /\ isRebuild[r] /\ newItems[r] = chain[cur[r]] =>
                /\ eventsByStream'[cur[r]] = EventsOf(cur[r], newItems[r])
                /\ aggregates'[cur[r]] = AggregatesOf(cur[r], newItems[r])]_vars
=============================================================================

------------------------------- MODULE Ledger -------------------------------
(***************************************************************************)
(* The vocabulary shared by the cache and by its specification: what an    *)
(* item of a MultiChain stream is, as far as the cache can tell, and what  *)
(* value a stream stands for once its items have been sourced.             *)
(*                                                                         *)
(* An item is abstracted to its transaction id, to the aggregate (project, *)
(* subproject or workflowitem) its business event is about, to whether     *)
(* that event is the aggregate's *_created event, to whether its data is   *)
(* too large to come with the listing (RpcClient.ts:349), in which case    *)
(* reading it takes one more call that may fail, and to what the API makes *)
(* of the data: a business event, something it ignores (no JSON, of an     *)
(* unknown type, or failing validation), or nothing at all, because it is  *)
(* sealed with another organization's encryption password.                 *)
(***************************************************************************)
EXTENDS Naturals, Sequences, SequencesExt

CONSTANTS
    Streams,        \* names of the streams with a "kind" (cache2.ts:411)
    KeptStreams,    \* those whose events are kept as they are (cache2.ts:508)
    AggIds          \* ids of projects, subprojects and workflowitems

ASSUME KeptStreamsAssumption == KeptStreams \subseteq Streams

Contents == {"event", "ignored", "sealed"}

Item == [txid: Nat \ {0}, agg: AggIds, creates: BOOLEAN, large: BOOLEAN, content: Contents]

(* parseBusinessEvents and the filter on its results: the business events  *)
(* among the items, in their order; the others are logged or passed over.  *)
Parsed(events, item) ==
    IF item.content = "event" THEN Append(events, item) ELSE events

EventsIn(items) ==
    LET after[n \in 0 .. Len(items)] ==
            IF n = 0 THEN <<>> ELSE Parsed(after[n - 1], items[n])
    IN  after[Len(items)]

(* Sourcing an event that is about the aggregate a: its creation replaces  *)
(* it, any other event is applied to it, and is an error, logged and       *)
(* skipped, if it does not exist yet (project_eventsourcing.ts,            *)
(* subproject_eventsourcing.ts, workflowitem_eventsourcing.ts).  What an   *)
(* aggregate makes of its events, and which ones it rejects, is a function *)
(* of the sequence of those since the last creation: that sequence stands  *)
(* for it, and the empty one for none.                                     *)
Applied(aggregate, item, a) ==
    IF item.agg # a         THEN aggregate
    ELSE IF item.creates    THEN <<item>>
    ELSE IF aggregate = <<>> THEN <<>>
    ELSE Append(aggregate, item)

(* Sourcing one event after the other, on top of what there is.            *)
SourceOnto(aggregate, items, a) ==
    LET after[n \in 0 .. Len(items)] ==
            IF n = 0 THEN aggregate ELSE Applied(after[n - 1], items[n], a)
    IN  after[Len(items)]

Sourced(items, a) == SourceOnto(<<>>, items, a)

(* The value of a stream after its first items: the events themselves if   *)
(* the stream is kept, the aggregates if it is a project's stream.         *)
EventsOf(s, items) == IF s \in KeptStreams THEN EventsIn(items) ELSE <<>>

AggregatesOf(s, items) ==
    [a \in AggIds |-> IF s \in KeptStreams THEN <<>> ELSE Sourced(EventsIn(items), a)]
=============================================================================

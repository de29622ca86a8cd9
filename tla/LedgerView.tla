----------------------------- MODULE LedgerView -----------------------------
(***************************************************************************)
(* What the API's cache promises its callers: for every stream it shows    *)
(* the value of some prefix of the stream.  The prefix only grows, except  *)
(* that the cache may forget everything at once and start over.  A prefix  *)
(* is taken over as a whole: nobody ever sees half of a catch-up, an event *)
(* twice, or an event without the ones before it.                          *)
(***************************************************************************)
EXTENDS Ledger

VARIABLES
    ledger,     \* the stream items, in stream order
    position,   \* how many items of each stream are reflected
    events,     \* the events shown for each kept stream
    aggregates  \* the aggregates shown for each project stream

vars == <<ledger, position, events, aggregates>>

Nowhere      == [s \in Streams |-> 0]
NoEvents     == [s \in Streams |-> <<>>]
NoAggregates == [s \in Streams |-> [a \in AggIds |-> <<>>]]

Init ==
    /\ ledger     = [s \in Streams |-> <<>>]
    /\ position   = Nowhere
    /\ events     = NoEvents
    /\ aggregates = NoAggregates

Extend(s) ==
    /\ ledger'[s] # <<>>
    /\ ledger' = [ledger EXCEPT ![s] = Append(@, Last(ledger'[s]))]
    /\ UNCHANGED <<position, events, aggregates>>

CatchUp(s) ==
    \E n \in position[s] + 1 .. Len(ledger[s]) :
        LET prefix == SubSeq(ledger[s], 1, n)
        IN  /\ position'   = [position EXCEPT ![s] = n]
            /\ events'     = [events EXCEPT ![s] = EventsOf(s, prefix)]
            /\ aggregates' = [aggregates EXCEPT ![s] = AggregatesOf(s, prefix)]
            /\ UNCHANGED ledger

Forget ==
    /\ position'   = Nowhere
    /\ events'     = NoEvents
    /\ aggregates' = NoAggregates
    /\ UNCHANGED ledger

Next ==
    \/ \E s \in Streams : Extend(s) \/ CatchUp(s)
    \/ Forget

Spec == Init /\ [][Next]_vars
=============================================================================

------------------------------ MODULE ItemLife ------------------------------
(***************************************************************************)
(* The life of a workflowitem as the project's stream records it (ADR 0004 *)
(* "Resource-level lifetime"): it is created open, it is worked on while   *)
(* it is open, it is closed once, accepted or rejected, and its content is *)
(* fixed from then on.  All that can still happen to it is that an item    *)
(* which two users closed at the same time turns from accepted to rejected *)
(* (workflowitem_closed.ts:87), never back.                                *)
(***************************************************************************)
CONSTANTS
    Items,      \* ids of workflowitems
    Data        \* contents

VARIABLE life   \* status, content and outcome of each item

None == [status |-> "absent"]

New == [status: {"open"}, rejected: {FALSE}, data: Data]

Init == life \in [Items -> New \cup {None}]

Become(i, record) == life' = [life EXCEPT ![i] = record]

Create(i) ==
    /\ life[i] = None
    /\ \E record \in New : Become(i, record)

Work(i) ==
    /\ life[i].status = "open"
    /\ \E d \in Data : Become(i, [life[i] EXCEPT !.data = d])

Close(i) ==
    /\ life[i].status = "open"
    /\ \E reject \in BOOLEAN :
            Become(i, [life[i] EXCEPT !.status = "closed", !.rejected = reject])

Reject(i) ==
    /\ life[i].status = "closed"
    /\ Become(i, [life[i] EXCEPT !.rejected = TRUE])

Next == \E i \in Items : Create(i) \/ Work(i) \/ Close(i) \/ Reject(i)

Spec == Init /\ [][Next]_life
=============================================================================

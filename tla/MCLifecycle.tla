---------------------------- MODULE MCLifecycle -----------------------------
(***************************************************************************)
(* Instances of Lifecycle for TLC, and a statement of the documentation    *)
(* that concurrent requests break.                                         *)
(***************************************************************************)
EXTENDS Lifecycle

CONSTANTS root, s1, i1, i2

MCMembers   == [a \in Identities |-> IF a \in Users THEN {a} ELSE Users \ {root}]
MCTree      == <<s1, i1, i2>>
MCOneItem   == <<s1, i1>>
MCOrderings == {<<>>, <<i2, i1>>, <<i2>>}

(* ADR 0004:51 "All children need to be in state closed before a parent    *)
(* can be closed."  The children are only looked at when the close is      *)
(* decided; one that is created before its event is stored stays open      *)
(* (and nothing keeps a closed subproject from getting another item).      *)
ClosedAfterTheChildren ==
    [][\A x \in Ids : IsOpen(x) /\ IsClosed(x)' => \A y \in Children(x) : IsClosed(y)]_vars
=============================================================================

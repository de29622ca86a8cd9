-------------------------- MODULE MCProvisioning ----------------------------
(***************************************************************************)
(* An instance of Provisioning for TLC: an open project with a subproject  *)
(* that is closed after its two workflowitems, and a project that is       *)
(* closed.                                                                 *)
(***************************************************************************)
EXTENDS Provisioning

CONSTANTS P, S, V, W, Q

MCProjects == <<P, Q>>

MCChildrenOf ==
    [x \in {P, S, V, W, Q} |->
        CASE x = P -> <<S>> [] x = S -> <<V, W>> [] OTHER -> <<>>]

MCToClose == {S, V, W, Q}

=============================================================================

---------------------------- MODULE MCDocuments ----------------------------
(***************************************************************************)
(* An instance of Documents for TLC: two organizations, a user in each and *)
(* a group of the second one.                                              *)
(***************************************************************************)
EXTENDS Documents, TLC

CONSTANTS ann, bob, team, A, B

MCOrganizationOf == (ann :> A) @@ (bob :> B)

MCFirstMembers == team :> {}

MCIntents == {ListIntent, UpdateIntent, AssignIntent, GrantIntent, RevokeIntent}

Symmetry == Permutations(Docs) \cup Permutations(Workers)
=============================================================================

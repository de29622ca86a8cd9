----------------------------- MODULE MCNetwork -----------------------------
(***************************************************************************)
(* Instances of Network for TLC, and a statement of a comment that the     *)
(* code does not keep.                                                     *)
(***************************************************************************)
EXTENDS Network, TLC

CONSTANTS a, b1, b2, A, B, w1, w2

(* The second organization has two nodes, whose APIs may start together.   *)
MCOrganizationOf == [n \in Nodes |-> IF n = a THEN A ELSE B]
OneOrganization  == [n \in Nodes |-> A]

(* The two nodes, and the two workers, may be exchanged.                    *)
Symmetry == Permutations({b1, b2}) \cup Permutations({w1, w2})

(* "Check if private key exists then generate public key and publish this  *)
(* key".  It never succeeds: after a failure between the publication of    *)
(* the two keys every start of every API of the organization ends here.    *)
PublicKeyIsDerived == \A n \in Nodes : pc[n] # "cannot create public key"

=============================================================================

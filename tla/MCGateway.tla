----------------------------- MODULE MCGateway -----------------------------
(* Instances of Gateway, with Audit and RequestContract, for TLC. *)
EXTENDS Gateway, TLC

CONSTANTS r1, r2

Symmetry == Permutations(Req)
=============================================================================

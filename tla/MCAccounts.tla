----------------------------- MODULE MCAccounts -----------------------------
(* Instances of Accounts for TLC. *)
EXTENDS Accounts, TLC

Symmetry == Permutations(Session) \cup Permutations(Login)
            \cup Permutations(Request)
=============================================================================

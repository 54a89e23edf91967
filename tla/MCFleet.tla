------------------------------ MODULE MCFleet ------------------------------
(* Instances of Fleet for TLC. *)
EXTENDS Fleet
CONSTANTS c1, c2, n1

\* Two plugins that present the same machine name.
SharedName == [c \in {c1, c2} |-> n1]
\* One machine on its own.
OwnName == [c \in {c1} |-> n1]
=============================================================================

------------------------------ MODULE MCAudit ------------------------------
(* Instances of Audit for TLC. *)
EXTENDS Audit
=============================================================================

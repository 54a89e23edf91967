---------------------------- MODULE MCUplinkConn ----------------------------
(* Instances of UplinkConn, and of its refinement, for TLC. *)
EXTENDS UplinkRefinement, TLC

\* Requests are interchangeable in the safety runs.
Symmetry == Permutations(Req)
=============================================================================

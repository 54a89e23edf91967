---------------------------- MODULE MCEnrolment ----------------------------
(* Instances of Enrolment and AccountPage for TLC. *)
EXTENDS AccountPage, TLC

Symmetry == Permutations(User) \cup Permutations(Token)
            \cup Permutations(Handshake)
=============================================================================

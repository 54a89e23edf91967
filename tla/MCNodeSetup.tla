---------------------------- MODULE MCNodeSetup ----------------------------
(* Instances of NodeSetup for TLC. *)
EXTENDS NodeSetup, TLC

\* Nothing in the environment.
NoEnv == Empty

\* Nothing declared, a token only, an address that cannot be dialled.
SomeDeclared == {Empty, [Empty EXCEPT !.token = "t1"],
                 [Empty EXCEPT !.url = "http", !.token = "t1"]}
\* Nothing declared.
NoneDeclared == {Empty}
\* A token only.
TokenDeclared == {[Empty EXCEPT !.token = "t1"]}

\* Every form, and those that leave the machine's name to its hostname.
AnyForm == Fields
UnnamedForm == {f \in Fields : f.nodeId = Absent}

Symmetry == Permutations(Request)
=============================================================================

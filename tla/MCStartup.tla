----------------------------- MODULE MCStartup -----------------------------
(* Instances of Startup for TLC. *)
EXTENDS Startup

\* The files of deploy/migrations, and a later one that begins no transaction.
PlainThird == <<"own", "own", "plain">>

\* A third file written as migrate.go's comment says: no insert of its own.
WrappedThird == <<"own", "own", "wrapped">>

\* One environment that is complete, with and without TLS, and every way in
\* which one is not.
Complete == [required |-> TRUE, tls |-> "none", password |-> "good",
             access |-> "full"]
AllEnvironments ==
  {Complete, [Complete EXCEPT !.tls = "both"],
   [Complete EXCEPT !.tls = "half"], [Complete EXCEPT !.required = FALSE],
   [Complete EXCEPT !.password = "short"], [Complete EXCEPT !.access = "bad"]}
=============================================================================

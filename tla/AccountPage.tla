----------------------------- MODULE AccountPage -----------------------------
(***************************************************************************)
(* The account page's one-time reveal of a user token: AccountPage.stash,  *)
(* collect, ServeHTTP and MintToken of internal/console/account.go, on top *)
(* of the tokens of Enrolment.  The plaintext lives in the process, under  *)
(* a key that the redirect after the form carries; a reveal is identified  *)
(* with its token.                                                         *)
(***************************************************************************)
EXTENDS Enrolment, Sequences

VARIABLES
  reveal,   \* "none" before the token is minted, "minted" between its insert
            \* and stash, "fresh" or "stale" in p.reveals, "gone" from it
  shown     \* the accounts on whose page the plaintext was rendered

pageVars == <<reveal, shown>>

PageInit ==
  /\ Init
  /\ reveal = [t \in Token |-> "none"] /\ shown = [t \in Token |-> <<>>]

\* MintToken, up to the insert.  `dshf user token` mints without a reveal.
Mint(u, t) ==
  /\ MintToken(u, t)
  /\ reveal' = [reveal EXCEPT ![t] = "minted"] /\ UNCHANGED shown

\* stash: sweeps what is older than revealLifetime, keeps the plaintext, and
\* hands the key to the browser.
Stash(t) ==
  /\ reveal[t] = "minted"
  /\ reveal' = [k \in Token |-> IF k = t THEN "fresh"
                  ELSE IF reveal[k] = "stale" THEN "gone" ELSE reveal[k]]
  /\ UNCHANGED <<vars, shown>>

\* revealLifetime passes.
Ages(t) ==
  /\ reveal[t] = "fresh"
  /\ reveal' = [reveal EXCEPT ![t] = "stale"]
  /\ UNCHANGED <<vars, shown>>

\* Mutant: what is shown stays in the map.
CollectKeeps(u, t) ==
  /\ account[u] # "none" /\ reveal[t] \in {"fresh", "stale"}
  /\ shown' = IF holder[t] = u /\ reveal[t] = "fresh"
              THEN [shown EXCEPT ![t] = Append(@, u)] ELSE shown
  /\ UNCHANGED <<vars, reveal>>

\* ServeHTTP and collect, for whoever follows the redirect, again or from
\* another browser: the entry goes before its owner and its age are looked at.
\* The account may have been disabled or deleted since the request began.
Collect(u, t) ==
  /\ account[u] # "none" /\ reveal[t] \in {"fresh", "stale"}
  /\ reveal' = [reveal EXCEPT ![t] = "gone"]
  /\ shown' = IF holder[t] = u /\ reveal[t] = "fresh"
              THEN [shown EXCEPT ![t] = Append(@, u)] ELSE shown
  /\ UNCHANGED vars

\* The control plane restarts: the map and the requests in it are lost, the
\* tokens are not.
Restart ==
  /\ \E t \in Token : reveal[t] \in {"minted", "fresh", "stale"}
  /\ reveal' = [t \in Token |->
                  IF reveal[t] = "none" THEN "none" ELSE "gone"]
  /\ step' = [h \in Handshake |-> "idle"]
  /\ UNCHANGED <<tables, hello, dead, shown>>

Page == \/ \E u \in User, t \in Token : Mint(u, t) \/ Collect(u, t)
        \/ \E t \in Token : Stash(t) \/ Ages(t)
        \/ Restart

PageNext == \/ Page
            \/ (People \/ Operator \/ Uplink) /\ UNCHANGED pageVars

PageSpec == PageInit /\ [][PageNext]_<<vars, pageVars>>

-----------------------------------------------------------------------------
\* reveal: "one minted token waiting to be shown exactly once", "Scoped to the
\* owner".  However often and by whomever the redirect is followed, and
\* whatever happens to account and token meanwhile, a plaintext is rendered at
\* most once, for the account the row belongs to, and is then nowhere in the
\* process.
ShownOnce ==
  \A t \in Token :
    /\ Len(shown[t]) <= 1
    /\ shown[t] # <<>> => /\ shown[t] = <<holder[t]>> /\ token[t] # "none"
                         /\ reveal[t] = "gone"
=============================================================================

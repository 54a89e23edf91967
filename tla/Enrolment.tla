------------------------------ MODULE Enrolment ------------------------------
(***************************************************************************)
(* Which machine may connect under which name: the nodes table of          *)
(* internal/nodes/store.go, the user tokens of internal/users/tokens.go,   *)
(* the handshake's two ways in (Handler.ServeHTTP and enrol with the       *)
(* enroller of cmd/dshf/main.go) and the operations that withdraw access.  *)
(*                                                                         *)
(* Each SQL statement is one step; what a handshake does between two of    *)
(* them interleaves with everything else.  A secret is identified with its *)
(* generation: node n's k-th machine token, or a user token row.           *)
(***************************************************************************)
EXTENDS Integers, FiniteSets

CONSTANTS User, NoUser,   \* account ids, which are never reused
          Token,          \* rows of user_tokens
          Machine,        \* machine names
          MaxSecrets,     \* bound: machine tokens issued per name
          Handshake       \* bound: handshakes in flight at once

ASSUME EnrolmentAssumption == NoUser \notin User /\ MaxSecrets \in Nat

VARIABLES
  account,  \* users: "none", "enabled", "disabled" or "deleted"
  holder,   \* user_tokens.user_id
  token,    \* "none", "live", "revoked" or "gone" (deleted by cascade)
  exists,   \* the name has a row in nodes
  owner,    \* nodes.owner_id, NoUser for NULL
  secret,   \* nodes.token_hash: generation of the stored token, 0 for NULL
  revoked,  \* nodes.revoked_at IS NOT NULL
  step,     \* where a handshake is, or how it ended
  hello,    \* what it presented
  dead      \* its credential was dead when the hello came, and still is

tables == <<account, holder, token, exists, owner, secret, revoked>>
handshakes == <<step, hello, dead>>
vars == <<tables, handshakes>>

\* A hello carries a machine token, or a username and a user token.
Hello == [kind : {"machine"}, name : Machine, gen : 1 .. MaxSecrets]
    \cup [kind : {"user"}, name : Machine, user : User, token : Token]
Ended == {"accepted", "badToken", "notFound", "foreign", "ownToken"}
Steps == {"idle", "authenticate", "account", "tokens", "claim", "why"}
    \cup Ended

TypeOK ==
  /\ account \in [User -> {"none", "enabled", "disabled", "deleted"}]
  /\ holder \in [Token -> User \cup {NoUser}]
  /\ token \in [Token -> {"none", "live", "revoked", "gone"}]
  /\ exists \in [Machine -> BOOLEAN] /\ revoked \in [Machine -> BOOLEAN]
  /\ owner \in [Machine -> User \cup {NoUser}]
  /\ secret \in [Machine -> 0 .. MaxSecrets]
  /\ step \in [Handshake -> Steps]
  /\ hello \in [Handshake -> Hello \cup {<<>>}]
  /\ dead \in [Handshake -> BOOLEAN]

Init ==
  /\ account = [u \in User |-> "none"]
  /\ holder = [t \in Token |-> NoUser] /\ token = [t \in Token |-> "none"]
  /\ exists = [n \in Machine |-> FALSE] /\ revoked = [n \in Machine |-> FALSE]
  /\ owner = [n \in Machine |-> NoUser] /\ secret = [n \in Machine |-> 0]
  /\ step = [h \in Handshake |-> "idle"] /\ hello = [h \in Handshake |-> <<>>]
  /\ dead = [h \in Handshake |-> FALSE]

-----------------------------------------------------------------------------
(* Accounts and user tokens.                                               *)

Create(u) ==
  /\ account[u] = "none"
  /\ account' = [account EXCEPT ![u] = "enabled"]
  /\ UNCHANGED <<holder, token, exists, owner, secret, revoked, handshakes>>

\* Enabling an account again revives the handshakes it had doomed.
SetDisabled(u, disabled) ==
  /\ account[u] \in {"enabled", "disabled"}
  /\ account' = [account EXCEPT ![u] =
                   IF disabled THEN "disabled" ELSE "enabled"]
  /\ dead' = [h \in Handshake |->
                /\ dead[h]
                /\ ~(/\ ~disabled /\ hello[h].kind = "user" /\ hello[h].user = u
                     /\ token[hello[h].token] = "live")]
  /\ UNCHANGED <<holder, token, exists, owner, secret, revoked, step, hello>>

\* Mutant: without the CHECK, ON DELETE SET NULL frees the machines.
DeleteOrphans(u) ==
  /\ account[u] \in {"enabled", "disabled"}
  /\ account' = [account EXCEPT ![u] = "deleted"]
  /\ token' = [t \in Token |-> IF holder[t] = u THEN "gone" ELSE token[t]]
  /\ owner' = [n \in Machine |-> IF owner[n] = u THEN NoUser ELSE owner[n]]
  /\ UNCHANGED <<holder, exists, secret, revoked, handshakes>>

\* DELETE FROM users: the tokens go by cascade.  owner_id is ON DELETE SET
\* NULL, and a row with neither credential fails nodes_one_credential, which
\* fails the statement: the account of an owner is not deleted.
Delete(u) ==
  /\ account[u] \in {"enabled", "disabled"}
  /\ \A n \in Machine : owner[n] # u
  /\ account' = [account EXCEPT ![u] = "deleted"]
  /\ token' = [t \in Token |-> IF holder[t] = u THEN "gone" ELSE token[t]]
  /\ UNCHANGED <<holder, exists, owner, secret, revoked, handshakes>>

MintToken(u, t) ==
  /\ account[u] \in {"enabled", "disabled"} /\ token[t] = "none"
  /\ token' = [token EXCEPT ![t] = "live"]
  /\ holder' = [holder EXCEPT ![t] = u]
  /\ UNCHANGED <<account, exists, owner, secret, revoked, handshakes>>

\* Scoped to the owner: u revokes only a live token of its own.
RevokeToken(u, t) ==
  /\ token[t] = "live" /\ holder[t] = u
  /\ token' = [token EXCEPT ![t] = "revoked"]
  /\ UNCHANGED <<account, holder, exists, owner, secret, revoked, handshakes>>

-----------------------------------------------------------------------------
(* Machines.                                                               *)

\* INSERT with a fresh machine token; an existing id is refused.
Register(n) ==
  /\ ~exists[n] /\ MaxSecrets > 0
  /\ exists' = [exists EXCEPT ![n] = TRUE]
  /\ secret' = [secret EXCEPT ![n] = 1]
  /\ UNCHANGED <<account, holder, token, owner, revoked, handshakes>>

\* Mutant: a machine an account owns can be given a token too.
RotateOwned(n) ==
  /\ exists[n] /\ secret[n] < MaxSecrets
  /\ secret' = [secret EXCEPT ![n] = @ + 1]
  /\ revoked' = [revoked EXCEPT ![n] = FALSE]
  /\ UNCHANGED <<account, holder, token, exists, owner, handshakes>>

\* A fresh machine token that lifts a revocation, WHERE owner_id IS NULL.
Rotate(n) ==
  /\ exists[n] /\ owner[n] = NoUser /\ secret[n] < MaxSecrets
  /\ secret' = [secret EXCEPT ![n] = @ + 1]
  /\ revoked' = [revoked EXCEPT ![n] = FALSE]
  /\ UNCHANGED <<account, holder, token, exists, owner, handshakes>>

Revoke(n) ==
  /\ exists[n] /\ ~revoked[n]
  /\ revoked' = [revoked EXCEPT ![n] = TRUE]
  /\ UNCHANGED <<account, holder, token, exists, owner, secret, handshakes>>

-----------------------------------------------------------------------------
(* The handshake.                                                          *)

\* A credential that can no longer be accepted: a machine token that was
\* replaced or revoked, a user token that was revoked or whose account is gone
\* or disabled.
Dead(f) ==
  IF f.kind = "machine"
  THEN exists[f.name] /\ (revoked[f.name] \/ f.gen < secret[f.name])
  ELSE \/ token[f.token] \in {"revoked", "gone"}
       \/ account[f.user] \in {"disabled", "deleted"}

\* A secret someone was given at some time.
Issued(f) ==
  IF f.kind = "machine" THEN f.gen <= secret[f.name]
  ELSE holder[f.token] = f.user

\* readHello; a username chooses the self-enrolment path.
Arrive(h, f) ==
  /\ step[h] \in {"idle"} \cup Ended
  /\ Issued(f)
  /\ hello' = [hello EXCEPT ![h] = f]
  /\ dead' = [dead EXCEPT ![h] = Dead(f)]
  /\ step' = [step EXCEPT ![h] =
                IF f.kind = "machine" THEN "authenticate" ELSE "account"]
  /\ UNCHANGED <<tables>>

\* The errors of nodes.Authenticate, from one row.
Verdict(f) ==
  CASE ~exists[f.name] -> "notFound"
    [] exists[f.name] /\ revoked[f.name] -> "badToken"
    [] exists[f.name] /\ ~revoked[f.name] /\ secret[f.name] # f.gen ->
         "notFound"
    [] OTHER -> "accepted"

Authenticate(h) ==
  /\ step[h] = "authenticate"
  /\ step' = [step EXCEPT ![h] = Verdict(hello[h])]
  /\ UNCHANGED <<tables, hello, dead>>

\* AuthenticateToken, first query: byUsername.
AccountUsable(u) == account[u] = "enabled"

ByUsername(h) ==
  /\ step[h] = "account"
  /\ step' = [step EXCEPT ![h] =
                IF AccountUsable(hello[h].user) THEN "tokens" ELSE "notFound"]
  /\ UNCHANGED <<tables, hello, dead>>

\* Mutant: revoked tokens are tried as well.
TokenUsableRevoked(u, t) == token[t] \in {"live", "revoked"} /\ holder[t] = u

\* Second query: the account's live tokens, against which the secret is tried.
TokenUsable(u, t) == token[t] = "live" /\ holder[t] = u

TryTokens(h) ==
  /\ step[h] = "tokens"
  /\ step' = [step EXCEPT ![h] =
                IF TokenUsable(hello[h].user, hello[h].token)
                THEN "claim" ELSE "notFound"]
  /\ UNCHANGED <<tables, hello, dead>>

\* Mutant: the upsert has no WHERE.
ClaimableAny(n, u) == TRUE

\* EnsureOwned's WHERE: the name is free, or already this account's.
Claimable(n, u) == ~exists[n] \/ owner[n] = u

\* EnsureOwned: one upsert, which lifts a revocation.  The foreign key refuses
\* an account deleted meanwhile (a failure the node retries).
Claim(h) ==
  /\ step[h] = "claim"
  /\ LET n == hello[h].name
         u == hello[h].user IN
       IF ~exists[n] /\ account[u] = "deleted"
       THEN step' = [step EXCEPT ![h] = "idle"]
            /\ UNCHANGED <<exists, owner, revoked>>
       ELSE IF Claimable(n, u)
       THEN /\ exists' = [exists EXCEPT ![n] = TRUE]
            /\ owner' = [owner EXCEPT ![n] = IF exists[n] THEN @ ELSE u]
            /\ revoked' = [revoked EXCEPT ![n] = FALSE]
            /\ step' = [step EXCEPT ![h] = "accepted"]
       ELSE step' = [step EXCEPT ![h] = "why"]
            /\ UNCHANGED <<exists, owner, revoked>>
  /\ UNCHANGED <<account, holder, token, secret, hello, dead>>

\* whyNotClaimable
WhyNotClaimable(h) ==
  /\ step[h] = "why"
  /\ step' = [step EXCEPT ![h] =
                IF secret[hello[h].name] # 0 THEN "ownToken" ELSE "foreign"]
  /\ UNCHANGED <<tables, hello, dead>>

-----------------------------------------------------------------------------
People == \/ \E u \in User : \/ Create(u) \/ Delete(u)
                             \/ \E d \in BOOLEAN : SetDisabled(u, d)
                             \/ \E t \in Token : \/ MintToken(u, t)
                                                 \/ RevokeToken(u, t)
Operator == \E n \in Machine : Register(n) \/ Rotate(n) \/ Revoke(n)
Uplink == \E h \in Handshake :
            \/ \E f \in Hello : Arrive(h, f)
            \/ Authenticate(h) \/ ByUsername(h) \/ TryTokens(h) \/ Claim(h)
            \/ WhyNotClaimable(h)

Next == People \/ Operator \/ Uplink

Spec == Init /\ [][Next]_vars

-----------------------------------------------------------------------------
\* EnsureOwned: "otherwise guessing a colleague's machine name would be enough
\* to impersonate it"; whyNotClaimable reads its reason after the refusal.  What
\* a handshake decided stays true of the row, for as long as the connection
\* may live and whatever happens to the row: who was let in is who the name
\* belongs to, and who was told why it was not has been told the truth.
VerdictStands ==
  \A h \in Handshake :
    LET f == hello[h]
        n == hello[h].name IN
      /\ step[h] = "accepted" =>
           /\ exists[n]
           /\ IF f.kind = "user" THEN owner[n] = f.user ELSE secret[n] >= f.gen
      /\ step[h] = "ownToken" => secret[n] # 0
      /\ step[h] = "foreign" => owner[n] \notin {NoUser, f.user}

\* RevokeToken, SetDisabled, Delete, Revoke and Rotate: a credential that was
\* dead when the machine presented it is refused by every interleaving of the
\* handshake's queries.
DeadIsRefused == \A h \in Handshake : dead[h] => step[h] # "accepted"

\* nodes_one_credential: a machine has a token of its own or an owner, never
\* both and never neither, though Register, Rotate, EnsureOwned and Delete
\* each write only one of the two columns.
OneCredential ==
  \A n \in Machine : exists[n] => ((secret[n] # 0) <=> (owner[n] = NoUser))

\* Register, Rotate, EnsureOwned and Delete: a name never passes from one
\* account to another, nor between an account and a machine token.
OwnerStable ==
  [][\A n \in Machine : exists[n] => exists'[n] /\ owner'[n] = owner[n]]_vars

\* Revoke, Rotate and EnsureOwned: what lifts a revocation is a fresh machine
\* token, for a machine no account owns, or a claim by the owner whose
\* credential was good when it was presented; never a claim by anybody else.
RevocationHolds ==
  [][\A n \in Machine : revoked[n] /\ ~revoked'[n] =>
       \/ owner[n] = NoUser /\ secret'[n] > secret[n]
       \/ \E h \in Handshake :
            /\ step[h] = "claim" /\ step'[h] = "accepted" /\ ~dead[h]
            /\ hello[h].name = n /\ hello[h].user = owner[n]]_vars

-----------------------------------------------------------------------------
(* What messages and comments say, and the code does not do.               *)

\* cmd/dshf/main.go, node revoke: "it is refused at its next reconnect".
RevokedIsRefused ==
  [][\A h \in Handshake :
       step'[h] = "accepted" /\ step[h] # "accepted" =>
         ~revoked[hello[h].name]]_vars

\* internal/users/store.go, Delete: "Delete removes an account outright ...
\* any machine it enrolled keeps working until its next handshake".
DeleteDeletes ==
  \A u \in User : account[u] \in {"enabled", "disabled"} => ENABLED Delete(u)
=============================================================================

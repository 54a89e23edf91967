--------------------------- MODULE EnrolmentProofs ---------------------------
(***************************************************************************)
(* TLAPS proofs about Enrolment and the account page above it: for any     *)
(* accounts, tokens, machines and handshakes, and any number of secrets.   *)
(***************************************************************************)
EXTENDS AccountPage, TLAPS

-----------------------------------------------------------------------------
(* The inductive invariant.                                                *)

\* A row has one credential, a missing row none.
RowInv ==
  \A n \in Machine : IF exists[n] THEN (secret[n] # 0) <=> (owner[n] = NoUser)
                     ELSE secret[n] = 0 /\ owner[n] = NoUser /\ ~revoked[n]

\* A token row has a holder from the moment it exists.
TokenInv == \A t \in Token : token[t] = "none" <=> holder[t] = NoUser

\* A handshake works on a credential that was issued, by the way in that the
\* credential chose.
PathInv(h) ==
  /\ hello[h] # <<>> => Issued(hello[h])
  /\ step[h] # "idle" \/ dead[h] => hello[h] \in Hello
  /\ step[h] = "authenticate" => hello[h].kind = "machine"
  /\ step[h] \in {"account", "tokens", "claim", "why", "ownToken", "foreign"}
       => hello[h].kind = "user"

\* VerdictStands, of one handshake; one that asks why it was refused found the
\* row taken.
VerdictInv(h) ==
  /\ step[h] = "accepted" =>
       /\ exists[hello[h].name]
       /\ hello[h].kind = "user" => owner[hello[h].name] = hello[h].user
       /\ hello[h].kind = "machine" => secret[hello[h].name] >= hello[h].gen
  /\ step[h] \in {"why", "ownToken", "foreign"} =>
       exists[hello[h].name] /\ owner[hello[h].name] # hello[h].user
  /\ step[h] = "ownToken" => secret[hello[h].name] # 0
  /\ step[h] = "foreign" => owner[hello[h].name] # NoUser

\* A dead credential stays dead for as long as dead says so, and gets no further
\* than the query that notices.
DeadInv(h) ==
  dead[h] =>
    /\ Dead(hello[h])
    /\ step[h] \notin {"claim", "why", "accepted", "ownToken", "foreign"}
    /\ step[h] = "tokens" => token[hello[h].token] \in {"revoked", "gone"}

HandshakeInv(h) == PathInv(h) /\ VerdictInv(h) /\ DeadInv(h)

IInv == TypeOK /\ RowInv /\ TokenInv /\ \A h \in Handshake : HandshakeInv(h)

-----------------------------------------------------------------------------
\* What a hello carries.
LEMMA HelloFacts ==
  /\ <<>> \notin Hello
  /\ \A f \in Hello :
       /\ f.kind \in {"machine", "user"} /\ f.name \in Machine
       /\ f.kind = "machine" => f.gen \in 1 .. MaxSecrets
       /\ f.kind = "user" => f.user \in User /\ f.token \in Token
<1>1. ASSUME NEW f \in Hello
      PROVE /\ f.kind \in {"machine", "user"} /\ f.name \in Machine
            /\ f.kind = "machine" => f.gen \in 1 .. MaxSecrets
            /\ f.kind = "user" => f.user \in User /\ f.token \in Token
  BY DEF Hello
<1>2. \A f \in Hello : f # <<>>
  <2>1. \A f \in Hello : "name" \in DOMAIN f
    BY DEF Hello
  <2>2. DOMAIN <<>> = {}
    OBVIOUS
  <2> QED BY <2>1, <2>2
<1> QED BY <1>1, <1>2

\* Init establishes the invariant.
LEMMA IInit == Init => IInv
<1> SUFFICES ASSUME Init PROVE IInv
  OBVIOUS
<1>1. TypeOK
  BY EnrolmentAssumption DEF Init, TypeOK, Steps
<1>2. RowInv /\ TokenInv
  BY DEF Init, RowInv, TokenInv
<1>3. ASSUME NEW h \in Handshake PROVE HandshakeInv(h)
  BY DEF Init, HandshakeInv, PathInv, VerdictInv, DeadInv
<1> QED BY <1>1, <1>2, <1>3 DEF IInv

\* What no step takes back: a row and its owner, a machine token's generation, a
\* token's holder and its end, the end of an account; a revocation of a machine
\* with a token ends only in a new token.
Grows ==
  /\ \A n \in Machine : /\ exists[n] => exists'[n] /\ owner'[n] = owner[n]
                        /\ secret'[n] >= secret[n]
                        /\ revoked[n] /\ secret[n] # 0 =>
                             revoked'[n] \/ secret'[n] > secret[n]
  /\ \A t \in Token : /\ holder[t] # NoUser => holder'[t] = holder[t]
                      /\ token[t] \in {"revoked", "gone"} =>
                           token'[t] \in {"revoked", "gone"}
  /\ \A u \in User : account[u] = "deleted" => account'[u] = "deleted"

\* An account that is enabled again takes the handshakes with it that had
\* nothing else against them.
DeadStays(h) ==
  dead'[h] =>
    /\ dead[h]
    /\ hello[h].kind = "user" /\ account[hello[h].user] = "disabled" =>
         \/ account'[hello[h].user] \in {"disabled", "deleted"}
         \/ token[hello[h].token] \in {"revoked", "gone"}

\* A handshake that does not move keeps its invariant.
LEMMA Resting ==
  ASSUME IInv, Grows, NEW h \in Handshake, DeadStays(h),
         step'[h] = step[h], hello'[h] = hello[h], TypeOK'
  PROVE HandshakeInv(h)'
<1> USE DEF IInv, HandshakeInv
<1>1. CASE hello[h] = <<>>
  BY <1>1, HelloFacts DEF PathInv, VerdictInv, DeadInv, DeadStays, TypeOK
<1>2. CASE hello[h] \in Hello
  <2> DEFINE f == hello[h]
  <2>1. /\ f \in Hello /\ f # <<>> /\ Issued(f)
        /\ f.kind \in {"machine", "user"} /\ f.name \in Machine
        /\ f.kind = "machine" => f.gen \in 1 .. MaxSecrets
        /\ f.kind = "user" => f.user \in User /\ f.token \in Token
    BY <1>2, HelloFacts DEF PathInv
  <2>2. /\ secret[f.name] \in Nat /\ secret'[f.name] \in Nat
        /\ f.kind = "machine" => f.gen \in Nat \ {0}
    BY <2>1, EnrolmentAssumption DEF TypeOK
  <2>3. Issued(f)'
    BY <2>1, <2>2, EnrolmentAssumption DEF Issued, Grows
  <2>4. PathInv(h)'
    BY <2>1, <2>3 DEF PathInv, DeadStays
  <2>5. VerdictInv(h)'
    BY <2>1, <2>2 DEF VerdictInv, Grows
  <2>6. f.kind = "machine" => secret[f.name] # 0 /\ exists[f.name]
    BY <2>1, <2>2 DEF Issued, RowInv
  <2>7. ASSUME dead'[h] PROVE Dead(f)'
    <3>1. dead[h] /\ Dead(f)
      BY <2>7 DEF DeadStays, DeadInv
    <3>2. CASE f.kind = "machine"
      BY <2>1, <2>2, <2>6, <3>1, <3>2 DEF Dead, Grows, Issued
    <3>3. CASE f.kind = "user"
      BY <2>1, <2>7, <3>1, <3>3 DEF Dead, Grows, DeadStays
    <3> QED BY <2>1, <3>2, <3>3
  <2>8. DeadInv(h)'
    BY <2>1, <2>7 DEF DeadInv, DeadStays, Grows, PathInv
  <2> QED BY <2>4, <2>5, <2>8
<1> QED BY <1>1, <1>2 DEF TypeOK

\* A step on the tables that moves no handshake keeps the invariant.
LEMMA TablesMove ==
  ASSUME IInv, TypeOK', RowInv', TokenInv', Grows, UNCHANGED <<step, hello>>,
         \A h \in Handshake : DeadStays(h)
  PROVE IInv'
BY Resting DEF IInv

\* A handshake's step that leaves the tables alone keeps the others.
LEMMA HandshakeMoves ==
  ASSUME IInv, NEW h \in Handshake, UNCHANGED tables, TypeOK',
         HandshakeInv(h)',
         \A k \in Handshake \ {h} : /\ step'[k] = step[k] /\ hello'[k] = hello[k]
                                   /\ dead'[k] = dead[k]
  PROVE IInv'
<1>1. Grows
  BY EnrolmentAssumption DEF IInv, TypeOK, tables, Grows
<1>2. ASSUME NEW k \in Handshake \ {h} PROVE HandshakeInv(k)'
  <2>1. DeadStays(k)
    BY HelloFacts DEF IInv, HandshakeInv, PathInv, DeadStays, tables, TypeOK
  <2> QED BY <1>1, <2>1, Resting
<1>3. RowInv' /\ TokenInv'
  BY DEF IInv, RowInv, TokenInv, tables
<1> QED BY <1>2, <1>3 DEF IInv

\* Every step on accounts, tokens and machines keeps the invariant.
LEMMA TablesStep == IInv /\ (People \/ Operator) => IInv'
<1> SUFFICES ASSUME IInv, People \/ Operator PROVE IInv'
  OBVIOUS
<1>1. ASSUME NEW u \in User, Create(u) PROVE IInv'
  <2> USE <1>1 DEF Create, handshakes
  <2>1. TypeOK' /\ RowInv' /\ TokenInv'
    BY EnrolmentAssumption DEF IInv, TypeOK, RowInv, TokenInv
  <2>2. Grows
    BY EnrolmentAssumption DEF IInv, TypeOK, RowInv, TokenInv, Grows
  <2>3. \A h \in Handshake : DeadStays(h)
    BY HelloFacts DEF IInv, HandshakeInv, PathInv, DeadInv, TokenInv, Dead, Issued, DeadStays, TypeOK
  <2> QED BY <2>1, <2>2, <2>3, TablesMove
<1>2. ASSUME NEW u \in User, NEW d \in BOOLEAN, SetDisabled(u, d) PROVE IInv'
  <2> USE <1>2 DEF SetDisabled, handshakes
  <2>1. TypeOK' /\ RowInv' /\ TokenInv'
    BY EnrolmentAssumption DEF IInv, TypeOK, RowInv, TokenInv
  <2>2. Grows
    BY EnrolmentAssumption DEF IInv, TypeOK, RowInv, TokenInv, Grows
  <2>3. ASSUME NEW h \in Handshake, dead'[h], hello[h].kind = "user",
               account[hello[h].user] = "disabled"
        PROVE \/ account'[hello[h].user] \in {"disabled", "deleted"}
              \/ token[hello[h].token] \in {"revoked", "gone"}
    <3>1. dead[h] /\ ~(~d /\ hello[h].user = u /\ token[hello[h].token] = "live")
      BY <2>3
    <3>2. /\ hello[h].user \in User /\ hello[h].token \in Token
          /\ holder[hello[h].token] = hello[h].user
      BY <2>3, <3>1, HelloFacts
         DEF IInv, HandshakeInv, PathInv, Issued
    <3>3. token[hello[h].token] # "none"
      BY <3>2, EnrolmentAssumption DEF IInv, TokenInv
    <3>4. token[hello[h].token] \in {"live", "revoked", "gone"}
      BY <3>2, <3>3 DEF IInv, TypeOK
    <3>5. account'[hello[h].user] =
            IF hello[h].user = u THEN IF d THEN "disabled" ELSE "enabled"
            ELSE account[hello[h].user]
      BY <3>2 DEF IInv, TypeOK
    <3> QED BY <2>3, <3>1, <3>4, <3>5
  <2>4. \A h \in Handshake : DeadStays(h)
    BY <2>3 DEF DeadStays
  <2> QED BY <2>1, <2>2, <2>4, TablesMove
<1>3. ASSUME NEW u \in User, Delete(u) PROVE IInv'
  <2> USE <1>3 DEF Delete, handshakes
  <2>1. TypeOK' /\ RowInv' /\ TokenInv'
    BY EnrolmentAssumption DEF IInv, TypeOK, RowInv, TokenInv
  <2>2. Grows
    BY EnrolmentAssumption DEF IInv, TypeOK, RowInv, TokenInv, Grows
  <2>3. \A h \in Handshake : DeadStays(h)
    BY HelloFacts DEF IInv, HandshakeInv, PathInv, DeadInv, TokenInv, Dead, Issued, DeadStays, TypeOK
  <2> QED BY <2>1, <2>2, <2>3, TablesMove
<1>4. ASSUME NEW u \in User, NEW t \in Token, MintToken(u, t) PROVE IInv'
  <2> USE <1>4 DEF MintToken, handshakes
  <2>1. TypeOK' /\ RowInv' /\ TokenInv'
    BY EnrolmentAssumption DEF IInv, TypeOK, RowInv, TokenInv
  <2>2. Grows
    BY EnrolmentAssumption DEF IInv, TypeOK, RowInv, TokenInv, Grows
  <2>3. \A h \in Handshake : DeadStays(h)
    BY HelloFacts DEF IInv, HandshakeInv, PathInv, DeadInv, TokenInv, Dead, Issued, DeadStays, TypeOK
  <2> QED BY <2>1, <2>2, <2>3, TablesMove
<1>5. ASSUME NEW u \in User, NEW t \in Token, RevokeToken(u, t) PROVE IInv'
  <2> USE <1>5 DEF RevokeToken, handshakes
  <2>1. TypeOK' /\ RowInv' /\ TokenInv'
    BY EnrolmentAssumption DEF IInv, TypeOK, RowInv, TokenInv
  <2>2. Grows
    BY EnrolmentAssumption DEF IInv, TypeOK, RowInv, TokenInv, Grows
  <2>3. \A h \in Handshake : DeadStays(h)
    BY HelloFacts DEF IInv, HandshakeInv, PathInv, DeadInv, TokenInv, Dead, Issued, DeadStays, TypeOK
  <2> QED BY <2>1, <2>2, <2>3, TablesMove
<1>6. ASSUME NEW n \in Machine, Register(n) PROVE IInv'
  <2> USE <1>6 DEF Register, handshakes
  <2>1. TypeOK' /\ RowInv' /\ TokenInv'
    BY EnrolmentAssumption DEF IInv, TypeOK, RowInv, TokenInv
  <2>2. Grows
    BY EnrolmentAssumption DEF IInv, TypeOK, RowInv, TokenInv, Grows
  <2>3. \A h \in Handshake : DeadStays(h)
    BY HelloFacts DEF IInv, HandshakeInv, PathInv, DeadInv, TokenInv, Dead, Issued, DeadStays, TypeOK
  <2> QED BY <2>1, <2>2, <2>3, TablesMove
<1>7. ASSUME NEW n \in Machine, Rotate(n) PROVE IInv'
  <2> USE <1>7 DEF Rotate, handshakes
  <2>1. TypeOK' /\ RowInv' /\ TokenInv'
    BY EnrolmentAssumption DEF IInv, TypeOK, RowInv, TokenInv
  <2>2. Grows
    BY EnrolmentAssumption DEF IInv, TypeOK, RowInv, TokenInv, Grows
  <2>3. \A h \in Handshake : DeadStays(h)
    BY HelloFacts DEF IInv, HandshakeInv, PathInv, DeadInv, TokenInv, Dead, Issued, DeadStays, TypeOK
  <2> QED BY <2>1, <2>2, <2>3, TablesMove
<1>8. ASSUME NEW n \in Machine, Revoke(n) PROVE IInv'
  <2> USE <1>8 DEF Revoke, handshakes
  <2>1. TypeOK' /\ RowInv' /\ TokenInv'
    BY EnrolmentAssumption DEF IInv, TypeOK, RowInv, TokenInv
  <2>2. Grows
    BY EnrolmentAssumption DEF IInv, TypeOK, RowInv, TokenInv, Grows
  <2>3. \A h \in Handshake : DeadStays(h)
    BY HelloFacts DEF IInv, HandshakeInv, PathInv, DeadInv, TokenInv, Dead, Issued, DeadStays, TypeOK
  <2> QED BY <2>1, <2>2, <2>3, TablesMove
<1> QED BY <1>1, <1>2, <1>3, <1>4, <1>5, <1>6, <1>7, <1>8 DEF People, Operator

\* The step of one handshake: its next state, and nothing else.
LEMMA StepTo ==
  ASSUME IInv, NEW h \in Handshake, NEW s \in Steps,
         step' = [step EXCEPT ![h] = s], UNCHANGED <<hello, dead>>
  PROVE /\ step' \in [Handshake -> Steps] /\ step'[h] = s
        /\ \A k \in Handshake \ {h} : /\ step'[k] = step[k]
                                     /\ hello'[k] = hello[k]
                                     /\ dead'[k] = dead[k]
BY DEF IInv, TypeOK

\* Every step of a handshake keeps the invariant.
LEMMA UplinkStep == IInv /\ Uplink => IInv'
<1> SUFFICES ASSUME IInv, Uplink PROVE IInv'
  OBVIOUS
<1> USE DEF IInv, Steps, Ended
<1>1. ASSUME NEW h \in Handshake, NEW f \in Hello, Arrive(h, f) PROVE IInv'
  <2> USE <1>1 DEF Arrive
  <2>0. Dead(f) \in BOOLEAN /\ UNCHANGED tables
    BY HelloFacts DEF Dead, TypeOK
  <2>1. TypeOK'
    BY <2>0 DEF TypeOK, tables
  <2>2. /\ hello'[h] = f /\ dead'[h] = Dead(f) /\ f # <<>>
        /\ step'[h] = IF f.kind = "machine" THEN "authenticate" ELSE "account"
        /\ f.kind \in {"machine", "user"}
    BY HelloFacts DEF TypeOK
  <2>3. \A k \in Handshake \ {h} : /\ step'[k] = step[k] /\ hello'[k] = hello[k]
                                  /\ dead'[k] = dead[k]
    BY DEF TypeOK
  <2>4. Issued(f)' /\ Dead(f)' = Dead(f)
    BY <2>0 DEF Issued, Dead, tables
  <2>5. HandshakeInv(h)'
    BY <2>2, <2>4 DEF HandshakeInv, PathInv, VerdictInv, DeadInv
  <2> QED BY <2>0, <2>1, <2>3, <2>5, HandshakeMoves
<1>2. ASSUME NEW h \in Handshake, Authenticate(h) PROVE IInv'
  <2> DEFINE f == hello[h]
  <2> USE <1>2 DEF Authenticate
  <2>1. /\ f \in Hello /\ f.kind = "machine" /\ f.name \in Machine /\ f # <<>>
        /\ f.gen \in 1 .. MaxSecrets /\ Issued(f)
    BY HelloFacts DEF HandshakeInv, PathInv
  <2>2. Verdict(f) \in {"notFound", "badToken", "accepted"}
    BY DEF Verdict
  <2>3. /\ step' \in [Handshake -> Steps] /\ step'[h] = Verdict(f)
        /\ \A k \in Handshake \ {h} : /\ step'[k] = step[k]
                                     /\ hello'[k] = hello[k]
                                     /\ dead'[k] = dead[k]
    BY <2>2, StepTo
  <2>4. Verdict(f) = "accepted" =>
          exists[f.name] /\ ~revoked[f.name] /\ secret[f.name] = f.gen
    BY <2>1 DEF Verdict, TypeOK
  <2>5. TypeOK'
    BY <2>3 DEF TypeOK, tables
  <2>6. Verdict(f) = "accepted" => ~dead[h] /\ secret[f.name] >= f.gen
    BY <2>1, <2>4, EnrolmentAssumption DEF HandshakeInv, DeadInv, Dead
  <2>7. HandshakeInv(h)'
    <3>1. PathInv(h)'
      BY <2>1, <2>2, <2>3 DEF PathInv, Issued, tables
    <3>2. VerdictInv(h)'
      BY <2>1, <2>2, <2>3, <2>4, <2>6 DEF VerdictInv, tables
    <3>3. DeadInv(h)'
      BY <2>2, <2>3, <2>6 DEF HandshakeInv, DeadInv, Dead, tables
    <3> QED BY <3>1, <3>2, <3>3 DEF HandshakeInv
  <2> QED BY <2>3, <2>5, <2>7, HandshakeMoves
<1>3. ASSUME NEW h \in Handshake, ByUsername(h) PROVE IInv'
  <2> USE <1>3 DEF ByUsername
  <2>1. /\ hello[h] \in Hello /\ hello[h].kind = "user" /\ hello[h] # <<>>
        /\ Issued(hello[h])
    BY HelloFacts DEF HandshakeInv, PathInv
  <2>2. /\ step'[h] \in {"tokens", "notFound"} /\ step' \in [Handshake -> Steps]
        /\ step'[h] = "tokens" => account[hello[h].user] = "enabled"
        /\ UNCHANGED <<hello, dead>>
        /\ \A k \in Handshake \ {h} : step'[k] = step[k]
    BY DEF TypeOK, AccountUsable
  <2>3. TypeOK'
    BY <2>2 DEF TypeOK, tables
  <2>4. HandshakeInv(h)'
    BY <2>1, <2>2 DEF HandshakeInv, PathInv, VerdictInv, DeadInv, Dead, Issued,
                      tables
  <2> QED BY <2>2, <2>3, <2>4, HandshakeMoves
<1>4. ASSUME NEW h \in Handshake, TryTokens(h) PROVE IInv'
  <2> USE <1>4 DEF TryTokens
  <2>1. /\ hello[h] \in Hello /\ hello[h].kind = "user" /\ hello[h] # <<>>
        /\ Issued(hello[h])
    BY HelloFacts DEF HandshakeInv, PathInv
  <2>2. /\ step'[h] \in {"claim", "notFound"} /\ step' \in [Handshake -> Steps]
        /\ step'[h] = "claim" => token[hello[h].token] = "live"
        /\ UNCHANGED <<hello, dead>>
        /\ \A k \in Handshake \ {h} : step'[k] = step[k]
    BY DEF TypeOK, TokenUsable
  <2>3. TypeOK'
    BY <2>2 DEF TypeOK, tables
  <2>4. HandshakeInv(h)'
    BY <2>1, <2>2 DEF HandshakeInv, PathInv, VerdictInv, DeadInv, Dead, Issued,
                      tables
  <2> QED BY <2>2, <2>3, <2>4, HandshakeMoves
<1>5. ASSUME NEW h \in Handshake, WhyNotClaimable(h) PROVE IInv'
  <2> USE <1>5 DEF WhyNotClaimable
  <2>1. /\ hello[h] \in Hello /\ hello[h].kind = "user" /\ hello[h] # <<>>
        /\ Issued(hello[h]) /\ hello[h].name \in Machine /\ ~dead[h]
        /\ exists[hello[h].name] /\ owner[hello[h].name] # hello[h].user
    BY HelloFacts DEF HandshakeInv, PathInv, VerdictInv, DeadInv
  <2>2. /\ step'[h] \in {"ownToken", "foreign"} /\ step' \in [Handshake -> Steps]
        /\ step'[h] = "ownToken" => secret[hello[h].name] # 0
        /\ step'[h] = "foreign" => owner[hello[h].name] # NoUser
        /\ UNCHANGED <<hello, dead>>
        /\ \A k \in Handshake \ {h} : step'[k] = step[k]
    BY <2>1 DEF TypeOK, RowInv
  <2>3. TypeOK'
    BY <2>2 DEF TypeOK, tables
  <2>4. HandshakeInv(h)'
    BY <2>1, <2>2 DEF HandshakeInv, PathInv, VerdictInv, DeadInv, Issued, tables
  <2> QED BY <2>2, <2>3, <2>4, HandshakeMoves
<1>6. ASSUME NEW h \in Handshake, Claim(h) PROVE IInv'
  <2> DEFINE n == hello[h].name
             u == hello[h].user
  <2> USE <1>6 DEF Claim
  <2>1. /\ hello[h] \in Hello /\ hello[h].kind = "user" /\ hello[h] # <<>>
        /\ Issued(hello[h]) /\ n \in Machine /\ u \in User /\ ~dead[h]
        /\ u # NoUser
    BY HelloFacts, EnrolmentAssumption
       DEF HandshakeInv, PathInv, VerdictInv, DeadInv
  <2>2. /\ UNCHANGED <<account, holder, token, secret, hello, dead>>
        /\ step' \in [Handshake -> Steps]
        /\ \A k \in Handshake \ {h} : step'[k] = step[k]
    BY DEF TypeOK
  <2>3. \/ step'[h] = "idle" /\ UNCHANGED <<exists, owner, revoked>>
        \/ /\ step'[h] = "why" /\ UNCHANGED <<exists, owner, revoked>>
           /\ exists[n] /\ owner[n] # u
        \/ /\ step'[h] = "accepted" /\ exists' = [exists EXCEPT ![n] = TRUE]
           /\ owner' = [owner EXCEPT ![n] = u] /\ secret[n] = 0
           /\ revoked' = [revoked EXCEPT ![n] = FALSE]
           /\ exists[n] => owner[n] = u
    <3>1. ASSUME exists[n], owner[n] = u PROVE owner = [owner EXCEPT ![n] = u]
      BY <2>1, <3>1 DEF TypeOK
    <3> QED BY <2>1, <3>1 DEF Claimable, TypeOK, RowInv
  <2>4. TypeOK'
    BY <2>1, <2>2, <2>3 DEF TypeOK
  <2>a. /\ exists[n] => exists'[n] /\ owner'[n] = owner[n]
        /\ (exists'[n] = exists[n] /\ owner'[n] = owner[n] /\ revoked'[n] = revoked[n])
           \/ (exists'[n] = TRUE /\ owner'[n] = u /\ secret[n] = 0)
        /\ revoked'[n] = revoked[n] \/ secret[n] = 0
        /\ \A m \in Machine \ {n} : /\ exists'[m] = exists[m] /\ owner'[m] = owner[m]
                                  /\ revoked'[m] = revoked[m]
    BY <2>1, <2>3 DEF TypeOK
  <2>5. RowInv' /\ TokenInv'
    BY <2>1, <2>2, <2>a DEF RowInv, TokenInv
  <2>6. Grows
    <3>1. \A m \in Machine : secret[m] >= secret[m]
      BY EnrolmentAssumption DEF TypeOK
    <3> QED BY <2>1, <2>2, <2>a, <3>1 DEF Grows
  <2>7. HandshakeInv(h)'
    BY <2>1, <2>2, <2>3 DEF TypeOK, HandshakeInv, PathInv, VerdictInv, DeadInv,
                            Issued
  <2>8. ASSUME NEW k \in Handshake \ {h} PROVE HandshakeInv(k)'
    <3>1. DeadStays(k)
      BY <2>2 DEF DeadStays, HandshakeInv, PathInv, TypeOK
    <3> QED BY <2>2, <2>4, <2>6, <3>1, Resting
  <2> QED BY <2>4, <2>5, <2>7, <2>8
<1> QED BY <1>1, <1>2, <1>3, <1>4, <1>5, <1>6 DEF Uplink

\* Every step of Enrolment keeps the invariant.
LEMMA IStep == IInv /\ [Next]_vars => IInv'
<1> SUFFICES ASSUME IInv, [Next]_vars PROVE IInv'
  OBVIOUS
<1>1. CASE UNCHANGED vars
  <2>1. TypeOK' /\ RowInv' /\ TokenInv' /\ UNCHANGED <<step, hello>>
    BY <1>1 DEF IInv, TypeOK, RowInv, TokenInv, vars, tables, handshakes
  <2>2. Grows
    BY <1>1, EnrolmentAssumption DEF IInv, TypeOK, Grows, vars, tables
  <2>3. \A h \in Handshake : DeadStays(h)
    BY <1>1, HelloFacts DEF IInv, HandshakeInv, PathInv, DeadStays, TypeOK,
                            vars, tables, handshakes
  <2> QED BY <2>1, <2>2, <2>3, TablesMove
<1> QED BY <1>1, TablesStep, UplinkStep DEF Next

\* What the invariant says of the verdicts, the rows and the dead credentials.
LEMMA IInvImplies == IInv => VerdictStands /\ DeadIsRefused /\ OneCredential
<1> SUFFICES ASSUME IInv
             PROVE VerdictStands /\ DeadIsRefused /\ OneCredential
  OBVIOUS
<1>1. ASSUME NEW h \in Handshake, step[h] = "accepted", hello[h].kind # "user"
      PROVE secret[hello[h].name] >= hello[h].gen
  BY <1>1, HelloFacts DEF IInv, HandshakeInv, PathInv, VerdictInv
<1>2. VerdictStands
  BY <1>1 DEF IInv, HandshakeInv, VerdictInv, VerdictStands
<1>3. DeadIsRefused
  BY DEF IInv, HandshakeInv, DeadInv, DeadIsRefused
<1>4. OneCredential
  BY DEF IInv, RowInv, OneCredential
<1> QED BY <1>2, <1>3, <1>4

\* No step takes a row or its owner away.
LEMMA OwnerStep ==
  IInv /\ [Next]_vars =>
    \A n \in Machine : exists[n] => exists'[n] /\ owner'[n] = owner[n]
<1> SUFFICES ASSUME IInv, [Next]_vars, NEW n \in Machine, exists[n]
             PROVE exists'[n] /\ owner'[n] = owner[n]
  OBVIOUS
<1> USE DEF IInv, TypeOK
<1>1. CASE UNCHANGED <<exists, owner>>
  BY <1>1
<1>2. ASSUME NEW m \in Machine, Register(m) PROVE exists'[n] /\ owner'[n] = owner[n]
  BY <1>2 DEF Register
<1>3. ASSUME NEW h \in Handshake, Claim(h) PROVE exists'[n] /\ owner'[n] = owner[n]
  <2>1. hello[h].name \in Machine
    BY <1>3, HelloFacts DEF Claim, HandshakeInv, PathInv
  <2> QED BY SMTT(30), <1>3, <2>1 DEF Claim
<1>4. CASE People
  BY <1>4, <1>1 DEF People, Create, SetDisabled, Delete, MintToken, RevokeToken
<1>5. CASE Operator
  BY <1>5, <1>1, <1>2 DEF Operator, Rotate, Revoke
<1>6. CASE Uplink
  BY <1>6, <1>1, <1>3 DEF Uplink, Arrive, Authenticate, ByUsername, TryTokens,
                          WhyNotClaimable, tables
<1> QED BY <1>1, <1>4, <1>5, <1>6 DEF Next, vars, tables

\* What may lift the revocation of n in a step.
Lifted(n) ==
  \/ owner[n] = NoUser /\ secret'[n] > secret[n]
  \/ \E h \in Handshake :
       /\ step[h] = "claim" /\ step'[h] = "accepted" /\ ~dead[h]
       /\ hello[h].name = n /\ hello[h].user = owner[n]

\* Only Rotate and the owner's Claim lift a revocation.
LEMMA RevocationStep ==
  IInv /\ [Next]_vars =>
    \A n \in Machine : revoked[n] /\ ~revoked'[n] => Lifted(n)
<1> SUFFICES ASSUME IInv, [Next]_vars, NEW n \in Machine, revoked[n], ~revoked'[n]
             PROVE Lifted(n)
  OBVIOUS
<1> USE DEF IInv, TypeOK
<1>1. revoked' # revoked
  OBVIOUS
<1>2. ASSUME NEW m \in Machine, Rotate(m) PROVE Lifted(n)
  <2>1. m = n /\ secret[n] \in Nat /\ secret'[n] = secret[n] + 1
    BY <1>2, EnrolmentAssumption DEF Rotate
  <2> QED BY <1>2, <2>1 DEF Rotate, Lifted
<1>3. ASSUME NEW m \in Machine, Revoke(m) PROVE FALSE
  BY <1>3 DEF Revoke
<1>4. ASSUME NEW h \in Handshake, Claim(h) PROVE Lifted(n)
  <2>1. hello[h].name \in Machine /\ ~dead[h] /\ step[h] = "claim"
    BY <1>4, HelloFacts DEF Claim, HandshakeInv, PathInv, DeadInv
  <2>2. hello[h].name = n /\ Claimable(n, hello[h].user) /\ step'[h] = "accepted"
    BY <1>1, <1>4, <2>1 DEF Claim
  <2>3. exists[n]
    BY DEF RowInv
  <2> QED BY <2>1, <2>2, <2>3 DEF Claimable, Lifted
<1> QED BY <1>1, <1>2, <1>3, <1>4
        DEF Next, People, Operator, Uplink, Create, SetDisabled, Delete,
            MintToken, RevokeToken, Register, Arrive, Authenticate, ByUsername,
            TryTokens, WhyNotClaimable, vars, tables

-----------------------------------------------------------------------------
(* The account page.                                                       *)

\* A plaintext is in one place: on its way into the map, in the map, or gone
\* from the process; only a gone one was ever shown, to its holder.
RevealInv(t) ==
  /\ reveal[t] \in {"none", "minted", "fresh", "stale", "gone"}
  /\ shown[t] = <<>> \/ shown[t] = <<holder[t]>>
  /\ reveal[t] # "none" => token[t] # "none"
  /\ shown[t] # <<>> => reveal[t] = "gone"

PageInv ==
  /\ IInv
  /\ reveal \in [Token -> {"none", "minted", "fresh", "stale", "gone"}]
  /\ shown \in [Token -> Seq(User \cup {NoUser})]
  /\ \A t \in Token : RevealInv(t)

\* Tokens change hands with nobody, and no row disappears, in the steps below
\* the page.
LEMMA TokensStay ==
  ASSUME IInv, [Next]_vars, NEW t \in Token, token[t] # "none"
  PROVE token'[t] # "none" /\ holder'[t] = holder[t]
BY DEF IInv, TypeOK, Next, People, Operator, Uplink, Create, SetDisabled, Delete,
       MintToken, RevokeToken, Register, Rotate, Revoke, Arrive, Authenticate,
       ByUsername, TryTokens, Claim, WhyNotClaimable, vars, tables, handshakes

\* PageInit establishes the page's invariant.
LEMMA PageInvInit == PageInit => PageInv
<1> SUFFICES ASSUME PageInit PROVE PageInv
  OBVIOUS
<1>1. <<>> \in Seq(User \cup {NoUser})
  OBVIOUS
<1> QED BY <1>1, IInit DEF PageInit, PageInv, RevealInv

\* A restart ends every handshake and keeps the tables.
LEMMA RestartKeeps == ASSUME PageInv, Restart PROVE IInv'
<1> USE DEF PageInv, IInv, Restart
<1>1. TypeOK'
  BY DEF TypeOK, tables, Steps
<1>2. RowInv' /\ TokenInv'
  BY DEF RowInv, TokenInv, tables
<1>3. ASSUME NEW h \in Handshake PROVE HandshakeInv(h)'
  BY DEF HandshakeInv, PathInv, VerdictInv, DeadInv, Dead, Issued, tables
<1> QED BY <1>1, <1>2, <1>3

\* Every step of the page keeps its invariant.
LEMMA PageStep == PageInv /\ [PageNext]_<<vars, pageVars>> => PageInv'
<1> SUFFICES ASSUME PageInv, [PageNext]_<<vars, pageVars>> PROVE PageInv'
  OBVIOUS
<1> USE DEF PageInv
<1>1. ASSUME NEW u \in User, NEW t \in Token, Mint(u, t) PROVE PageInv'
  <2>1. Next
    BY <1>1 DEF Mint, Next, People
  <2>2. IInv'
    BY <2>1, IStep
  <2>3. token'[t] = "live" /\ reveal[t] = "none" /\ shown[t] = <<>>
    BY <1>1 DEF Mint, MintToken, IInv, TypeOK, RevealInv
  <2>4. RevealInv(t)'
    BY <1>1, <2>3 DEF Mint, RevealInv
  <2>5. ASSUME NEW k \in Token, k # t PROVE RevealInv(k)'
    BY <1>1, <2>5 DEF Mint, MintToken, IInv, TypeOK, RevealInv
  <2> QED BY <1>1, <2>2, <2>4, <2>5 DEF Mint
<1>2. ASSUME NEW u \in User, NEW t \in Token, Collect(u, t) PROVE PageInv'
  <2>1. IInv'
    BY <1>2, IStep DEF Collect
  <2>2. shown[t] = <<>> /\ reveal'[t] = "gone" /\ reveal[t] # "none"
        /\ UNCHANGED <<token, holder>>
    BY <1>2 DEF Collect, RevealInv, vars, tables
  <2>3. <<u>> \in Seq(User \cup {NoUser}) /\ Append(shown[t], u) = <<u>>
    BY <2>2
  <2>4. shown'[t] = <<>> \/ (shown'[t] = <<u>> /\ u = holder[t])
    BY <1>2, <2>2, <2>3 DEF Collect
  <2>5. \A k \in Token \ {t} : shown'[k] = shown[k] /\ reveal'[k] = reveal[k]
    BY <1>2 DEF Collect
  <2>6. /\ reveal' \in [Token -> {"none", "minted", "fresh", "stale", "gone"}]
        /\ shown' \in [Token -> Seq(User \cup {NoUser})]
    BY <1>2, <2>3 DEF Collect
  <2>7. \A k \in Token : RevealInv(k)'
    BY <2>2, <2>4, <2>5 DEF RevealInv
  <2> QED BY <2>1, <2>6, <2>7
<1>3. ASSUME NEW t \in Token, Stash(t) \/ Ages(t) PROVE PageInv'
  <2>1. IInv'
    BY <1>3, IStep DEF Stash, Ages
  <2>2. reveal' \in [Token -> {"none", "minted", "fresh", "stale", "gone"}]
    BY <1>3 DEF Stash, Ages
  <2>3. ASSUME NEW k \in Token PROVE RevealInv(k)'
    BY <1>3 DEF Stash, Ages, RevealInv, vars, tables
  <2> QED BY <1>3, <2>1, <2>2, <2>3 DEF Stash, Ages
<1>4. CASE Restart
  BY <1>4, RestartKeeps DEF Restart, RevealInv, tables
<1>5. CASE [Next]_vars /\ UNCHANGED pageVars
  <2>1. IInv'
    BY <1>5, IStep
  <2>2. ASSUME NEW t \in Token PROVE RevealInv(t)'
    <3>1. token[t] # "none" => token'[t] # "none" /\ holder'[t] = holder[t]
      BY <1>5, TokensStay
    <3> QED BY <1>5, <3>1 DEF RevealInv, pageVars
  <2> QED BY <1>5, <2>1, <2>2 DEF pageVars
<1> QED BY <1>1, <1>2, <1>3, <1>4, <1>5 DEF PageNext, Page, Next

\* A step of the page is one of the tables, or leaves names and owners alone.
LEMMA PageOwnerStep ==
  PageInv /\ [PageNext]_<<vars, pageVars>> =>
    \A n \in Machine : exists[n] => exists'[n] /\ owner'[n] = owner[n]
<1> SUFFICES ASSUME PageInv, [PageNext]_<<vars, pageVars>>
             PROVE \A n \in Machine : exists[n] => exists'[n] /\ owner'[n] = owner[n]
  OBVIOUS
<1>1. [Next]_vars \/ UNCHANGED tables
  BY DEF PageNext, Page, Mint, Collect, Stash, Ages, Restart, Next, People, vars
<1> QED BY <1>1, OwnerStep DEF PageInv, tables

-----------------------------------------------------------------------------
\* nodes and users stores, the handshake and the account page: every variable
\* keeps its type, and the invariant behind the theorems below holds.
THEOREM PageInvariant == PageSpec => []PageInv
BY PageInvInit, PageStep, PTL DEF PageSpec

\* uplink.go, ServeHTTP and enrol, against every write of the two stores: what a
\* handshake decided stays true of the row.
THEOREM VerdictsStand == PageSpec => []VerdictStands
<1>1. PageInv => VerdictStands
  BY IInvImplies DEF PageInv
<1> QED BY <1>1, PageInvariant, PTL

\* ... a credential that was dead when it was presented is refused.
THEOREM DeadAreRefused == PageSpec => []DeadIsRefused
<1>1. PageInv => DeadIsRefused
  BY IInvImplies DEF PageInv
<1> QED BY <1>1, PageInvariant, PTL

\* nodes_one_credential: an own token or an owner, never both, never neither.
THEOREM CredentialsAreOne == PageSpec => []OneCredential
<1>1. PageInv => OneCredential
  BY IInvImplies DEF PageInv
<1> QED BY <1>1, PageInvariant, PTL

\* EnsureOwned, Register, Rotate and Delete: a name keeps its owner.
THEOREM OwnersAreStable == PageSpec => OwnerStable
<1>1. PageInv /\ [PageNext]_<<vars, pageVars>> =>
        [\A n \in Machine : exists[n] => exists'[n] /\ owner'[n] = owner[n]]_vars
  BY PageOwnerStep
<1> QED BY <1>1, PageInvariant, PTL DEF PageSpec, OwnerStable

\* Revoke, Rotate and EnsureOwned: only a new machine token or a claim by the
\* owner, with a credential that was good when presented, lifts a revocation.
THEOREM RevocationsHold == PageSpec => RevocationHolds
<1>1. PageInv /\ [PageNext]_<<vars, pageVars>> =>
        [\A n \in Machine : revoked[n] /\ ~revoked'[n] => Lifted(n)]_vars
  <2> SUFFICES ASSUME PageInv, [PageNext]_<<vars, pageVars>>
               PROVE \A n \in Machine : revoked[n] /\ ~revoked'[n] => Lifted(n)
    OBVIOUS
  <2>1. [Next]_vars \/ UNCHANGED tables
    BY DEF PageNext, Page, Mint, Collect, Stash, Ages, Restart, Next, People, vars
  <2> QED BY <2>1, RevocationStep DEF PageInv, tables
<1> QED BY <1>1, PageInvariant, PTL DEF PageSpec, RevocationHolds, Lifted

\* account.go, collect: a plaintext is rendered at most once, for its holder, and
\* is then nowhere in the process.
THEOREM RevealsShowOnce == PageSpec => []ShownOnce
<1>1. PageInv => ShownOnce
  <2> SUFFICES ASSUME PageInv, NEW t \in Token
               PROVE /\ Len(shown[t]) <= 1
                     /\ shown[t] # <<>> => /\ shown[t] = <<holder[t]>>
                                          /\ token[t] # "none"
                                          /\ reveal[t] = "gone"
    BY DEF ShownOnce
  <2>1. \A x : Len(<<x>>) <= 1
    OBVIOUS
  <2>2. Len(<<>>) <= 1
    OBVIOUS
  <2>3. RevealInv(t)
    BY DEF PageInv
  <2>4. token[t] # "none" \/ reveal[t] = "none"
    BY <2>3 DEF RevealInv
  <2>6. Len(shown[t]) <= 1
    BY <2>1, <2>2, <2>3, Zenon DEF RevealInv
  <2>7. shown[t] # <<>> => /\ shown[t] = <<holder[t]>> /\ token[t] # "none"
                          /\ reveal[t] = "gone"
    BY <2>3, <2>4, Zenon DEF RevealInv
  <2> QED BY <2>6, <2>7
<1> QED BY <1>1, PageInvariant, PTL
==============================================================================

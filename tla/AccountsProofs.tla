---------------------------- MODULE AccountsProofs ----------------------------
(***************************************************************************)
(* TLAPS proofs about Accounts, for any accounts, sessions and logins and  *)
(* any number of failing queries.                                          *)
(***************************************************************************)
EXTENDS Accounts, FiniteSetTheorems, TLAPS

-----------------------------------------------------------------------------
(* The inductive invariants.                                               *)

\* A session that still exists, expired or not, is of an account that exists,
\* and of a login that the sign-outs since then have seen.
SessionInv ==
  \A s \in Session : session[s] # "none" =>
    /\ account[holder[s]] \in Present
    /\ since[s] = epoch[holder[s]] \/ raced[s]

\* The same of a login between its two queries.
LoginInv ==
  \A l \in Login : login[l] # Idle =>
    login[l].since = epoch[login[l].user] \/ login[l].raced

AccountInv == TypeOK /\ SessionInv /\ LoginInv

\* A change is of an account that was created.
OfAnAccount(q) == req[q] # Idle => account[req[q].target] # "none"

\* One that refuseLockout has let through, on the strength of what is still so,
\* leaves an administrator if there is one.
Harmless(q) ==
  /\ req[q] # Idle /\ req[q].step = "apply" /\ req[q].action \in Guarded
  /\ ~req[q].raced /\ ~req[q].unchecked
  => Admins = {} \/ \E u \in Admins : u # req[q].target

GuardInv == TypeOK /\ \A q \in Request : OfAnAccount(q) /\ Harmless(q)

-----------------------------------------------------------------------------
(* Types.                                                                  *)

\* What the fields of a login and of a change are, and what is one.
LEMMA LoginFields ==
  /\ \A u \in User, n \in 0 .. MaxSignOuts, r \in BOOLEAN :
       [user |-> u, since |-> n, raced |-> r] \in LoginState
  /\ \A x \in LoginState : /\ x.user \in User /\ x.since \in 0 .. MaxSignOuts
                           /\ x.raced \in BOOLEAN
                           /\ [x EXCEPT !.raced = TRUE] \in LoginState
                           /\ [x EXCEPT !.raced = TRUE].user = x.user
                           /\ [x EXCEPT !.raced = TRUE].raced
BY DEF LoginState

LEMMA RequestFields ==
  /\ \A p \in {"check", "count", "apply"}, u \in User, a \in Actions :
       [step |-> p, target |-> u, action |-> a, raced |-> FALSE,
        unchecked |-> FALSE] \in RequestState
  /\ \A x \in RequestState :
       /\ x.target \in User /\ x.action \in Actions
       /\ x.step \in {"check", "count", "apply"}
       /\ [x EXCEPT !.raced = TRUE] \in RequestState
       /\ [x EXCEPT !.raced = TRUE].raced
       /\ [x EXCEPT !.raced = TRUE].target = x.target
       /\ \A p \in {"check", "count", "apply"} :
            /\ [x EXCEPT !.step = p] \in RequestState
            /\ [x EXCEPT !.step = p].step = p
            /\ [x EXCEPT !.step = p].target = x.target
            /\ LET y == [x EXCEPT !.step = p, !.unchecked = TRUE]
               IN y \in RequestState /\ y.unchecked /\ y.target = x.target
BY DEF RequestState

\* The account of a login and of a change.
LEMMA Targets ==
  ASSUME TypeOK
  PROVE  /\ \A l \in Login : login[l] # Idle => login[l] \in LoginState
         /\ \A q \in Request : req[q] # Idle => /\ req[q] \in RequestState
                                                /\ req[q].target \in User
<1>1. \A l \in Login : login[l] # Idle => login[l] \in LoginState
  BY DEF TypeOK
<1>2. \A q \in Request : req[q] # Idle => req[q] \in RequestState
  BY DEF TypeOK
<1> QED BY <1>1, <1>2, RequestFields

\* Init establishes the types.
LEMMA TypeInit == Init => TypeOK
BY AccountsAssumption DEF Init, TypeOK, Present

\* A sign-out keeps the types.
LEMMA SignOutTypes ==
  ASSUME TypeOK, NEW u \in User, SignOut(u)
  PROVE  /\ epoch' \in [User -> 0 .. MaxSignOuts]
         /\ session' \in [Session -> {"none", "live", "expired"}]
         /\ login' \in [Login -> LoginState \cup {Idle}]
<1>1. epoch' \in [User -> 0 .. MaxSignOuts]
  <2>1. epoch[u] \in 0 .. MaxSignOuts /\ epoch[u] < MaxSignOuts
    BY DEF TypeOK, SignOut
  <2>2. epoch[u] + 1 \in 0 .. MaxSignOuts
    BY <2>1, AccountsAssumption
  <2> QED BY <2>2 DEF TypeOK, SignOut
<1>2. session' \in [Session -> {"none", "live", "expired"}]
  BY DEF TypeOK, SignOut
<1>3. login' \in [Login -> LoginState \cup {Idle}]
  <2>1. \A l \in Login : login[l] # Idle =>
          [login[l] EXCEPT !.raced = TRUE] \in LoginState
    BY Targets, LoginFields
  <2> QED BY <2>1 DEF TypeOK, SignOut
<1> QED BY <1>1, <1>2, <1>3

\* Every step keeps the types.
LEMMA TypeStep == TypeOK /\ [Next]_vars => TypeOK'
<1> SUFFICES ASSUME TypeOK, [Next]_vars PROVE TypeOK'
  OBVIOUS
<1> USE DEF userVars, sessionVars
<1>1. ASSUME NEW u \in User, NEW a \in BOOLEAN, Create(u, a) PROVE TypeOK'
  BY <1>1 DEF Create, TypeOK, Present
<1>2. ASSUME NEW l \in Login, NEW u \in User, Authenticate(l, u) PROVE TypeOK'
  <2>0. epoch[u] \in 0 .. MaxSignOuts
    BY DEF TypeOK
  <2>1. [user |-> u, since |-> epoch[u], raced |-> FALSE] \in LoginState
    BY <2>0, LoginFields
  <2> QED BY <1>2, <2>1 DEF Authenticate, TypeOK
<1>3. ASSUME NEW l \in Login, NEW s \in Session, StartSession(l, s) PROVE TypeOK'
  <2>1. login[l] \in LoginState
    BY <1>3 DEF StartSession, TypeOK
  <2>2. /\ login[l].user \in User /\ login[l].since \in 0 .. MaxSignOuts
        /\ login[l].raced \in BOOLEAN
    BY <2>1, LoginFields
  <2> QED BY <1>3, <2>2 DEF StartSession, TypeOK
<1>4. CASE \/ \E s \in Session : EndSession(s) \/ Expire(s)
           \/ PurgeExpiredSessions
  BY <1>4 DEF EndSession, Expire, PurgeExpiredSessions, TypeOK
<1>5. ASSUME NEW q \in Request, NEW s \in Session, ChangePassword(q, s)
      PROVE  TypeOK'
  <2>0. holder[s] \in User
    BY DEF TypeOK
  <2>1. [step |-> "apply", target |-> holder[s], action |-> "reset", raced |-> FALSE,
           unchecked |-> FALSE] \in RequestState
    BY <2>0, RequestFields DEF Actions
  <2> QED BY <1>5, <2>1 DEF ChangePassword, Ask, TypeOK
<1>6. ASSUME NEW q \in Request, NEW u \in User, OperatorReset(q, u) PROVE TypeOK'
  <2>1. [step |-> "apply", target |-> u, action |-> "reset", raced |-> FALSE,
           unchecked |-> FALSE] \in RequestState
    BY RequestFields DEF Actions
  <2> QED BY <1>6, <2>1 DEF OperatorReset, Ask, TypeOK
<1>7. ASSUME NEW q \in Request, NEW s \in Session, NEW u \in User, NEW a \in Actions,
             Update(q, s, u, a)
      PROVE  TypeOK'
  <2>1. \A p \in {"check", "apply"} :
          [step |-> p, target |-> u, action |-> a, raced |-> FALSE,
           unchecked |-> FALSE] \in RequestState
    BY RequestFields
  <2> QED BY <1>7, <2>1 DEF Update, Ask, TypeOK
<1>8. ASSUME NEW q \in Request, NEW x \in RequestState \cup {Idle},
             req' = [req EXCEPT ![q] = x],
             UNCHANGED <<userVars, sessionVars, login>>, faults' \in 0 .. MaxFaults
      PROVE  TypeOK'
  BY <1>8 DEF TypeOK
<1>9. ASSUME NEW q \in Request,
             TargetIsAdmin(q) \/ TargetUnknown(q) \/ CountAdmins(q) \/ RequestFails(q)
      PROVE  TypeOK'
  <2>1. faults' \in 0 .. MaxFaults
    BY <1>9, AccountsAssumption DEF TargetIsAdmin, TargetUnknown, CountAdmins,
      RequestFails, Fault, TypeOK
  <2>2. /\ req[q] # Idle /\ req \in [Request -> RequestState \cup {Idle}]
        /\ UNCHANGED <<userVars, sessionVars, login>>
        /\ \/ req' = [req EXCEPT ![q] = Idle]
           \/ \E p \in {"count", "apply"} :
                req' = [req EXCEPT ![q] = [req[q] EXCEPT !.step = p]]
           \/ req' = [req EXCEPT ![q] =
                       [req[q] EXCEPT !.step = "apply", !.unchecked = TRUE]]
    BY <1>9 DEF TargetIsAdmin, TargetUnknown, CountAdmins, RequestFails, TypeOK
  <2>3. /\ \A p \in {"count", "apply"} : [req[q] EXCEPT !.step = p] \in RequestState
        /\ [req[q] EXCEPT !.step = "apply", !.unchecked = TRUE] \in RequestState
    BY <2>2, Targets, RequestFields
  <2> QED BY <1>8, <2>1, <2>2, <2>3
<1>10. ASSUME NEW q \in Request, Apply(q) PROVE TypeOK'
  <2> DEFINE u == req[q].target  a == req[q].action
  <2>1. /\ UNCHANGED <<holder, since, raced, faults>>
        /\ Changes(u, a) \/ UNCHANGED <<userVars, session, login>>
    BY <1>10 DEF Apply
  <2>2. u \in User
    BY <1>10, Targets DEF Apply
  <2> HIDE DEF u, a
  <2>3. req' \in [Request -> RequestState \cup {Idle}]
    <3>1. \A p \in Request : req[p] # Idle =>
            [req[p] EXCEPT !.raced = TRUE] \in RequestState
      BY Targets, RequestFields
    <3> QED BY <1>10, <3>1 DEF Apply, TypeOK
  <2>4. CASE UNCHANGED <<userVars, session, login>>
    BY <2>1, <2>3, <2>4 DEF TypeOK
  <2>5. CASE Changes(u, a)
    <3>1. CASE SignOut(u) /\ UNCHANGED admin /\
               (account' = account \/ account' = [account EXCEPT ![u] = "disabled"])
      BY <2>1, <2>2, <2>3, <3>1, SignOutTypes DEF TypeOK, Present
    <3>2. CASE UNCHANGED <<account, epoch, session, login>> /\
               \E b \in BOOLEAN : admin' = [admin EXCEPT ![u] = b]
      BY <2>1, <2>3, <3>2 DEF TypeOK
    <3>3. CASE UNCHANGED <<admin, epoch, session, login>> /\
               account' = [account EXCEPT ![u] = "enabled"]
      BY <2>1, <2>3, <3>3 DEF TypeOK, Present
    <3>4. CASE /\ account' = [account EXCEPT ![u] = "deleted"]
               /\ session' = [s \in Session |->
                                IF holder[s] = u THEN "none" ELSE session[s]]
               /\ UNCHANGED <<admin, epoch, login>>
      BY <2>1, <2>3, <3>4 DEF TypeOK
    <3> QED BY <2>5, <3>1, <3>2, <3>3, <3>4 DEF Changes
  <2> QED BY <2>1, <2>4, <2>5
<1>11. CASE UNCHANGED vars
  BY <1>11 DEF vars, TypeOK
<1> QED BY <1>1, <1>2, <1>3, <1>4, <1>5, <1>6, <1>7, <1>9, <1>10, <1>11
     DEF Next, Browsers, Requests

-----------------------------------------------------------------------------
(* Sessions.                                                               *)

\* Init establishes the invariant.
LEMMA AccountInit == Init => AccountInv
BY TypeInit DEF Init, AccountInv, SessionInv, LoginInv

\* A sign-out takes every session of the account, and marks its logins.
LEMMA SignOutHolds ==
  ASSUME AccountInv, NEW u \in User, SignOut(u),
         UNCHANGED <<holder, since, raced>>,
         account' = account \/ account' = [account EXCEPT ![u] = "disabled"]
  PROVE  SessionInv' /\ LoginInv'
<1>t. /\ account \in [User -> {"none", "deleted"} \cup Present]
      /\ epoch \in [User -> 0 .. MaxSignOuts] /\ holder \in [Session -> User]
      /\ login \in [Login -> LoginState \cup {Idle}]
  BY DEF AccountInv, TypeOK
<1>1. \A v \in User \ {u} : epoch'[v] = epoch[v] /\ account'[v] = account[v]
  BY <1>t DEF SignOut
<1>2. SessionInv'
  <2> SUFFICES ASSUME NEW s \in Session, session'[s] # "none"
               PROVE  /\ account'[holder[s]] \in Present
                      /\ since[s] = epoch'[holder[s]] \/ raced[s]
    BY DEF SessionInv
  <2>1. holder[s] # u /\ session[s] # "none"
    BY DEF SignOut
  <2> QED BY <1>t, <1>1, <2>1 DEF AccountInv, SessionInv
<1>3. LoginInv'
  <2> SUFFICES ASSUME NEW l \in Login, login'[l] # Idle
               PROVE  login'[l].since = epoch'[login'[l].user] \/ login'[l].raced
    BY DEF LoginInv
  <2>1. login'[l] = IF login[l] # Idle /\ login[l].user = u
                    THEN [login[l] EXCEPT !.raced = TRUE] ELSE login[l]
    BY DEF SignOut
  <2>2. login[l] # Idle /\ login[l] \in LoginState
    BY <1>t, <2>1
  <2>3. CASE login[l].user = u
    BY <2>1, <2>2, <2>3, LoginFields
  <2>4. CASE login[l].user # u
    <3>1. login'[l] = login[l] /\ login[l].user \in User
      BY <2>1, <2>2, <2>4, LoginFields
    <3> QED BY <1>1, <2>2, <2>4, <3>1 DEF AccountInv, LoginInv
  <2> QED BY <2>3, <2>4
<1> QED BY <1>2, <1>3

\* Every step keeps the invariant.
LEMMA AccountStep == AccountInv /\ [Next]_vars => AccountInv'
<1> SUFFICES ASSUME AccountInv, [Next]_vars PROVE SessionInv' /\ LoginInv'
  BY TypeStep DEF AccountInv
<1> USE DEF userVars, sessionVars
<1>t. /\ account \in [User -> {"none", "deleted"} \cup Present]
      /\ epoch \in [User -> 0 .. MaxSignOuts] /\ holder \in [Session -> User]
      /\ login \in [Login -> LoginState \cup {Idle}]
      /\ session \in [Session -> {"none", "live", "expired"}]
      /\ since \in [Session -> 0 .. MaxSignOuts] /\ raced \in [Session -> BOOLEAN]
  BY DEF AccountInv, TypeOK
<1>0. ASSUME UNCHANGED <<holder, since, raced, epoch, login>>,
             \A s \in Session : session'[s] # "none" => session[s] # "none",
             \A v \in User : account[v] \in Present => account'[v] \in Present
      PROVE  SessionInv' /\ LoginInv'
  BY <1>0, <1>t DEF AccountInv, SessionInv, LoginInv
<1>1. ASSUME NEW u \in User, NEW a \in BOOLEAN, Create(u, a)
      PROVE  SessionInv' /\ LoginInv'
  <2>1. /\ UNCHANGED <<holder, since, raced, epoch, login, session>>
        /\ account' = [account EXCEPT ![u] = "enabled"]
    BY <1>1 DEF Create
  <2> QED BY <1>t, <1>0, <2>1 DEF Present
<1>2. ASSUME NEW l \in Login, NEW u \in User, Authenticate(l, u)
      PROVE  SessionInv' /\ LoginInv'
  <2> DEFINE x == [user |-> u, since |-> epoch[u], raced |-> FALSE]
  <2>1. /\ UNCHANGED <<holder, since, raced, epoch, session, account>>
        /\ login' = [login EXCEPT ![l] = x]
    BY <1>2 DEF Authenticate
  <2>2. x.since = epoch[x.user]
    OBVIOUS
  <2> HIDE DEF x
  <2>3. LoginInv'
    BY <1>t, <2>1, <2>2 DEF AccountInv, LoginInv
  <2>4. SessionInv'
    BY <2>1 DEF AccountInv, SessionInv
  <2> QED BY <2>3, <2>4
<1>3. ASSUME NEW l \in Login, NEW s \in Session, StartSession(l, s)
      PROVE  SessionInv' /\ LoginInv'
  <2>1. /\ login[l] # Idle /\ login' = [login EXCEPT ![l] = Idle]
        /\ UNCHANGED <<account, epoch>>
    BY <1>3 DEF StartSession
  <2>2. LoginInv'
    BY <1>t, <2>1 DEF AccountInv, LoginInv
  <2>3. CASE UNCHANGED sessionVars
    BY <2>1, <2>2, <2>3 DEF AccountInv, SessionInv
  <2>4. CASE ~UNCHANGED sessionVars
    <3> DEFINE x == login[l]
    <3>1. /\ account[x.user] \in Present
          /\ session' = [session EXCEPT ![s] = "live"]
          /\ holder' = [holder EXCEPT ![s] = x.user]
          /\ since' = [since EXCEPT ![s] = x.since]
          /\ raced' = [raced EXCEPT ![s] = x.raced]
      BY <1>3, <2>4 DEF StartSession
    <3>2. x.since = epoch[x.user] \/ x.raced
      BY <2>1 DEF AccountInv, LoginInv
    <3> HIDE DEF x
    <3>3. /\ holder'[s] = x.user /\ since'[s] = x.since /\ raced'[s] = x.raced
          /\ \A r \in Session \ {s} : /\ session'[r] = session[r]
                                      /\ holder'[r] = holder[r]
                                      /\ since'[r] = since[r]
                                      /\ raced'[r] = raced[r]
      BY <1>t, <3>1
    <3>4. SessionInv'
      <4> SUFFICES ASSUME NEW r \in Session, session'[r] # "none"
                   PROVE  /\ account'[holder'[r]] \in Present
                          /\ since'[r] = epoch'[holder'[r]] \/ raced'[r]
        BY DEF SessionInv
      <4>1. CASE r = s
        BY <2>1, <3>1, <3>2, <3>3, <4>1
      <4>2. CASE r # s
        BY <2>1, <3>3, <4>2 DEF AccountInv, SessionInv
      <4> QED BY <4>1, <4>2
    <3> QED BY <2>2, <3>4
  <2> QED BY <2>3, <2>4
<1>4. CASE \/ \E s \in Session : EndSession(s) \/ Expire(s)
           \/ PurgeExpiredSessions
  <2>1. /\ UNCHANGED <<holder, since, raced, epoch, login, account>>
        /\ \A s \in Session : session'[s] # "none" => session[s] # "none"
    BY <1>4, <1>t DEF EndSession, Expire, PurgeExpiredSessions
  <2> QED BY <1>0, <2>1
<1>5. ASSUME NEW q \in Request,
             \/ \E s \in Session : \/ ChangePassword(q, s)
                                   \/ \E u \in User, a \in Actions : Update(q, s, u, a)
             \/ \E u \in User : OperatorReset(q, u)
             \/ TargetIsAdmin(q) \/ TargetUnknown(q) \/ CountAdmins(q)
             \/ RequestFails(q)
      PROVE  SessionInv' /\ LoginInv'
  <2>1. UNCHANGED <<holder, since, raced, epoch, login, session, account>>
    BY <1>5 DEF ChangePassword, Update, OperatorReset, TargetIsAdmin,
      TargetUnknown, CountAdmins, RequestFails
  <2> QED BY <1>0, <2>1
<1>6. ASSUME NEW q \in Request, Apply(q) PROVE SessionInv' /\ LoginInv'
  <2> DEFINE u == req[q].target  a == req[q].action
  <2>1. /\ UNCHANGED <<holder, since, raced>>
        /\ Changes(u, a) \/ UNCHANGED <<userVars, session, login>>
    BY <1>6 DEF Apply
  <2>2. u \in User
    BY <1>6, Targets DEF Apply, AccountInv
  <2> HIDE DEF u, a
  <2>3. CASE UNCHANGED <<userVars, session, login>>
    BY <1>0, <2>1, <2>3
  <2>4. CASE SignOut(u) /\
             (account' = account \/ account' = [account EXCEPT ![u] = "disabled"])
    BY <2>1, <2>2, <2>4, SignOutHolds
  <2>5. CASE UNCHANGED <<epoch, session, login>> /\
             (account' = account \/ account' = [account EXCEPT ![u] = "enabled"])
    BY <1>0, <1>t, <2>1, <2>5 DEF Present
  <2>6. CASE /\ account' = [account EXCEPT ![u] = "deleted"]
             /\ session' = [s \in Session |->
                              IF holder[s] = u THEN "none" ELSE session[s]]
             /\ UNCHANGED <<epoch, login>>
    <3>1. LoginInv'
      BY <2>6 DEF AccountInv, LoginInv
    <3>2. SessionInv'
      <4> SUFFICES ASSUME NEW s \in Session, session'[s] # "none"
                   PROVE  /\ account'[holder[s]] \in Present
                          /\ since[s] = epoch'[holder[s]] \/ raced[s]
        BY <2>1 DEF SessionInv
      <4>1. holder[s] # u /\ session[s] # "none" /\ holder[s] \in User
        BY <1>t, <2>6
      <4>2. account'[holder[s]] = account[holder[s]]
        BY <1>t, <2>6, <4>1
      <4> QED BY <2>6, <4>1, <4>2 DEF AccountInv, SessionInv
    <3> QED BY <3>1, <3>2
  <2> QED BY <2>1, <2>3, <2>4, <2>5, <2>6 DEF Changes
<1>7. CASE UNCHANGED vars
  BY <1>7, <1>0 DEF vars
<1> QED BY <1>1, <1>2, <1>3, <1>4, <1>5, <1>6, <1>7 DEF Next, Browsers, Requests

-----------------------------------------------------------------------------
(* Administrators.                                                         *)

\* CountAdmins lets a change through only if another administrator remains.
LEMMA AnotherAdmin ==
  ASSUME NEW u, ~(Cardinality(Admins) <= 1)
  PROVE  \E v \in Admins : v # u
<1> SUFFICES ASSUME \A v \in Admins : v = u PROVE FALSE
  OBVIOUS
<1>1. Admins = {} \/ Admins = {u}
  OBVIOUS
<1>2. Cardinality(Admins) = 0 \/ Cardinality(Admins) = 1
  BY <1>1, FS_EmptySet, FS_Singleton
<1> QED BY <1>2

\* Init establishes the invariant.
LEMMA GuardInit == Init => GuardInv
BY TypeInit DEF Init, GuardInv, OfAnAccount, Harmless

\* Steps that leave the administrators alone and let no change through that is
\* not checked, or known not to be.
LEMMA GuardRests ==
  ASSUME GuardInv, Admins' = Admins,
         \A u \in User : account[u] # "none" => account'[u] # "none",
         \A q \in Request :
           \/ req'[q] = req[q] \/ req'[q] = Idle
           \/ /\ req'[q].target \in User /\ account[req'[q].target] # "none"
              /\ \/ req'[q].step # "apply" \/ req'[q].action \notin Guarded
                 \/ req'[q].unchecked \/ Admins = {}
                 \/ \E v \in Admins : v # req'[q].target
  PROVE  \A q \in Request : (OfAnAccount(q) /\ Harmless(q))'
<1> SUFFICES ASSUME NEW q \in Request
             PROVE  OfAnAccount(q)' /\ Harmless(q)'
  OBVIOUS
<1>1. OfAnAccount(q) /\ Harmless(q)
  BY DEF GuardInv
<1>2. req[q] # Idle => req[q].target \in User
  BY Targets DEF GuardInv
<1>3. CASE req'[q] = req[q] \/ req'[q] = Idle
  BY <1>1, <1>2, <1>3 DEF OfAnAccount, Harmless
<1>4. CASE /\ req'[q].target \in User /\ account[req'[q].target] # "none"
           /\ \/ req'[q].step # "apply" \/ req'[q].action \notin Guarded
              \/ req'[q].unchecked \/ Admins = {}
              \/ \E v \in Admins : v # req'[q].target
  BY <1>4 DEF OfAnAccount, Harmless, Guarded
<1> QED BY <1>3, <1>4

\* What a change does to the administrators: an unguarded one takes none, any
\* other at most its target.
LEMMA ChangeTakes ==
  ASSUME TypeOK, NEW u \in User, NEW a \in Actions,
         Changes(u, a) \/ UNCHANGED userVars
  PROVE  /\ \A v \in Admins : (v = u /\ a \in Guarded) \/ v \in Admins'
         /\ \A v \in User : account[v] # "none" => account'[v] # "none"
<1>t. /\ account \in [User -> {"none", "deleted"} \cup Present]
      /\ admin \in [User -> BOOLEAN]
  BY DEF TypeOK
<1>1. CASE UNCHANGED <<account, admin>>
  BY <1>1 DEF Admins
<1>2. CASE a = "promote" /\ Changes(u, a)
  <2>1. account' = account /\ admin' = [admin EXCEPT ![u] = TRUE]
    BY <1>2 DEF Changes
  <2> QED BY <1>t, <2>1 DEF Admins
<1>3. CASE a = "enable" /\ Changes(u, a)
  <2>1. account' = [account EXCEPT ![u] = "enabled"] /\ admin' = admin
    BY <1>3 DEF Changes
  <2> QED BY <1>t, <2>1 DEF Admins
<1>4. CASE a \in Guarded /\ Changes(u, a)
  <2>1. /\ \A v \in User \ {u} : admin'[v] = admin[v] /\ account'[v] = account[v]
        /\ account'[u] \in {account[u], "disabled", "deleted"}
    BY <1>t, <1>4 DEF Changes, Guarded
  <2> QED BY <1>4, <2>1 DEF Admins
<1> QED BY <1>1, <1>2, <1>3, <1>4 DEF Changes, Guarded, userVars

\* The change itself: what it leaves to the changes that wait behind their
\* checks, it leaves as it was, or marks.
LEMMA GuardApply ==
  ASSUME GuardInv, NEW q \in Request, Apply(q)
  PROVE  \A p \in Request : (OfAnAccount(p) /\ Harmless(p))'
<1> SUFFICES ASSUME NEW p \in Request PROVE (OfAnAccount(p) /\ Harmless(p))'
  OBVIOUS
<1> DEFINE u == req[q].target  a == req[q].action
<1>1. /\ req[q] # Idle
      /\ req' = [r \in Request |->
                   IF r = q THEN Idle
                   ELSE IF /\ Admins' # Admins
                           /\ req[r] # Idle /\ req[r].step = "apply"
                        THEN [req[r] EXCEPT !.raced = TRUE] ELSE req[r]]
      /\ Changes(u, a) \/ UNCHANGED userVars
  BY DEF Apply, userVars
<1>2. TypeOK /\ OfAnAccount(p) /\ Harmless(p)
  BY DEF GuardInv
<1>3. u \in User /\ a \in Actions
  BY <1>1, <1>2, Targets, RequestFields
<1>4. \A v \in User : account[v] # "none" => account'[v] # "none"
  BY <1>1, <1>2, <1>3, ChangeTakes
<1>5. req[p] # Idle => req[p] \in RequestState /\ req[p].target \in User
  BY <1>2, Targets
<1>6. CASE p = q
  BY <1>1, <1>6 DEF OfAnAccount, Harmless
<1>7. CASE p # q /\ ~(/\ Admins' # Admins
                      /\ req[p] # Idle /\ req[p].step = "apply")
  <2>1. req'[p] = req[p]
    BY <1>1, <1>7
  <2>2. OfAnAccount(p)'
    BY <1>2, <1>4, <1>5, <2>1 DEF OfAnAccount
  <2>3. Harmless(p)'
    BY <1>2, <1>7, <2>1 DEF Harmless
  <2> QED BY <2>2, <2>3
<1>8. CASE p # q /\ /\ Admins' # Admins
                    /\ req[p] # Idle /\ req[p].step = "apply"
  <2>1. req'[p] = [req[p] EXCEPT !.raced = TRUE]
    BY <1>1, <1>8
  <2>2. req'[p].raced /\ req'[p].target = req[p].target
    <3>1. req[p] \in RequestState
      BY <1>5, <1>8
    <3> QED BY <2>1, <3>1 DEF RequestState
  <2>3. OfAnAccount(p)'
    BY <1>2, <1>4, <1>5, <1>8, <2>2 DEF OfAnAccount
  <2>4. Harmless(p)'
    BY <2>2 DEF Harmless
  <2> QED BY <2>3, <2>4
<1> QED BY <1>6, <1>7, <1>8

\* A new account is nobody's target, whether or not it is an administrator.
LEMMA GuardCreate ==
  ASSUME GuardInv, NEW u \in User, NEW b \in BOOLEAN, Create(u, b)
  PROVE  /\ Admins \subseteq Admins'
         /\ \A q \in Request : (OfAnAccount(q) /\ Harmless(q))'
<1>t. /\ account \in [User -> {"none", "deleted"} \cup Present]
      /\ admin \in [User -> BOOLEAN]
  BY DEF GuardInv, TypeOK
<1>1. /\ account[u] = "none" /\ account' = [account EXCEPT ![u] = "enabled"]
      /\ admin' = [admin EXCEPT ![u] = b] /\ req' = req
  BY DEF Create
<1>2. Admins \subseteq Admins' /\ Admins' \subseteq Admins \cup {u}
  BY <1>t, <1>1 DEF Admins
<1>3. ASSUME NEW q \in Request PROVE OfAnAccount(q)' /\ Harmless(q)'
  <2>1. OfAnAccount(q) /\ Harmless(q)
    BY DEF GuardInv
  <2>2. req[q] # Idle => req[q].target \in User /\ req[q].target # u
    BY <1>1, <2>1, Targets DEF GuardInv, OfAnAccount
  <2>3. OfAnAccount(q)'
    BY <1>t, <1>1, <2>1, <2>2 DEF OfAnAccount
  <2>4. Harmless(q)'
    BY <1>1, <1>2, <2>1, <2>2 DEF Harmless
  <2> QED BY <2>3, <2>4
<1> QED BY <1>2, <1>3

\* A request that is taken up, of an account that exists.
LEMMA GuardAsks ==
  ASSUME GuardInv, NEW q \in Request, NEW u \in User, account[u] # "none",
         NEW p \in {"check", "apply"}, NEW a \in Actions,
         Ask(q, p, u, a), p = "apply" => a \notin Guarded,
         UNCHANGED userVars
  PROVE  \A r \in Request : (OfAnAccount(r) /\ Harmless(r))'
<1> DEFINE x == [step |-> p, target |-> u, action |-> a, raced |-> FALSE,
                 unchecked |-> FALSE]
<1>1. req' = [req EXCEPT ![q] = x] /\ x.step = p /\ x.action = a /\ x.target = u
  BY DEF Ask
<1> HIDE DEF x
<1>2. \A r \in Request : req'[r] = IF r = q THEN x ELSE req[r]
  BY <1>1 DEF GuardInv, TypeOK
<1>3. Admins' = Admins /\ account' = account
  BY DEF Admins, userVars
<1> QED BY <1>1, <1>2, <1>3, GuardRests

\* Every step keeps the invariant, and those that are no change take no
\* administrator.
LEMMA GuardStep ==
  ASSUME GuardInv, [Next]_vars
  PROVE  /\ GuardInv'
         /\ Admins \subseteq Admins' \/ \E q \in Request : Apply(q)
<1> SUFFICES /\ \A q \in Request : (OfAnAccount(q) /\ Harmless(q))'
             /\ Admins \subseteq Admins' \/ \E q \in Request : Apply(q)
  BY TypeStep DEF GuardInv
<1> USE DEF userVars, sessionVars
<1>t. /\ account \in [User -> {"none", "deleted"} \cup Present]
      /\ admin \in [User -> BOOLEAN] /\ holder \in [Session -> User]
      /\ req \in [Request -> RequestState \cup {Idle}]
  BY DEF GuardInv, TypeOK
<1>0. UNCHANGED userVars => Admins' = Admins
  BY DEF Admins
<1>1. ASSUME NEW u \in User, NEW b \in BOOLEAN, Create(u, b)
      PROVE  /\ Admins \subseteq Admins'
             /\ \A q \in Request : (OfAnAccount(q) /\ Harmless(q))'
  BY <1>1, GuardCreate
<1>2. CASE Browsers \/ UNCHANGED vars
  <2>1. UNCHANGED userVars /\ req' = req
    BY <1>2 DEF Browsers, Authenticate, StartSession, EndSession, Expire,
      PurgeExpiredSessions, vars
  <2> QED BY <1>0, <2>1, GuardRests
<1>3. ASSUME NEW q \in Request, NEW s \in Session, ChangePassword(q, s)
      PROVE  /\ Admins \subseteq Admins'
             /\ \A r \in Request : (OfAnAccount(r) /\ Harmless(r))'
  <2>1. /\ Ask(q, "apply", holder[s], "reset") /\ "reset" \notin Guarded
        /\ "reset" \in Actions /\ UNCHANGED userVars
        /\ holder[s] \in User /\ account[holder[s]] # "none"
    BY <1>t, <1>3 DEF ChangePassword, Guarded, Actions, Admitted
  <2> QED BY <1>0, <2>1, GuardAsks
<1>4. ASSUME NEW q \in Request, NEW u \in User, OperatorReset(q, u)
      PROVE  /\ Admins \subseteq Admins'
             /\ \A r \in Request : (OfAnAccount(r) /\ Harmless(r))'
  <2>1. /\ Ask(q, "apply", u, "reset") /\ "reset" \notin Guarded
        /\ "reset" \in Actions /\ UNCHANGED userVars /\ account[u] # "none"
    BY <1>4 DEF OperatorReset, Guarded, Actions
  <2> QED BY <1>0, <2>1, GuardAsks
<1>5. ASSUME NEW q \in Request, NEW s \in Session, NEW u \in User,
             NEW a \in Actions, account[u] \in Present, Update(q, s, u, a)
      PROVE  /\ Admins \subseteq Admins'
             /\ \A r \in Request : (OfAnAccount(r) /\ Harmless(r))'
  <2>1. /\ UNCHANGED userVars /\ account[u] # "none"
        /\ IF a \in Guarded THEN Ask(q, "check", u, a) ELSE Ask(q, "apply", u, a)
    BY <1>5 DEF Update, Present
  <2> QED BY <1>0, <2>1, GuardAsks
<1>6. ASSUME NEW q \in Request,
             TargetIsAdmin(q) \/ TargetUnknown(q) \/ CountAdmins(q)
               \/ RequestFails(q)
      PROVE  /\ Admins \subseteq Admins'
             /\ \A r \in Request : (OfAnAccount(r) /\ Harmless(r))'
  <2> DEFINE u == req[q].target
             y == [req[q] EXCEPT !.step = "count"]
             z == [req[q] EXCEPT !.step = "apply"]
             w == [req[q] EXCEPT !.step = "apply", !.unchecked = TRUE]
  <2>1. req[q] # Idle /\ UNCHANGED userVars
    BY <1>6 DEF TargetIsAdmin, TargetUnknown, CountAdmins, RequestFails
  <2>2. req[q] \in RequestState /\ u \in User /\ account[u] # "none"
    BY <2>1, Targets DEF GuardInv, OfAnAccount
  <2>3. /\ y.step = "count" /\ y.target = u /\ z.target = u
        /\ w.unchecked /\ w.target = u
    BY <2>2, RequestFields
  <2>4. \/ req' = [req EXCEPT ![q] = Idle]
        \/ req' = [req EXCEPT ![q] = y]
        \/ req' = [req EXCEPT ![q] = w]
        \/ req' = [req EXCEPT ![q] = z] /\ \/ u \notin Admins
                                           \/ ~(Cardinality(Admins) <= 1)
    <3>1. CASE TargetIsAdmin(q)
      <4>1. req' = [req EXCEPT ![q] = [req[q] EXCEPT !.step =
                      IF admin[u] /\ account[u] = "enabled" THEN "count"
                      ELSE "apply"]]
        BY <1>t, <3>1 DEF TargetIsAdmin
      <4>2. u \in Admins <=> admin[u] /\ account[u] = "enabled"
        BY <2>2 DEF Admins
      <4> QED BY <4>1, <4>2
    <3>2. CASE TargetUnknown(q)
      BY <1>t, <3>2 DEF TargetUnknown
    <3>3. CASE CountAdmins(q)
      BY <1>t, <3>3 DEF CountAdmins
    <3>4. CASE RequestFails(q)
      BY <3>4 DEF RequestFails
    <3> QED BY <1>6, <3>1, <3>2, <3>3, <3>4
  <2> HIDE DEF y, z, w
  <2>5. CASE req' = [req EXCEPT ![q] = Idle]
    <3>1. \A r \in Request : req'[r] = IF r = q THEN Idle ELSE req[r]
      BY <1>t, <2>5
    <3> QED BY <1>0, <2>1, <3>1, GuardRests
  <2>6. ASSUME NEW x, req' = [req EXCEPT ![q] = x], x.target = u,
               x.step # "apply" \/ x.unchecked \/ Admins = {}
                 \/ \E v \in Admins : v # u
        PROVE  \A r \in Request : (OfAnAccount(r) /\ Harmless(r))'
    <3>1. \A r \in Request : req'[r] = IF r = q THEN x ELSE req[r]
      BY <1>t, <2>6
    <3> QED BY <1>0, <2>1, <2>2, <2>6, <3>1, GuardRests
  <2>7. CASE req' = [req EXCEPT ![q] = y] \/ req' = [req EXCEPT ![q] = w]
    BY <1>0, <2>1, <2>3, <2>6, <2>7
  <2>8. CASE req' = [req EXCEPT ![q] = z] /\ \/ u \notin Admins
                                             \/ ~(Cardinality(Admins) <= 1)
    <3>1. Admins = {} \/ \E v \in Admins : v # u
      BY <2>8, AnotherAdmin
    <3> QED BY <1>0, <2>1, <2>3, <2>6, <2>8, <3>1
  <2> QED BY <2>4, <2>5, <2>7, <2>8, <1>0, <2>1
<1>7. ASSUME NEW q \in Request, Apply(q)
      PROVE  \A r \in Request : (OfAnAccount(r) /\ Harmless(r))'
  BY <1>7, GuardApply
<1> QED BY <1>1, <1>2, <1>3, <1>4, <1>5, <1>6, <1>7 DEF Next, Requests

\* The inductive invariant of the guard.
THEOREM GuardInvariant == Spec => []GuardInv
BY GuardInit, GuardStep, PTL DEF Spec

-----------------------------------------------------------------------------
(* What holds of every run.                                                *)

\* The variables keep their types.
THEOREM TypeCorrect == Spec => []TypeOK
BY TypeInit, TypeStep, PTL DEF Spec

\* The inductive invariant of sessions and logins.
THEOREM AccountInvariant == Spec => []AccountInv
BY AccountInit, AccountStep, PTL DEF Spec

\* SetPassword, SetDisabled and Delete: no session outlives its account, and one
\* that works although the account was signed out since its login comes from a
\* login that was under way at that moment.
THEOREM SignOutsAreComplete == Spec => []SignOutIsComplete
<1>1. AccountInv => SignOutIsComplete
  BY DEF AccountInv, SessionInv, SignOutIsComplete
<1> QED BY <1>1, AccountInvariant, PTL

\* refuseLockout: with any number of accounts, administrators and changes at
\* once, the last administrator is lost only to a change that another one
\* overtook between its check and its statement, or whose check failed.
THEOREM LockoutsAreRaces == Spec => LockoutNeedsARace
<1> DEFINE Needs == Admins # {} /\ Admins' = {}
                      => \E q \in Request :
                           Apply(q) /\ (req[q].raced \/ req[q].unchecked)
<1>1. ASSUME GuardInv, [Next]_vars PROVE Needs
  <2> SUFFICES ASSUME NEW w \in Admins, Admins' = {},
                      NEW q \in Request, Apply(q),
                      ~(req[q].raced \/ req[q].unchecked)
               PROVE  FALSE
    BY <1>1, GuardStep
  <2> DEFINE u == req[q].target  a == req[q].action
  <2>1. /\ req[q] # Idle /\ req[q].step = "apply"
        /\ Changes(u, a) \/ UNCHANGED userVars
    BY DEF Apply, userVars
  <2>2. TypeOK /\ u \in User /\ a \in Actions
    BY <1>1, <2>1, Targets, RequestFields DEF GuardInv
  <2>3. a \in Guarded => \E v \in Admins : v # u
    BY <1>1, <2>1 DEF GuardInv, Harmless
  <2>4. \A v \in Admins : (v = u /\ a \in Guarded) \/ v \in Admins'
    BY <2>1, <2>2, ChangeTakes
  <2> QED BY <2>3, <2>4
<1>2. GuardInv /\ [Next]_vars => [Needs]_vars
  BY <1>1
<1> QED BY <1>2, GuardInvariant, PTL DEF Spec, LockoutNeedsARace
=============================================================================

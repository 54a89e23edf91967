------------------------------ MODULE Accounts ------------------------------
(***************************************************************************)
(* People and their browser sessions: internal/users/store.go, the login   *)
(* of internal/console/auth.go, the self-service password change of        *)
(* internal/console/account.go, and the administrators' page of            *)
(* internal/console/people.go.                                             *)
(*                                                                         *)
(* Each SQL statement or transaction is one step.  A login is two of them, *)
(* a password change two, an administrator's change up to four.            *)
(***************************************************************************)
EXTENDS Integers, FiniteSets

CONSTANTS User, First,  \* account ids; the one bootstrap creates
          Session,      \* bound: rows of user_sessions
          Login,        \* bound: logins in flight
          Request,      \* bound: account changes in flight
          MaxSignOuts,  \* bound: times an account's sessions are cleared
          MaxFaults     \* bound: failed queries

ASSUME AccountsAssumption == /\ First \in User
                             /\ MaxSignOuts \in Nat /\ MaxFaults \in Nat

VARIABLES
  account,  \* users row: "none", "enabled", "disabled" or "deleted"
  admin,    \* users.is_admin
  epoch,    \* how often this account's sessions were cleared
  session,  \* user_sessions row: "none", "live" or "expired"
  holder,   \* its user_id
  since,    \* the account's epoch when the login behind it authenticated
  raced,    \* its login was under way when the account was signed out
  login,    \* logins between Authenticate and StartSession
  req,      \* account changes between their queries
  faults    \* failed queries so far

userVars == <<account, admin, epoch>>
sessionVars == <<session, holder, since, raced>>
vars == <<userVars, sessionVars, login, req, faults>>

Present == {"enabled", "disabled"}
Actions == {"reset", "promote", "demote", "disable", "enable", "delete"}
Idle == <<>>
LoginState == [user : User, since : 0 .. MaxSignOuts, raced : BOOLEAN]
\* raced: since its last check, another change moved the set of administrators;
\* unchecked: the query that would have checked it failed.
RequestState == [step : {"check", "count", "apply"}, target : User,
                 action : Actions, raced : BOOLEAN, unchecked : BOOLEAN]

TypeOK ==
  /\ account \in [User -> {"none", "deleted"} \cup Present]
  /\ admin \in [User -> BOOLEAN]
  /\ epoch \in [User -> 0 .. MaxSignOuts]
  /\ session \in [Session -> {"none", "live", "expired"}]
  /\ holder \in [Session -> User]
  /\ since \in [Session -> 0 .. MaxSignOuts] /\ raced \in [Session -> BOOLEAN]
  /\ login \in [Login -> LoginState \cup {Idle}]
  /\ req \in [Request -> RequestState \cup {Idle}]
  /\ faults \in 0 .. MaxFaults

\* EnsureBootstrapAdmin has run: the first account is an administrator.
Init ==
  /\ account = [u \in User |-> IF u = First THEN "enabled" ELSE "none"]
  /\ admin = [u \in User |-> u = First]
  /\ epoch = [u \in User |-> 0]
  /\ session = [s \in Session |-> "none"] /\ holder = [s \in Session |-> First]
  /\ since = [s \in Session |-> 0] /\ raced = [s \in Session |-> FALSE]
  /\ login = [l \in Login |-> Idle]
  /\ req = [q \in Request |-> Idle]
  /\ faults = 0

Fault == faults < MaxFaults /\ faults' = faults + 1

-----------------------------------------------------------------------------
(* Accounts and sessions.                                                  *)

Create(u, isAdmin) ==
  /\ account[u] = "none"
  /\ account' = [account EXCEPT ![u] = "enabled"]
  /\ admin' = [admin EXCEPT ![u] = isAdmin]
  /\ UNCHANGED <<epoch, sessionVars, login, req, faults>>

\* Login, first query: the right password of an enabled account.
Authenticate(l, u) ==
  /\ login[l] = Idle /\ account[u] = "enabled"
  /\ login' = [login EXCEPT ![l] =
                 [user |-> u, since |-> epoch[u], raced |-> FALSE]]
  /\ UNCHANGED <<userVars, sessionVars, req, faults>>

\* Second: the session row; its foreign key refuses a deleted account.
StartSession(l, s) ==
  /\ login[l] # Idle /\ session[s] = "none"
  /\ IF account[login[l].user] \in Present
     THEN /\ session' = [session EXCEPT ![s] = "live"]
          /\ holder' = [holder EXCEPT ![s] = login[l].user]
          /\ since' = [since EXCEPT ![s] = login[l].since]
          /\ raced' = [raced EXCEPT ![s] = login[l].raced]
     ELSE UNCHANGED sessionVars
  /\ login' = [login EXCEPT ![l] = Idle]
  /\ UNCHANGED <<userVars, req, faults>>

\* Logout
EndSession(s) ==
  /\ session[s] # "none"
  /\ session' = [session EXCEPT ![s] = "none"]
  /\ UNCHANGED <<userVars, holder, since, raced, login, req, faults>>

\* expires_at passes; PurgeExpiredSessions deletes the row later.
Expire(s) ==
  /\ session[s] = "live"
  /\ session' = [session EXCEPT ![s] = "expired"]
  /\ UNCHANGED <<userVars, holder, since, raced, login, req, faults>>

PurgeExpiredSessions ==
  /\ \E s \in Session : session[s] = "expired"
  /\ session' = [s \in Session |->
                   IF session[s] = "expired" THEN "none" ELSE session[s]]
  /\ UNCHANGED <<userVars, holder, since, raced, login, req, faults>>

\* Require: LookupSession finds a live session of an enabled account.
Admitted(s) == session[s] = "live" /\ account[holder[s]] = "enabled"

\* Mutant: the sessions are left in place.
SignOutKeeps(u) ==
  /\ epoch[u] < MaxSignOuts
  /\ epoch' = [epoch EXCEPT ![u] = @ + 1]
  /\ login' = [l \in Login |-> IF login[l] # Idle /\ login[l].user = u
                               THEN [login[l] EXCEPT !.raced = TRUE]
                               ELSE login[l]]
  /\ UNCHANGED session

\* DELETE FROM user_sessions WHERE user_id = u, inside the transaction of
\* SetPassword and of SetDisabled.  A login that has already authenticated is
\* not touched by it.
SignOut(u) ==
  /\ epoch[u] < MaxSignOuts
  /\ epoch' = [epoch EXCEPT ![u] = @ + 1]
  /\ session' = [s \in Session |-> IF holder[s] = u THEN "none" ELSE session[s]]
  /\ login' = [l \in Login |-> IF login[l] # Idle /\ login[l].user = u
                               THEN [login[l] EXCEPT !.raced = TRUE]
                               ELSE login[l]]

-----------------------------------------------------------------------------
(* Changes to accounts.                                                    *)

Ask(q, step, u, action) ==
  req' = [req EXCEPT ![q] = [step |-> step, target |-> u, action |-> action,
                             raced |-> FALSE, unchecked |-> FALSE]]

\* ChangePassword: SetPassword verifies the current password, which the person
\* signed in knows; the new one is stored in a later transaction.
ChangePassword(q, s) ==
  /\ req[q] = Idle /\ Admitted(s)
  /\ Ask(q, "apply", holder[s], "reset")
  /\ UNCHANGED <<userVars, sessionVars, login, faults>>

\* `dshf user passwd`: Find, then SetPassword without a current password.
OperatorReset(q, u) ==
  /\ req[q] = Idle /\ account[u] = "enabled"
  /\ Ask(q, "apply", u, "reset")
  /\ UNCHANGED <<userVars, sessionVars, login, faults>>

\* Mutant: a demotion is not checked.
GuardedLess == {"delete", "disable"}

\* The changes that could leave no administrator.
Guarded == {"delete", "demote", "disable"}

\* Update: RequireAdmin admits the request; refuseLockout, first part, keeps
\* an administrator from deleting or disabling the account in use.
Update(q, s, u, action) ==
  /\ req[q] = Idle /\ Admitted(s) /\ admin[holder[s]]
  /\ ~(u = holder[s] /\ action \in {"delete", "disable"})
  /\ Ask(q, IF action \in Guarded THEN "check" ELSE "apply", u, action)
  /\ UNCHANGED <<userVars, sessionVars, login, faults>>

\* targetIsAdmin: List, and what it says of the target.
TargetIsAdmin(q) ==
  /\ req[q] # Idle /\ req[q].step = "check"
  /\ LET u == req[q].target IN
       req' = [req EXCEPT ![q].step =
                 IF admin[u] /\ account[u] = "enabled" THEN "count"
                 ELSE "apply"]
  /\ UNCHANGED <<userVars, sessionVars, login, faults>>

\* A failure of that query is taken for "not an administrator".
TargetUnknown(q) ==
  /\ req[q] # Idle /\ req[q].step = "check" /\ Fault
  /\ req' = [req EXCEPT ![q].step = "apply", ![q].unchecked = TRUE]
  /\ UNCHANGED <<userVars, sessionVars, login>>

\* The administrators who can sign in.
Admins == {u \in User : admin[u] /\ account[u] = "enabled"}

\* CountAdmins: refuse to touch the last one.
CountAdmins(q) ==
  /\ req[q] # Idle /\ req[q].step = "count"
  /\ req' = [req EXCEPT ![q] = IF Cardinality(Admins) <= 1 THEN Idle
                               ELSE [@ EXCEPT !.step = "apply"]]
  /\ UNCHANGED <<userVars, sessionVars, login, faults>>

\* A query of the change fails: the request ends and nothing was changed.  A
\* DELETE also fails on an account that owns machines (Enrolment!Delete).
RequestFails(q) ==
  /\ req[q] # Idle /\ req[q].step \in {"count", "apply"} /\ Fault
  /\ req' = [req EXCEPT ![q] = Idle]
  /\ UNCHANGED <<userVars, sessionVars, login>>

\* The update itself, one transaction per action.
Changes(u, action) ==
  \/ /\ action = "reset"
     /\ SignOut(u)
     /\ UNCHANGED <<account, admin>>
  \/ /\ action \in {"promote", "demote"}
     /\ admin' = [admin EXCEPT ![u] = (action = "promote")]
     /\ UNCHANGED <<account, epoch, session, login>>
  \/ /\ action = "disable"
     /\ account' = [account EXCEPT ![u] = "disabled"]
     /\ SignOut(u)
     /\ UNCHANGED admin
  \/ /\ action = "enable"
     /\ account' = [account EXCEPT ![u] = "enabled"]
     /\ UNCHANGED <<admin, epoch, session, login>>
  \/ /\ action = "delete"
     /\ account' = [account EXCEPT ![u] = "deleted"]
     /\ session' = [s \in Session |->
                      IF holder[s] = u THEN "none" ELSE session[s]]
     /\ UNCHANGED <<admin, epoch, login>>

\* It affects no row when the account is gone.  Nothing serialises it with the
\* checks of the changes that are still to be made.
Apply(q) ==
  /\ req[q] # Idle /\ req[q].step = "apply"
  /\ IF account[req[q].target] \in Present
     THEN Changes(req[q].target, req[q].action)
     ELSE UNCHANGED <<userVars, session, login>>
  /\ req' = [p \in Request |->
               IF p = q THEN Idle
               ELSE IF /\ Admins' # Admins
                       /\ req[p] # Idle /\ req[p].step = "apply"
                    THEN [req[p] EXCEPT !.raced = TRUE] ELSE req[p]]
  /\ UNCHANGED <<holder, since, raced, faults>>

-----------------------------------------------------------------------------
Browsers == \/ \E l \in Login : \/ \E u \in User : Authenticate(l, u)
                                \/ \E s \in Session : StartSession(l, s)
            \/ \E s \in Session : EndSession(s) \/ Expire(s)
            \/ PurgeExpiredSessions
Requests(q) == \/ \E s \in Session :
                    \/ ChangePassword(q, s)
                    \/ \E u \in User, a \in Actions :
                         account[u] \in Present /\ Update(q, s, u, a)
               \/ \E u \in User : OperatorReset(q, u)
               \/ TargetIsAdmin(q) \/ TargetUnknown(q) \/ CountAdmins(q)
               \/ RequestFails(q) \/ Apply(q)

Next == \/ \E u \in User, a \in BOOLEAN : Create(u, a)
        \/ Browsers
        \/ \E q \in Request : Requests(q)

Spec == Init /\ [][Next]_vars

-----------------------------------------------------------------------------
\* SetPassword, SetDisabled and Delete: the sessions an account had are gone
\* for good.  No session outlives its account, although a login reads the
\* account before it inserts the session; and one that works although the
\* account was signed out since its login comes from a login that was under
\* way at that moment, and from nothing else.
SignOutIsComplete ==
  \A s \in Session :
    /\ session[s] # "none" => account[holder[s]] \in Present
    /\ session[s] = "live" => since[s] = epoch[holder[s]] \/ raced[s]

\* refuseLockout: the console loses its last administrator who can sign in only
\* to a change whose check another change overtook before it was made, or whose
\* query failed; not to any change that found things as its check left them,
\* however many administrators are at work.
LockoutNeedsARace ==
  [][Admins # {} /\ Admins' = {}
       => \E q \in Request : Apply(q) /\ (req[q].raced \/ req[q].unchecked)]_vars

-----------------------------------------------------------------------------
(* What comments say, and the code does not do.                            *)

\* people.go, Update: "never remove the last admin", with two administrators at
\* work or a failing query.
AdminRemains == Admins # {}

\* internal/users/store.go, SetPassword: "Every other browser holding a session
\* for this account loses it."
EverySessionLost ==
  \A s \in Session : session[s] = "live" => since[s] = epoch[holder[s]]
=============================================================================

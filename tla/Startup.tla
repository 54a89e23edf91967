------------------------------- MODULE Startup -------------------------------
(***************************************************************************)
(* `dshf serve` from its first line to its last, in several processes over *)
(* one database: config.Load (internal/config), store.Open and Migrate     *)
(* (internal/store/migrate.go) over the files of deploy/migrations,        *)
(* EnsureBootstrapAdmin (internal/users/store.go), ParseAccess, the        *)
(* listener, and `dshf cert` (internal/certs), which rewrites the          *)
(* certificate pair meanwhile.  Any process may die between two            *)
(* statements; docker-compose.yml restarts it.                             *)
(*                                                                         *)
(* A file that carries BEGIN and COMMIT ends runOne's own transaction: the *)
(* upsert that follows runs by itself.                                     *)
(***************************************************************************)
EXTENDS Integers, Sequences

CONSTANTS Proc,          \* processes that may run `dshf serve`
          Files,         \* per migration, in filename order: "own" if it has
                         \* BEGIN, COMMIT and its own insert between them, as
                         \* both shipped files do, "wrapped" if it has the
                         \* first two only, "plain" if it has none
          Environments,  \* what the process environment may hold
          MaxFaults,     \* bound: deaths, stops, failed statements and accounts
                         \* added by hand
          MaxCerts       \* bound: runs of `dshf cert`

Version == 1 .. Len(Files)

ASSUME StartupAssumption ==
  /\ \A v \in Version : Files[v] \in {"own", "wrapped", "plain"}
  /\ MaxFaults \in Nat /\ MaxCerts \in Nat

VARIABLES
  env,       \* DSHF_*: [required, tls, password, access]
  pc,        \* where each process is in serve
  applied,   \* Migrate's local map
  effects,   \* migrations whose tables and columns are in the schema
  recorded,  \* rows of schema_migrations
  accounts,  \* users: "admin" is DSHF_ADMIN_USER, "other" anyone else
  cert, key, \* which run of `dshf cert` each file is from, 0 if cut short
  mint,      \* where `dshf cert` is
  certs,     \* runs of it so far
  loaded,    \* the pair a serving process loaded
  faults

dbVars == <<effects, recorded, accounts>>
certVars == <<cert, key, mint, certs>>
vars == <<env, pc, applied, dbVars, certVars, loaded, faults>>

Boot == {"open", "versions", "migrate", "record", "count", "create", "listen"}

Init ==
  /\ env \in Environments
  /\ pc = [p \in Proc |-> "off"] /\ applied = [p \in Proc |-> {}]
  /\ effects = {} /\ recorded = {} /\ accounts = {}
  /\ cert = 0 /\ key = 0 /\ mint = "off" /\ certs = 0
  /\ loaded = [p \in Proc |-> <<0, 0>>] /\ faults = 0

At(p, s) == pc[p] = s
Goto(p, s) == pc' = [pc EXCEPT ![p] = s]

-----------------------------------------------------------------------------
\* config.Load: what is required is set, the TLS files come in a pair.
Loadable == env.required /\ env.tls # "half"

\* serve begins, at boot, after an exit or after a death.
Start(p) ==
  /\ At(p, "off") /\ Loadable
  /\ Goto(p, "open")
  /\ UNCHANGED <<env, applied, dbVars, certVars, loaded, faults>>

\* store.Open pings the database.
Open(p) ==
  /\ At(p, "open")
  /\ Goto(p, "versions")
  /\ UNCHANGED <<env, applied, dbVars, certVars, loaded, faults>>

\* appliedVersions: a missing table is an empty database.
AppliedVersions(p) ==
  /\ At(p, "versions")
  /\ applied' = [applied EXCEPT ![p] = recorded]
  /\ Goto(p, "migrate")
  /\ UNCHANGED <<env, dbVars, certVars, loaded, faults>>

\* Mutant: a database with any version at all counts as up to date.
UnappliedNone(p) == IF applied[p] = {} THEN Version ELSE {}

\* The files Migrate has yet to run.
Unapplied(p) == Version \ applied[p]

\* The next of them, in filename order.
NextFile(p) == CHOOSE v \in Unapplied(p) : \A w \in Unapplied(p) : v <= w

\* Mutant: no file writes its own version.
RunFileUnrecorded(p) ==
  /\ At(p, "migrate") /\ Unapplied(p) # {}
  /\ LET v == NextFile(p) IN
       /\ v \notin effects /\ \A w \in Version : w < v => w \in effects
       /\ effects' = effects \cup {v}
       /\ Goto(p, "record")
  /\ UNCHANGED <<env, applied, recorded, accounts, certVars, loaded, faults>>

\* runOne, the file: one transaction.  Two processes in the same file wait for
\* each other at its first CREATE; the later one, like any process that meets
\* tables already there or others missing, gets an error and exits.
RunFile(p) ==
  /\ At(p, "migrate") /\ Unapplied(p) # {}
  /\ LET v == NextFile(p)
         own == Files[v] # "wrapped" IN
       IF v \in effects \/ (\E w \in Version : w < v /\ w \notin effects)
       THEN Goto(p, "off") /\ UNCHANGED <<effects, recorded>>
       ELSE /\ effects' = effects \cup {v}
            /\ recorded' = IF own THEN recorded \cup {v} ELSE recorded
            /\ Goto(p, "record")
  /\ UNCHANGED <<env, applied, accounts, certVars, loaded, faults>>

\* runOne, the upsert: it changes nothing where the file inserted the row.
Record(p) ==
  /\ At(p, "record")
  /\ recorded' = recorded \cup {NextFile(p)}
  /\ applied' = [applied EXCEPT ![p] = @ \cup {NextFile(p)}]
  /\ Goto(p, "migrate")
  /\ UNCHANGED <<env, effects, accounts, certVars, loaded, faults>>

\* Migrate returns.
Migrated(p) ==
  /\ At(p, "migrate") /\ Unapplied(p) = {}
  /\ Goto(p, "count")
  /\ UNCHANGED <<env, applied, dbVars, certVars, loaded, faults>>

\* Mutant: the count is not looked at.
CountUsersIgnored(p) ==
  /\ At(p, "count")
  /\ Goto(p, "create")
  /\ UNCHANGED <<env, applied, dbVars, certVars, loaded, faults>>

\* EnsureBootstrapAdmin: a no-op once any account is present.
CountUsers(p) ==
  /\ At(p, "count")
  /\ Goto(p, IF accounts = {} THEN "create" ELSE "listen")
  /\ UNCHANGED <<env, applied, dbVars, certVars, loaded, faults>>

\* Create: a short password, or a name taken since the count, ends the start.
CreateAdmin(p) ==
  /\ At(p, "create")
  /\ IF env.password = "short" \/ "admin" \in accounts
     THEN Goto(p, "off") /\ UNCHANGED accounts
     ELSE Goto(p, "listen") /\ accounts' = accounts \cup {"admin"}
  /\ UNCHANGED <<env, applied, effects, recorded, certVars, loaded, faults>>

\* tls.LoadX509KeyPair takes both files or neither.
PairUsable == cert = key /\ cert # 0

AccessParses == env.access # "bad"

\* ParseAccess, then ListenAndServe or ListenAndServeTLS.
Listen(p) ==
  /\ At(p, "listen")
  /\ IF ~AccessParses \/ (env.tls = "both" /\ ~PairUsable)
     THEN Goto(p, "off") /\ UNCHANGED loaded
     ELSE Goto(p, "serving") /\ loaded' = [loaded EXCEPT ![p] = <<cert, key>>]
  /\ UNCHANGED <<env, applied, dbVars, certVars, faults>>

\* SIGTERM: server.Shutdown, then the deferred calls, audit's stop among them.
Shutdown(p) ==
  /\ At(p, "serving") /\ faults < MaxFaults
  /\ Goto(p, "off") /\ faults' = faults + 1
  /\ UNCHANGED <<env, applied, dbVars, certVars, loaded>>

\* A statement fails or bootCtx's 60 s are over: serve returns the error, with
\* what was committed staying so.  A death looks the same from outside.
BootFails(p) ==
  /\ pc[p] \in Boot /\ faults < MaxFaults
  /\ Goto(p, "off") /\ faults' = faults + 1
  /\ UNCHANGED <<env, applied, dbVars, certVars, loaded>>

-----------------------------------------------------------------------------
\* `dshf user add`: needs the table and a free name.
OperatorAdds(a) ==
  /\ 1 \in effects /\ a \notin accounts /\ faults < MaxFaults
  /\ accounts' = accounts \cup {a} /\ faults' = faults + 1
  /\ UNCHANGED <<env, pc, applied, effects, recorded, certVars, loaded>>

\* `dshf cert`: writePEM truncates cert.pem and fills it, then key.pem.
MintBegins ==
  /\ mint = "off" /\ certs < MaxCerts
  /\ mint' = "cert" /\ certs' = certs + 1 /\ cert' = 0
  /\ UNCHANGED <<env, pc, applied, dbVars, key, loaded, faults>>

MintCert ==
  /\ mint = "cert"
  /\ mint' = "key" /\ cert' = certs /\ key' = 0
  /\ UNCHANGED <<env, pc, applied, dbVars, certs, loaded, faults>>

MintKey ==
  /\ mint = "key"
  /\ mint' = "off" /\ key' = certs
  /\ UNCHANGED <<env, pc, applied, dbVars, cert, certs, loaded, faults>>

MintDies ==
  /\ mint # "off" /\ faults < MaxFaults
  /\ mint' = "off" /\ faults' = faults + 1
  /\ UNCHANGED <<env, pc, applied, dbVars, cert, key, certs, loaded>>

-----------------------------------------------------------------------------
Serve(p) == \/ Open(p) \/ AppliedVersions(p) \/ RunFile(p) \/ Record(p)
            \/ Migrated(p) \/ CountUsers(p) \/ CreateAdmin(p) \/ Listen(p)
Mint == MintCert \/ MintKey

Next ==
  \/ \E p \in Proc : Start(p) \/ Serve(p) \/ Shutdown(p) \/ BootFails(p)
  \/ \E a \in {"admin", "other"} : OperatorAdds(a)
  \/ MintBegins \/ Mint \/ MintDies

Spec == Init /\ [][Next]_vars

\* Processes run, an exited one is restarted, a command run to its end ends.
FairSpec ==
  /\ Spec
  /\ \A p \in Proc : WF_vars(Start(p)) /\ WF_vars(Serve(p))
  /\ WF_vars(Mint)

-----------------------------------------------------------------------------
\* Migrate: "a partial run leaves the database at a known version": whatever
\* died or ran at the same time, the schema is the one schema_migrations
\* tells of, and that of the first so many files.
SchemaIsRecorded ==
  /\ effects = recorded
  /\ \A v \in effects : \A w \in Version : w < v => w \in effects

\* serve: what answers requests has the whole schema, an account to sign in
\* with, a complete configuration and a certificate that fits its key, however
\* many starts it took and whoever else was starting or minting.
ServingIsReady ==
  \A p \in Proc : At(p, "serving") =>
    /\ effects = Version /\ accounts # {}
    /\ env.required /\ AccessParses
    /\ env.tls = "both" => loaded[p][1] = loaded[p][2] /\ loaded[p][1] # 0

\* A usable environment: what serve needs that no restart can supply.
Usable == /\ Loadable /\ AccessParses /\ env.password # "short"
          /\ env.tls = "both" => PairUsable

\* Every exit of a start is one that the next start gets past: starts that
\* collide in a migration or over the first account, or die in one, end with
\* somebody serving.
EventuallyServes == Usable ~> (~Usable \/ \E p \in Proc : At(p, "serving"))
=============================================================================

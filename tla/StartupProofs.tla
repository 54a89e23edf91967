----------------------------- MODULE StartupProofs -----------------------------
(***************************************************************************)
(* TLAPS proofs about what a start finds.  For the control plane, Startup,  *)
(* with any number of processes, any list of migration files, any          *)
(* environment and any number of faults.  For a machine, NodeSetup, with   *)
(* any settings, declared configurations, environment and forms.           *)
(***************************************************************************)
EXTENDS Startup, NodeSetup, WellFoundedInduction, TLAPS

-----------------------------------------------------------------------------
(* The inductive invariant.                                                *)

States == Boot \cup {"off", "serving"}

TypeInv ==
  /\ pc \in [Proc -> States] /\ applied \in [Proc -> SUBSET Version]
  /\ effects \subseteq Version /\ recorded \subseteq Version
  /\ loaded \in [Proc -> Nat \X Nat]
  /\ cert \in Nat /\ key \in Nat /\ certs \in Nat

\* The schema is that of the first so many files.
Prefix == \A v \in effects : \A w \in Version : w < v => w \in effects

\* What the schema knows of itself: a recorded file has run, and one that has
\* run and is not recorded has no transaction to hold both.
SchemaKnown ==
  /\ recorded \subseteq effects /\ Prefix
  /\ \A v \in effects : v \in recorded \/ Files[v] = "wrapped"

\* A process believes only what is so; between a file and its record the file
\* has run.
BeliefInv ==
  \A p \in Proc :
    /\ applied[p] \subseteq effects
    /\ At(p, "record") => Unapplied(p) # {} /\ NextFile(p) \in effects

\* How much of serve a process is through.
ProgressInv ==
  \A p \in Proc :
    /\ pc[p] \in {"count", "create", "listen", "serving"} => effects = Version
    /\ pc[p] \in {"listen", "serving"} => accounts # {}
    /\ ~At(p, "off") => Loadable

\* What a serving process has read.
LoadedInv ==
  \A p \in Proc : At(p, "serving") =>
    /\ AccessParses
    /\ env.tls = "both" => loaded[p][1] = loaded[p][2] /\ loaded[p][1] # 0

StartInv == TypeInv /\ SchemaKnown /\ BeliefInv /\ ProgressInv /\ LoadedInv

-----------------------------------------------------------------------------
(* The next file.                                                          *)

\* Every set of versions that is not empty has a first one.
LEMMA HasLeast ==
  ASSUME NEW T, T \subseteq Nat, T # {}
  PROVE  \E v \in T : \A w \in T : v <= w
<1> DEFINE Less == {ss \in Nat \X Nat : ss[1] < ss[2]}
<1>1. IsWellFoundedOn(Less, Nat)
  BY NatLessThanWellFounded DEF OpToRel
<1>2. \A v, w \in Nat : w < v => <<w, v>> \in Less
  OBVIOUS
<1> HIDE DEF Less
<1>3. PICK v \in T : \A w \in T : <<w, v>> \notin Less
  BY <1>1, WFMin
<1>4. \A w \in T : ~(w < v)
  BY <1>2, <1>3
<1>5. \A w \in T : v <= w
  BY <1>4
<1> QED BY <1>5

\* Migrate takes the first of the files it has yet to run.
LEMMA NextIsFirst ==
  ASSUME NEW p, Unapplied(p) # {}
  PROVE  /\ NextFile(p) \in Version /\ NextFile(p) \notin applied[p]
         /\ \A w \in Version : w < NextFile(p) => w \in applied[p]
<1>1. Unapplied(p) \subseteq Nat /\ Version \subseteq Nat
  BY DEF Unapplied, Version
<1>2. \E v \in Unapplied(p) : \A w \in Unapplied(p) : v <= w
  BY <1>1, HasLeast
<1>3. /\ NextFile(p) \in Unapplied(p)
      /\ \A w \in Unapplied(p) : NextFile(p) <= w
  BY <1>2 DEF NextFile
<1>4. /\ NextFile(p) \in Version /\ NextFile(p) \notin applied[p]
      /\ \A w \in Version : w \in applied[p] \/ w \in Unapplied(p)
  BY <1>3 DEF Unapplied
<1>5. \A w \in Version : w < NextFile(p) => w \notin Unapplied(p)
  BY <1>1, <1>3, <1>4
<1> QED BY <1>4, <1>5

-----------------------------------------------------------------------------
(* The steps.                                                              *)

\* Init establishes the invariant.
LEMMA StartInit == Init => StartInv
<1> SUFFICES ASSUME Init PROVE StartInv
  OBVIOUS
<1>1. TypeInv
  BY DEF Init, TypeInv, States
<1>2. SchemaKnown
  BY DEF Init, SchemaKnown, Prefix
<1>3. BeliefInv /\ ProgressInv /\ LoadedInv
  BY DEF Init, BeliefInv, ProgressInv, LoadedInv, At
<1> QED BY <1>1, <1>2, <1>3 DEF StartInv

\* Steps that change at most the place of one process, which goes no further
\* than it may, keep the invariant.
LEMMA MovesOnly ==
  ASSUME StartInv, NEW p \in Proc, NEW s \in States, Goto(p, s),
         UNCHANGED <<env, applied, dbVars, cert, key, certs, loaded>>,
         s \notin {"record", "serving"},
         s \in {"count", "create", "listen"} => effects = Version,
         s = "listen" => accounts # {},
         s # "off" => Loadable
  PROVE  StartInv'
<1> USE DEF dbVars, At, Goto
<1>1. TypeInv'
  BY DEF StartInv, TypeInv
<1>2. SchemaKnown'
  BY DEF StartInv, SchemaKnown, Prefix
<1>p. \A q \in Proc : pc'[q] = IF q = p THEN s ELSE pc[q]
  BY DEF StartInv, TypeInv
<1>3. BeliefInv'
  <2>1. \A q \in Proc : Unapplied(q)' = Unapplied(q) /\ NextFile(q)' = NextFile(q)
    BY DEF Unapplied, NextFile, Version
  <2> QED BY <1>p, <2>1 DEF StartInv, BeliefInv
<1>4. ProgressInv'
  BY <1>p DEF StartInv, ProgressInv, Loadable, Version
<1>5. LoadedInv'
  BY <1>p DEF StartInv, LoadedInv, AccessParses
<1> QED BY <1>1, <1>2, <1>3, <1>4, <1>5 DEF StartInv

\* Steps that move no process and touch no migration keep the invariant.
LEMMA StandsStill ==
  ASSUME StartInv, UNCHANGED <<env, pc, applied, effects, recorded, loaded>>,
         cert' \in Nat, key' \in Nat, certs' \in Nat,
         accounts \subseteq accounts'
  PROVE  StartInv'
<1> USE DEF At
<1>1. TypeInv'
  BY DEF StartInv, TypeInv
<1>2. SchemaKnown'
  BY DEF StartInv, SchemaKnown, Prefix
<1>3. BeliefInv'
  <2>1. \A q \in Proc : Unapplied(q)' = Unapplied(q) /\ NextFile(q)' = NextFile(q)
    BY DEF Unapplied, NextFile, Version
  <2> QED BY <2>1 DEF StartInv, BeliefInv
<1>4. ProgressInv'
  BY DEF StartInv, ProgressInv, Loadable, Version
<1>5. LoadedInv'
  BY DEF StartInv, LoadedInv, AccessParses
<1> QED BY <1>1, <1>2, <1>3, <1>4, <1>5 DEF StartInv

\* A file runs, or its process ends.
LEMMA RunFileKeeps ==
  ASSUME StartInv, NEW p \in Proc, RunFile(p)
  PROVE  StartInv'
<1> USE DEF dbVars, certVars, At, Goto
<1> DEFINE v == NextFile(p)
<1>1. /\ pc[p] = "migrate" /\ Unapplied(p) # {}
      /\ UNCHANGED <<env, applied, accounts, cert, key, certs, loaded>>
  BY DEF RunFile
<1>2. /\ v \in Version /\ v \notin applied[p]
      /\ \A w \in Version : w < v => w \in applied[p]
  BY <1>1, NextIsFirst
<1>3. CASE v \in effects \/ \E w \in Version : w < v /\ w \notin effects
  <2>1. pc' = [pc EXCEPT ![p] = "off"] /\ UNCHANGED <<effects, recorded>>
    BY <1>3 DEF RunFile
  <2>2. "off" \in States
    BY DEF States
  <2> QED BY <1>1, <2>1, <2>2, MovesOnly
<1>4. CASE v \notin effects /\ \A w \in Version : w < v => w \in effects
  <2>1. /\ effects' = effects \cup {v} /\ pc' = [pc EXCEPT ![p] = "record"]
        /\ recorded' = IF Files[v] # "wrapped" THEN recorded \cup {v} ELSE recorded
    BY <1>4 DEF RunFile
  <2> HIDE DEF v
  <2>p. \A q \in Proc : pc'[q] = IF q = p THEN "record" ELSE pc[q]
    BY <2>1 DEF StartInv, TypeInv
  <2>2. TypeInv'
    BY <1>1, <1>2, <2>1 DEF StartInv, TypeInv, States, Boot, Version
  <2>3. SchemaKnown'
    <3>1. Prefix'
      BY <1>4, <2>1 DEF StartInv, SchemaKnown, Prefix, Version
    <3> QED BY <2>1, <3>1 DEF StartInv, SchemaKnown
  <2>4. BeliefInv'
    <3>1. \A q \in Proc : Unapplied(q)' = Unapplied(q) /\ NextFile(q)' = NextFile(q)
      BY <1>1 DEF Unapplied, NextFile, Version
    <3>2. NextFile(p) \in effects'
      BY <2>1 DEF v
    <3> QED BY <1>1, <2>1, <2>p, <3>1, <3>2 DEF StartInv, BeliefInv
  <2>5. ProgressInv'
    <3>1. \A q \in Proc : pc[q] \notin {"count", "create", "listen", "serving"}
      BY <1>2, <1>4 DEF StartInv, ProgressInv
    <3> QED BY <1>1, <2>p, <3>1 DEF StartInv, ProgressInv, Loadable
  <2>6. LoadedInv'
    BY <1>1, <2>p DEF StartInv, LoadedInv, AccessParses
  <2> QED BY <2>2, <2>3, <2>4, <2>5, <2>6 DEF StartInv
<1> QED BY <1>3, <1>4

\* The upsert.
LEMMA RecordKeeps ==
  ASSUME StartInv, NEW p \in Proc, Record(p)
  PROVE  StartInv'
<1> USE DEF dbVars, certVars, At, Goto
<1> DEFINE v == NextFile(p)
<1>1. /\ pc[p] = "record" /\ recorded' = recorded \cup {v}
      /\ applied' = [applied EXCEPT ![p] = @ \cup {v}]
      /\ pc' = [pc EXCEPT ![p] = "migrate"]
      /\ UNCHANGED <<env, effects, accounts, cert, key, certs, loaded>>
  BY DEF Record
<1>2. v \in effects /\ v \in Version
  BY <1>1 DEF StartInv, BeliefInv, TypeInv
<1> HIDE DEF v
<1>p. /\ \A q \in Proc : pc'[q] = IF q = p THEN "migrate" ELSE pc[q]
      /\ \A q \in Proc : applied'[q] = IF q = p THEN applied[q] \cup {v}
                                                ELSE applied[q]
  BY <1>1 DEF StartInv, TypeInv
<1>3. TypeInv'
  BY <1>1, <1>2 DEF StartInv, TypeInv, States, Boot, Version
<1>4. SchemaKnown'
  BY <1>1, <1>2 DEF StartInv, SchemaKnown, Prefix, Version
<1>5. BeliefInv'
  <2>1. \A q \in Proc \ {p} : Unapplied(q)' = Unapplied(q)
                              /\ NextFile(q)' = NextFile(q)
    BY <1>p DEF Unapplied, NextFile, Version
  <2> QED BY <1>1, <1>2, <1>p, <2>1 DEF StartInv, BeliefInv
<1>6. ProgressInv'
  BY <1>1, <1>p DEF StartInv, ProgressInv, Loadable, Version
<1>7. LoadedInv'
  BY <1>1, <1>p DEF StartInv, LoadedInv, AccessParses
<1> QED BY <1>3, <1>4, <1>5, <1>6, <1>7 DEF StartInv

\* Every action preserves the invariant.
LEMMA StartStep == StartInv /\ [Next]_vars => StartInv'
<1> SUFFICES ASSUME StartInv, [Next]_vars PROVE StartInv'
  OBVIOUS
<1> USE DEF dbVars, certVars, At
<1>s. \A s \in {"off", "open", "versions", "migrate", "count", "create", "listen"} :
        s \in States
  BY DEF States, Boot
<1>1. ASSUME NEW p \in Proc, Start(p) \/ Open(p) PROVE StartInv'
  <2>1. \E s \in {"open", "versions"} : Goto(p, s)
    BY <1>1 DEF Start, Open
  <2>2. /\ UNCHANGED <<env, applied, dbVars, cert, key, certs, loaded>>
        /\ Loadable
    BY <1>1 DEF Start, Open, StartInv, ProgressInv
  <2> QED BY <1>s, <2>1, <2>2, MovesOnly
<1>2. ASSUME NEW p \in Proc, AppliedVersions(p) PROVE StartInv'
  <2>1. /\ pc[p] = "versions" /\ applied' = [applied EXCEPT ![p] = recorded]
        /\ pc' = [pc EXCEPT ![p] = "migrate"]
        /\ UNCHANGED <<env, effects, recorded, accounts, cert, key, certs, loaded>>
    BY <1>2 DEF AppliedVersions, Goto
  <2>p. /\ \A q \in Proc : pc'[q] = IF q = p THEN "migrate" ELSE pc[q]
        /\ \A q \in Proc : applied'[q] = IF q = p THEN recorded ELSE applied[q]
    BY <2>1 DEF StartInv, TypeInv
  <2>2. TypeInv'
    BY <2>1 DEF StartInv, TypeInv, States, Boot, Version
  <2>3. SchemaKnown'
    BY <2>1 DEF StartInv, SchemaKnown, Prefix, Version
  <2>4. BeliefInv'
    <3>1. \A q \in Proc \ {p} : Unapplied(q)' = Unapplied(q)
                                /\ NextFile(q)' = NextFile(q)
      BY <2>p DEF Unapplied, NextFile, Version
    <3> QED BY <2>1, <2>p, <3>1 DEF StartInv, BeliefInv, SchemaKnown
  <2>5. ProgressInv'
    BY <2>1, <2>p DEF StartInv, ProgressInv, Loadable, Version
  <2>6. LoadedInv'
    BY <2>1, <2>p DEF StartInv, LoadedInv, AccessParses
  <2> QED BY <2>2, <2>3, <2>4, <2>5, <2>6 DEF StartInv
<1>3. ASSUME NEW p \in Proc, RunFile(p) PROVE StartInv'
  BY <1>3, RunFileKeeps
<1>4. ASSUME NEW p \in Proc, Record(p) PROVE StartInv'
  BY <1>4, RecordKeeps
<1>5. ASSUME NEW p \in Proc, Migrated(p) PROVE StartInv'
  <2>1. /\ pc[p] = "migrate" /\ Unapplied(p) = {} /\ Goto(p, "count")
        /\ UNCHANGED <<env, applied, dbVars, cert, key, certs, loaded>>
    BY <1>5 DEF Migrated
  <2>2. effects = Version
    BY <2>1 DEF Unapplied, StartInv, BeliefInv, TypeInv
  <2>3. Loadable
    BY <2>1 DEF StartInv, ProgressInv
  <2> QED BY <1>s, <2>1, <2>2, <2>3, MovesOnly
<1>6. ASSUME NEW p \in Proc, CountUsers(p) PROVE StartInv'
  <2>1. /\ pc[p] = "count" /\ UNCHANGED <<env, applied, dbVars, cert, key, certs, loaded>>
        /\ Goto(p, "create") \/ (accounts # {} /\ Goto(p, "listen"))
    BY <1>6 DEF CountUsers
  <2>2. effects = Version /\ Loadable
    BY <2>1 DEF StartInv, ProgressInv
  <2> QED BY <1>s, <2>1, <2>2, MovesOnly
<1>7. ASSUME NEW p \in Proc, CreateAdmin(p) PROVE StartInv'
  <2>1. /\ pc[p] = "create"
        /\ UNCHANGED <<env, applied, effects, recorded, cert, key, certs, loaded>>
    BY <1>7 DEF CreateAdmin
  <2>2. effects = Version /\ Loadable
    BY <2>1 DEF StartInv, ProgressInv
  <2>3. CASE Goto(p, "off") /\ UNCHANGED accounts
    BY <1>s, <2>1, <2>3, MovesOnly
  <2>4. CASE Goto(p, "listen") /\ accounts' = accounts \cup {"admin"}
    <3>p. /\ accounts' # {} /\ pc' = [pc EXCEPT ![p] = "listen"]
          /\ \A q \in Proc : pc'[q] = IF q = p THEN "listen" ELSE pc[q]
      BY <2>4 DEF Goto, StartInv, TypeInv
    <3>1. TypeInv'
      BY <1>s, <2>1, <3>p DEF StartInv, TypeInv, Version
    <3>2. SchemaKnown'
      BY <2>1 DEF StartInv, SchemaKnown, Prefix, Version
    <3>3. BeliefInv'
      <4>1. \A q \in Proc : Unapplied(q)' = Unapplied(q) /\ NextFile(q)' = NextFile(q)
        BY <2>1 DEF Unapplied, NextFile, Version
      <4> QED BY <2>1, <3>p, <4>1 DEF StartInv, BeliefInv
    <3>4. ProgressInv'
      BY <2>1, <2>2, <3>p DEF StartInv, ProgressInv, Loadable, Version
    <3>5. LoadedInv'
      BY <2>1, <3>p DEF StartInv, LoadedInv, AccessParses
    <3> QED BY <3>1, <3>2, <3>3, <3>4, <3>5 DEF StartInv
  <2> QED BY <1>7, <2>3, <2>4 DEF CreateAdmin
<1>8. ASSUME NEW p \in Proc, Listen(p) PROVE StartInv'
  <2>1. /\ pc[p] = "listen"
        /\ UNCHANGED <<env, applied, dbVars, cert, key, certs>>
    BY <1>8 DEF Listen
  <2>2. effects = Version /\ accounts # {} /\ Loadable
    BY <2>1 DEF StartInv, ProgressInv
  <2>3. CASE Goto(p, "off") /\ UNCHANGED loaded
    BY <1>s, <2>1, <2>3, MovesOnly
  <2>4. CASE ~(Goto(p, "off") /\ UNCHANGED loaded)
    <3>1. /\ AccessParses /\ (env.tls = "both" => cert = key /\ cert # 0)
          /\ pc' = [pc EXCEPT ![p] = "serving"]
          /\ loaded' = [loaded EXCEPT ![p] = <<cert, key>>]
      BY <1>8, <2>4 DEF Listen, Goto, PairUsable
    <3>p. /\ \A q \in Proc : pc'[q] = IF q = p THEN "serving" ELSE pc[q]
          /\ \A q \in Proc : loaded'[q] = IF q = p THEN <<cert, key>> ELSE loaded[q]
      BY <3>1 DEF StartInv, TypeInv
    <3>2. TypeInv'
      BY <2>1, <3>1 DEF StartInv, TypeInv, States, Version
    <3>3. SchemaKnown'
      BY <2>1 DEF StartInv, SchemaKnown, Prefix, Version
    <3>4. BeliefInv'
      <4>1. \A q \in Proc : Unapplied(q)' = Unapplied(q) /\ NextFile(q)' = NextFile(q)
        BY <2>1 DEF Unapplied, NextFile, Version
      <4> QED BY <2>1, <3>p, <4>1 DEF StartInv, BeliefInv
    <3>5. ProgressInv'
      BY <2>1, <2>2, <3>p DEF StartInv, ProgressInv, Loadable, Version
    <3>6. LoadedInv'
      <4> SUFFICES ASSUME NEW q \in Proc, pc'[q] = "serving"
                   PROVE  /\ AccessParses'
                          /\ env'.tls = "both" => /\ loaded'[q][1] = loaded'[q][2]
                                                  /\ loaded'[q][1] # 0
        BY DEF LoadedInv
      <4>1. AccessParses' /\ env' = env
        BY <2>1, <3>1 DEF AccessParses
      <4>2. CASE q = p
        BY <3>1, <3>p, <4>1, <4>2
      <4>3. CASE q # p
        BY <3>p, <4>1, <4>3 DEF StartInv, LoadedInv
      <4> QED BY <4>2, <4>3
    <3> QED BY <3>2, <3>3, <3>4, <3>5, <3>6 DEF StartInv
  <2> QED BY <2>3, <2>4
<1>9. ASSUME NEW p \in Proc, Shutdown(p) \/ BootFails(p) PROVE StartInv'
  <2>1. /\ Goto(p, "off")
        /\ UNCHANGED <<env, applied, dbVars, cert, key, certs, loaded>>
    BY <1>9 DEF Shutdown, BootFails
  <2> QED BY <1>s, <2>1, MovesOnly
<1>10. CASE \/ \E a \in {"admin", "other"} : OperatorAdds(a)
            \/ MintBegins \/ Mint \/ MintDies
  <2>1. cert \in Nat /\ key \in Nat /\ certs \in Nat
    BY DEF StartInv, TypeInv
  <2>2. /\ UNCHANGED <<env, pc, applied, effects, recorded, loaded>>
        /\ accounts \subseteq accounts'
        /\ cert' \in Nat /\ key' \in Nat /\ certs' \in Nat
    BY <1>10, <2>1 DEF OperatorAdds, MintBegins, Mint, MintCert, MintKey, MintDies
  <2> QED BY <2>2, StandsStill
<1>11. CASE UNCHANGED vars
  <2>1. /\ UNCHANGED <<env, pc, applied, effects, recorded, loaded, accounts>>
        /\ UNCHANGED <<cert, key, certs>>
    BY <1>11 DEF vars
  <2>2. cert' \in Nat /\ key' \in Nat /\ certs' \in Nat
    BY <2>1 DEF StartInv, TypeInv
  <2> QED BY <2>1, <2>2, StandsStill
<1> QED BY <1>1, <1>2, <1>3, <1>4, <1>5, <1>6, <1>7, <1>8, <1>9, <1>10, <1>11
     DEF Next, Serve

-----------------------------------------------------------------------------
(* What holds of every run.                                                *)

\* The inductive invariant of serve and migrate.go.
THEOREM StartInvariant == Spec => []StartInv
BY StartInit, StartStep, PTL DEF Spec

\* runOne and the files' own transactions: whatever died or ran at once, the
\* schema is that of the first so many files, every recorded file has run, and
\* the only ones that may have run unrecorded are those that begin and commit a
\* transaction without recording themselves in it.
THEOREM SchemaIsKnown == Spec => []SchemaKnown
<1>1. StartInv => SchemaKnown
  BY DEF StartInv
<1> QED BY <1>1, StartInvariant, PTL

\* "a partial run leaves the database at a known version" (migrate.go): so with
\* files like those shipped, or with no transaction of their own, the schema is
\* the recorded one.
THEOREM SchemaStaysRecorded ==
  ASSUME \A v \in Version : Files[v] # "wrapped"
  PROVE  Spec => []SchemaIsRecorded
<1>1. StartInv => SchemaIsRecorded
  BY DEF StartInv, TypeInv, SchemaKnown, Prefix, SchemaIsRecorded
<1> QED BY <1>1, StartInvariant, PTL

\* serve: what answers requests has the whole schema, an account, a complete
\* configuration and a certificate that fits its key, wrapped files or not.
THEOREM WhatServesIsReady == Spec => []ServingIsReady
<1>1. StartInv => ServingIsReady
  BY DEF StartInv, ProgressInv, LoadedInv, ServingIsReady, At, Loadable
<1> QED BY <1>1, StartInvariant, PTL

-----------------------------------------------------------------------------
(* A machine's settings.                                                   *)

\* The page has reported the last save as done, or may still do so.
Asked == last # None /\ last.answer \in {"reloading", "stored", "saved"}

\* The file, the entry's configuration and the store, none of which holds an
\* address that a form brought and that cannot be dialled.  Where the file is not
\* the configuration, it cannot be written and declares no address or name.
ConfigInv ==
  /\ entry # "overlay" => file = config
  /\ file # config => ~Shadowed(file) /\ config.url \notin BadUrl
  /\ store # Torn => store.url \notin BadUrl
  /\ \A q \in Request :
       req[q] # Idle /\ ~Shadowed(req[q].config) /\ entry # "writable"
         => ~Shadowed(file)

\* A save that was reported as done, or will be: the store holds it unless a
\* later one was cut short; a file that can be written holds it too, and any
\* other declares nothing in its way; an uplink started since then uses it.
SavedInv ==
  Asked => /\ last.fields.url \notin BadUrl
           /\ store \in {last.fields, Torn}
           /\ entry = "writable" => config = last.fields
           /\ entry # "writable" =>
                ~Shadowed(file) /\ config \in {file, last.fields}
           /\ last.answer # "stored" /\ plugin \notin {"down", "loading"}
                /\ Kept => InEffect

\* An uplink runs only while the plugin is up; the form whose reload is awaited
\* is answered before another save of its own.
PluginInv ==
  /\ conn # None => plugin = "up"
  /\ plugin = "failed" => file.url \in BadUrl \/ Env.url \in BadUrl
  /\ \A q \in Request : req[q] # Idle /\ req[q].step = "reload" =>
       last # None /\ (last.by = q => last.answer = "reloading")

SetupInv == TypeOK /\ ConfigInv /\ SavedInv /\ PluginInv

\* What settings, forms and saves are made of.
LEMMA SettingFields ==
  /\ Empty \in Fields /\ Empty.url = Absent
  /\ \A f \in Fields :
       /\ f.url \in Url \cup BadUrl \cup {Absent}
       /\ f.nodeId \in Name \cup {Absent}
       /\ f.username \in Person \cup {Absent}
       /\ f.token \in Token \cup {Absent}
       /\ f # Torn
  /\ \A f \in Fields, t \in Token \cup {Absent} :
       /\ [f EXCEPT !.token = t] \in Fields
       /\ [f EXCEPT !.token = t].url = f.url
       /\ [f EXCEPT !.token = t].nodeId = f.nodeId
       /\ [f EXCEPT !.token = t].username = f.username
       /\ [f EXCEPT !.token = t].token = t
<1>1. \A f \in Fields : f # Torn
  <2>1. \A f \in Fields : "url" \in DOMAIN f
    BY DEF Fields
  <2>2. "url" \notin DOMAIN Torn
    BY DEF Torn
  <2> QED BY <2>1, <2>2
<1> QED BY <1>1 DEF Fields, Empty

LEMMA FormFields ==
  /\ \A x \in Form :
       /\ x.step \in {"form", "reload"} /\ x.fields \in Fields
       /\ x.config \in Fields /\ x.held \in Token \cup {Absent}
       /\ [x EXCEPT !.step = "reload"] \in Form
       /\ [x EXCEPT !.step = "reload"].step = "reload"
       /\ [x EXCEPT !.step = "reload"].config = x.config
  /\ \A f, c \in Fields, t \in Token \cup {Absent} :
       LET x == [step |-> "form", fields |-> f, config |-> c, held |-> t]
       IN x \in Form /\ x.config = c /\ x.step = "form"
BY DEF Form

LEMMA SaveFields ==
  /\ \A x \in Save :
       /\ x.by \in Request /\ x.fields \in Fields /\ x # None
       /\ x.held \in Token \cup {Absent} /\ x.answer \in Answers
       /\ \A a \in Answers : /\ [x EXCEPT !.answer = a] \in Save
                                  /\ [x EXCEPT !.answer = a].answer = a
                                  /\ [x EXCEPT !.answer = a].by = x.by
                                  /\ [x EXCEPT !.answer = a].fields = x.fields
  /\ \A q \in Request, f \in Fields, t \in Token \cup {Absent},
        a \in Answers :
       LET x == [by |-> q, fields |-> f, held |-> t, answer |-> a]
       IN /\ x \in Save /\ x.by = q /\ x.fields = f /\ x.answer = a
<1>1. \A x \in Save : x # None
  <2>1. \A x \in Save : "by" \in DOMAIN x
    BY DEF Save
  <2>2. "by" \notin DOMAIN None
    BY DEF None
  <2> QED BY <2>1, <2>2
<1> QED BY <1>1 DEF Save

\* The settings an uplink starts with are a usable connection.
LEMMA ResolvedTypes ==
  ASSUME TypeOK, NEW c \in Fields
  PROVE  /\ ReadSaved \in Fields
         /\ Resolved(c).url \in Url \cup BadUrl \cup {Absent}
         /\ Resolved(c).token \in Token \cup {Absent}
         /\ Complete(c) /\ Resolved(c).url \notin BadUrl
              => Resolved(c) \in UsableSettings
<1>1. ReadSaved \in Fields
  BY SettingFields DEF ReadSaved, TypeOK
<1> DEFINE s == ReadSaved
           n == Setting(c.nodeId, s.nodeId, Env.nodeId)
           r == [url |-> Setting(c.url, s.url, Env.url),
                 nodeId |-> IF n = Absent THEN Hostname ELSE n,
                 username |-> Setting(c.username, s.username, Env.username),
                 token |-> Setting(c.token, s.token, Env.token)]
<1>2. Resolved(c) = r
  BY DEF Resolved
<1>3. s \in Fields /\ Env \in Fields /\ Hostname \in Name
  BY <1>1, SetupAssumption
<1> HIDE DEF s
<1>4. /\ r.url \in Url \cup BadUrl \cup {Absent}
      /\ r.nodeId \in Name
      /\ r.username \in Person \cup {Absent}
      /\ r.token \in Token \cup {Absent}
  BY <1>3, SettingFields DEF Setting
<1>5. r = [url |-> r.url, nodeId |-> r.nodeId, username |-> r.username,
           token |-> r.token]
  OBVIOUS
<1> HIDE DEF r
<1>6. Complete(c) /\ r.url \notin BadUrl => r \in UsableSettings
  BY <1>2, <1>4, <1>5 DEF Complete, UsableSettings
<1> QED BY <1>1, <1>2, <1>4, <1>6

\* What a save stores.
LEMMA StoredFields ==
  ASSUME TypeOK, NEW f \in Fields
  PROVE  /\ Stored(f) \in Fields /\ Stored(f) # Torn
         /\ Stored(f).url = f.url /\ Stored(f).nodeId = f.nodeId
         /\ Stored(f).username = f.username
         /\ f.token # Absent => Stored(f).token = f.token
         /\ f.token = Absent /\ store # Torn
              => Stored(f).token = store.token
<1>1. KeptToken(f) \in Token \cup {Absent}
  BY SettingFields DEF KeptToken, ReadSaved, TypeOK
<1> QED BY <1>1, SettingFields DEF Stored, KeptToken, ReadSaved

\* A save on record is what the form it answers had stored.
LEMMA AnsweredFacts ==
  ASSUME TypeOK, NEW q \in Request, req[q] \in Form, NEW a \in Answers,
         Answered(q, a)
  PROVE  /\ last' \in Save /\ last' # None /\ last'.by = q
         /\ last'.fields = Stored(req[q].fields) /\ last'.answer = a
<1> DEFINE f == Stored(req[q].fields)
           h == IF req[q].fields.token = Absent THEN req[q].held ELSE Absent
           x == [by |-> q, fields |-> f, held |-> h, answer |-> a]
<1>1. last' = x
  BY DEF Answered
<1>2. f \in Fields /\ h \in Token \cup {Absent}
  BY FormFields, StoredFields
<1> HIDE DEF f, h
<1>3. x \in Save /\ x.by = q /\ x.fields = f /\ x.answer = a
  BY <1>2 DEF Save
<1> HIDE DEF x
<1>4. last' \in Save /\ last'.by = q /\ last'.fields = f /\ last'.answer = a
  BY <1>1, <1>3
<1> QED BY <1>4, SaveFields DEF f

\* The end of the process leaves the save on record, or gives up its reload.
LEMMA UnansweredFacts ==
  ASSUME TypeOK, last' = last \/ Unanswered
  PROVE  /\ last' \in Save \cup {None}
         /\ Asked' => /\ Asked /\ last' # None
                      /\ last'.fields = last.fields
                      /\ last'.answer = last.answer
<1>0. last \in Save \cup {None}
  BY DEF TypeOK
<1>1. CASE last' = last
  BY <1>0, <1>1 DEF Asked
<1>2. CASE /\ Unanswered
           /\ last # None /\ last.answer = "reloading"
  <2>1. last' = [last EXCEPT !.answer = "crashed"] /\ last \in Save
    BY <1>0, <1>2 DEF Unanswered
  <2>2. "crashed" \in Answers
    BY DEF Answers
  <2>3. last' \in Save /\ last'.answer = "crashed"
    BY <2>1, <2>2, SaveFields
  <2> QED BY <2>3 DEF Asked
<1>3. CASE /\ Unanswered
           /\ ~(last # None /\ last.answer = "reloading")
  BY <1>0, <1>3 DEF Asked, Unanswered
<1> QED BY <1>1, <1>2, <1>3

\* Every step keeps the types.
LEMMA SetupTypes ==
  ASSUME SetupInv, NodeNext
  PROVE  TypeOK'
<1>0. TypeOK
  BY DEF SetupInv
<1>t. /\ entry' \in Entries
      /\ file \in Fields /\ config \in Fields
      /\ store \in Fields \cup {Torn}
      /\ plugin \in {"down", "loading", "idle", "up", "failed"}
      /\ conn \in UsableSettings \cup {None}
      /\ req \in [Request -> Form \cup {Idle}]
      /\ last \in Save \cup {None}
  BY <1>0 DEF TypeOK, NodeNext
<1>i. [q \in Request |-> Idle] \in [Request -> Form \cup {Idle}]
  OBVIOUS
<1>a. ASSUME NEW q \in Request, req[q] # Idle
      PROVE  /\ req[q] \in Form /\ req[q].fields \in Fields
             /\ Stored(req[q].fields) \in Fields
             /\ [req EXCEPT ![q] = Idle] \in [Request -> Form \cup {Idle}]
             /\ [req EXCEPT ![q].step = "reload"] \in [Request -> Form \cup {Idle}]
             /\ \A a \in Answers : Answered(q, a) => last' \in Save
  <2>1. req[q] \in Form
    BY <1>t, <1>a
  <2>2. \A a \in Answers : Answered(q, a) => last' \in Save
    BY <1>0, <2>1, AnsweredFacts
  <2>3. [req[q] EXCEPT !.step = "reload"] \in Form
    BY <2>1, FormFields
  <2>4. req[q].fields \in Fields
    BY <2>1, FormFields
  <2>5. Stored(req[q].fields) \in Fields
    BY <1>0, <2>4, StoredFields
  <2> QED BY <1>t, <2>1, <2>2, <2>3, <2>4, <2>5
<1>1. CASE NodeStart
  <2>1. last' \in Save \cup {None}
    BY <1>t, <1>1, SaveFields DEF NodeStart, Answers
  <2> QED BY <1>t, <1>1, <2>1 DEF NodeStart, TypeOK
<1>2. CASE Apply
  <2>1. conn' \in UsableSettings \cup {None}
    BY <1>0, <1>t, <1>2, ResolvedTypes DEF Apply
  <2> QED BY <1>t, <1>2, <2>1 DEF Apply, TypeOK
<1>3. CASE Crash
  <2>1. last' \in Save \cup {None}
    BY <1>0, <1>3, UnansweredFacts DEF Crash, Dies
  <2> QED BY <1>t, <1>i, <1>3, <2>1 DEF Crash, Dies, TypeOK
<1>4. ASSUME NEW q \in Request, NEW f \in Forms, Submit(q, f)
      PROVE  TypeOK'
  <2>1. [step |-> "form", fields |-> f, config |-> config,
         held |-> Resolved(config).token] \in Form
    BY <1>0, <1>t, ResolvedTypes, FormFields, SetupAssumption
  <2> QED BY <1>t, <1>4, <2>1 DEF Submit, TypeOK
<1>5. ASSUME NEW q \in Request, Refuse(q) PROVE TypeOK'
  BY <1>t, <1>a, <1>5 DEF Refuse, TypeOK
<1>6. ASSUME NEW q \in Request, SaveWrites(q) PROVE TypeOK'
  <2>1. req[q] # Idle /\ store' = Stored(req[q].fields)
    BY <1>6 DEF SaveWrites
  <2>2. CASE StoresOnly(q)
    BY <1>t, <1>a, <2>1, <2>2 DEF StoresOnly, TypeOK, Answers
  <2>3. CASE Reloads(q, Stored(req[q].fields))
    BY <1>t, <1>a, <2>1, <2>3 DEF Reloads, TypeOK, Answers
  <2> QED BY <1>6, <2>2, <2>3 DEF SaveWrites
<1>7. ASSUME NEW q \in Request, SaveFails(q) PROVE TypeOK'
  BY <1>t, <1>a, <1>7 DEF SaveFails, TypeOK
<1>8. ASSUME NEW q \in Request, CrashWriting(q) PROVE TypeOK'
  <2>1. last' \in Save \cup {None}
    BY <1>0, <1>8, UnansweredFacts DEF CrashWriting, Dies
  <2> QED BY <1>t, <1>i, <1>8, <2>1 DEF CrashWriting, Dies, TypeOK
<1>9. ASSUME NEW q \in Request, Reply(q) PROVE TypeOK'
  <2>1. last \in Save
    BY <1>t, <1>9 DEF Reply, SetupInv, PluginInv
  <2>2. {"saved", "failed"} \subseteq Answers
    BY DEF Answers
  <2>4. \A a \in Answers : [last EXCEPT !.answer = a] \in Save
    BY <2>1, SaveFields
  <2>5. last' \in Save
    BY <1>9, <2>1, <2>2, <2>4 DEF Reply
  <2>3. req[q] # Idle /\ UNCHANGED <<file, config, store, plugin, conn>>
        /\ req' = [req EXCEPT ![q] = Idle]
    BY <1>9 DEF Reply
  <2> QED BY <1>t, <1>a, <2>3, <2>5 DEF TypeOK
<1> QED
  BY <1>1, <1>2, <1>3, <1>4, <1>5, <1>6, <1>7, <1>8, <1>9 DEF NodeNext

\* A machine before its first save.
LEMMA SetupInit ==
  ASSUME NodeInit
  PROVE  SetupInv
<1>1. TypeOK
  BY SettingFields, SetupAssumption DEF NodeInit, TypeOK
<1>2. ConfigInv
  BY SettingFields, SetupAssumption DEF NodeInit, ConfigInv
<1>3. SavedInv
  BY DEF NodeInit, SavedInv, Asked
<1>4. PluginInv
  BY DEF NodeInit, PluginInv
<1> QED BY <1>1, <1>2, <1>3, <1>4 DEF SetupInv

\* A step that takes a form up, drops one or ends the process, and at most cuts
\* the store short, leaves the file and the configuration alone and with them
\* what the save on record has there.
LEMMA ConfigStays ==
  ASSUME SetupInv, NodeNext, UNCHANGED <<file, config>>,
         store' = store \/ store' = Torn,
         \A q \in Request : \/ req'[q] = req[q] \/ req'[q] = Idle
                            \/ req'[q].config = config
  PROVE  ConfigInv'
<1>1. /\ entry # "overlay" => file = config
      /\ file # config => ~Shadowed(file) /\ config.url \notin BadUrl
      /\ store # Torn => store.url \notin BadUrl
      /\ \A q \in Request :
           req[q] # Idle /\ ~Shadowed(req[q].config) /\ entry # "writable"
             => ~Shadowed(file)
  BY DEF SetupInv, ConfigInv
<1>2. file' = file /\ config' = config /\ entry' = entry
  BY DEF NodeNext
<1>3. ASSUME NEW q \in Request, req'[q] # Idle,
             ~Shadowed(req'[q].config), entry # "writable"
      PROVE  ~Shadowed(file)
  <2>1. CASE req'[q].config = config
    BY <1>1, <1>3, <2>1
  <2>2. CASE req'[q] = req[q]
    BY <1>1, <1>3, <2>2
  <2> QED BY <1>3, <2>1, <2>2
<1>4. store' # Torn => store'.url \notin BadUrl
  BY <1>1
<1>5. Shadowed(file)' <=> Shadowed(file)
  BY <1>2 DEF Shadowed
<1>6. \A q \in Request : Shadowed(req[q].config)' <=> Shadowed(req'[q].config)
  BY DEF Shadowed
<1> QED BY <1>1, <1>2, <1>3, <1>4, <1>5, <1>6 DEF ConfigInv

LEMMA SaveStays ==
  ASSUME SetupInv, NodeNext, UNCHANGED <<file, config>>,
         store' = store \/ store' = Torn, last' = last \/ Unanswered,
         UNCHANGED <<plugin, conn>> \/ plugin' = "down"
  PROVE  SavedInv'
<1> SUFFICES ASSUME Asked' PROVE SavedInv'
  BY DEF SavedInv
<1>1. /\ Asked /\ last'.fields = last.fields /\ last'.answer = last.answer
  BY UnansweredFacts DEF SetupInv
<1>2. /\ last.fields.url \notin BadUrl
      /\ store \in {last.fields, Torn}
      /\ entry = "writable" => config = last.fields
      /\ entry # "writable" => ~Shadowed(file) /\ config \in {file, last.fields}
      /\ last.answer # "stored" /\ plugin \notin {"down", "loading"} /\ Kept
           => InEffect
  BY <1>1 DEF SetupInv, SavedInv
<1>3. file' = file /\ config' = config /\ entry' = entry
  BY DEF NodeNext
<1>4. Shadowed(file)' <=> Shadowed(file)
  BY <1>3 DEF Shadowed
<1>5. Kept' => Kept
  BY <1>3 DEF Kept
<1>6. last'.answer # "stored" /\ plugin' \notin {"down", "loading"} /\ Kept'
        => InEffect'
  <2>1. plugin' # "down" => (InEffect' <=> InEffect)
    BY <1>1 DEF InEffect
  <2> QED BY <1>1, <1>2, <1>5, <2>1
<1> QED BY <1>1, <1>2, <1>3, <1>4, <1>6 DEF SavedInv

\* Both, and the plugin with them.
LEMMA StepStays ==
  ASSUME SetupInv, NodeNext, UNCHANGED <<file, config>>,
         store' = store \/ store' = Torn,
         \/ /\ last' = last /\ UNCHANGED <<plugin, conn>>
            /\ \A q \in Request :
                 \/ req'[q] = req[q] \/ req'[q] = Idle
                 \/ req'[q].config = config /\ req'[q].step = "form"
         \/ Dies
  PROVE  SetupInv'
<1>0. /\ TypeOK /\ PluginInv /\ TypeOK'
  BY SetupTypes DEF SetupInv
<1>1. CASE Dies
  <2>1. \A q \in Request : req'[q] = Idle
    BY <1>1 DEF Dies
  <2>2. plugin' = "down" /\ conn' = None /\ Unanswered
    BY <1>1 DEF Dies
  <2>3. ConfigInv' /\ SavedInv'
    BY <2>1, <2>2, ConfigStays, SaveStays
  <2>4. PluginInv'
    BY <2>1, <2>2 DEF PluginInv
  <2> QED BY <1>0, <2>3, <2>4 DEF SetupInv
<1>2. CASE /\ last' = last /\ UNCHANGED <<plugin, conn>>
           /\ \A q \in Request :
                \/ req'[q] = req[q] \/ req'[q] = Idle
                \/ req'[q].config = config /\ req'[q].step = "form"
  <2>1. ConfigInv' /\ SavedInv'
    BY <1>2, ConfigStays, SaveStays
  <2>2. PluginInv'
    <3>1. \A q \in Request : req'[q] # Idle /\ req'[q].step = "reload"
                               => req'[q] = req[q]
      BY <1>2
    <3> QED BY <1>0, <1>2, <3>1 DEF PluginInv
  <2> QED BY <1>0, <2>1, <2>2 DEF SetupInv
<1> QED BY <1>1, <1>2

\* A save that is written and nothing else.
LEMMA SaveStored ==
  ASSUME SetupInv, NodeNext, NEW q \in Request,
         req[q] # Idle, Acceptable(req[q].fields),
         store' = Stored(req[q].fields), StoresOnly(q)
  PROVE  SetupInv'
<1> DEFINE f == req[q].fields
           x == Stored(f)
<1>a. TypeOK /\ ConfigInv /\ PluginInv /\ TypeOK'
  BY SetupTypes DEF SetupInv
<1>b. req[q] \in Form
  BY <1>a DEF TypeOK
<1>0. /\ TypeOK /\ ConfigInv /\ PluginInv /\ req[q] \in Form /\ f \in Fields
      /\ TypeOK'
  BY <1>a, <1>b, FormFields
<1>1. /\ x \in Fields /\ x # Torn /\ x.url = f.url /\ f.url \notin BadUrl
  BY <1>0, StoredFields DEF Acceptable
<1>2. /\ req' = [req EXCEPT ![q] = Idle] /\ file' = file /\ config' = config
      /\ plugin' = plugin /\ conn' = conn /\ entry' = entry
  BY DEF StoresOnly, NodeNext
<1>3. \A p \in Request : req'[p] = IF p = q THEN Idle ELSE req[p]
  BY <1>0, <1>2 DEF TypeOK
<1>4. PICK a \in {"shadowed", "stored", "failed"} :
        /\ Answered(q, a)
        /\ a = "stored" => entry = "none" /\ ~Shadowed(req[q].config)
  BY DEF StoresOnly
<1>5. /\ last' # None /\ last'.by = q /\ last'.fields = x
      /\ last'.answer = a
  BY <1>0, <1>4, AnsweredFacts DEF Answers
<1> HIDE DEF x
<1>6. /\ Shadowed(file)' <=> Shadowed(file)
      /\ \A p \in Request : req'[p] # Idle =>
           (Shadowed(req[p].config)' <=> Shadowed(req[p].config))
  BY <1>2, <1>3 DEF Shadowed
<1>7. ConfigInv'
  BY <1>0, <1>1, <1>2, <1>3, <1>6 DEF ConfigInv, x
<1>8. SavedInv'
  <2>1. a = "stored" => /\ entry = "none" /\ ~Shadowed(file)
                        /\ config = file
    BY <1>0, <1>4 DEF ConfigInv
  <2>2. store' = x
    BY DEF x
  <2> QED BY <1>1, <1>2, <1>5, <1>6, <2>1, <2>2 DEF SavedInv, Asked
<1>9. PluginInv'
  BY <1>0, <1>2, <1>3, <1>5 DEF PluginInv
<1> QED BY <1>0, <1>7, <1>8, <1>9 DEF SetupInv

\* A save that starts a reload: store and configuration hold what was asked for,
\* the file too if it can be written.
LEMMA SaveReloads ==
  ASSUME SetupInv, NodeNext, NEW q \in Request,
         req[q] # Idle, Acceptable(req[q].fields), ~Shadowed(req[q].config),
         store' = Stored(req[q].fields), Reloads(q, Stored(req[q].fields))
  PROVE  SetupInv'
<1> DEFINE f == req[q].fields
           x == Stored(f)
<1>a. TypeOK /\ ConfigInv /\ PluginInv /\ TypeOK'
  BY SetupTypes DEF SetupInv
<1>b. req[q] \in Form
  BY <1>a DEF TypeOK
<1>0. /\ TypeOK /\ ConfigInv /\ PluginInv /\ req[q] \in Form /\ f \in Fields
      /\ TypeOK'
  BY <1>a, <1>b, FormFields
<1>1. /\ store' = x /\ config' = x
      /\ file' = IF entry = "writable" THEN x ELSE file
      /\ plugin' = "loading" /\ conn' = None
      /\ req' = [req EXCEPT ![q].step = "reload"]
      /\ Answered(q, "reloading") /\ entry # "none" /\ entry' = entry
  BY DEF Reloads, NodeNext
<1>2. /\ x \in Fields /\ x # Torn /\ x.url = f.url /\ f.url \notin BadUrl
  BY <1>0, StoredFields DEF Acceptable
<1>3. /\ last' # None /\ last'.by = q /\ last'.fields = x
      /\ last'.answer = "reloading"
  BY <1>0, <1>1, AnsweredFacts DEF Answers
<1> HIDE DEF x
<1>4. entry # "writable" => ~Shadowed(file)
  BY <1>0 DEF ConfigInv
<1>5. entry # "writable" => ~Shadowed(file)'
  BY <1>1, <1>4 DEF Shadowed
<1>6. ConfigInv'
  <2>1. entry' # "overlay" => file' = config'
    BY <1>0, <1>1, SetupAssumption DEF TypeOK
  <2>2. entry' = "writable" => file' = config'
    BY <1>1
  <2>3. config'.url \notin BadUrl /\ store'.url \notin BadUrl
    BY <1>1, <1>2
  <2>4. file' # config' => ~Shadowed(file)'
    BY <1>1, <1>5, <2>2
  <2>5. \A p \in Request : req'[p] # Idle /\ ~Shadowed(req[p].config)'
                             /\ entry' # "writable" => ~Shadowed(file)'
    BY <1>1, <1>5
  <2> QED BY <2>1, <2>3, <2>4, <2>5 DEF ConfigInv
<1>7. SavedInv'
  BY <1>1, <1>2, <1>3, <1>5 DEF SavedInv
<1>8. PluginInv'
  BY <1>1, <1>3 DEF PluginInv
<1> QED BY <1>0, <1>6, <1>7, <1>8 DEF SetupInv

\* What a plugin that loads connects to, where the save on record was kept.
LEMMA AppliesSave ==
  ASSUME SetupInv, Asked, Kept
  PROVE  LET s == last.fields
             r == Resolved(config)
         IN /\ s.url # Absent => r.url = s.url
            /\ s.nodeId # Absent => r.nodeId = s.nodeId
            /\ s.username # Absent => r.username = s.username
            /\ s.token # Absent => r.token = s.token
            /\ s.url # Absent /\ s.token # Absent
                 => Complete(config) /\ r.url \notin BadUrl
<1> DEFINE s == last.fields
           r == Resolved(config)
           v == ReadSaved
<1>1. /\ s.url \notin BadUrl
      /\ store \in {s, Torn}
      /\ entry = "writable" => config = s
      /\ entry # "writable" => ~Shadowed(file) /\ config \in {file, s}
  BY DEF SetupInv, SavedInv
<1>2. \/ config = s
      \/ /\ v = s
         /\ config.url = Absent /\ config.nodeId = Absent
         /\ config.username = Absent /\ config.token \in {Absent, s.token}
  BY <1>1 DEF Kept, ReadSaved, Shadowed
<1>3. /\ r.url = Setting(config.url, v.url, Env.url)
      /\ r.username = Setting(config.username, v.username, Env.username)
      /\ r.token = Setting(config.token, v.token, Env.token)
      /\ LET n == Setting(config.nodeId, v.nodeId, Env.nodeId)
         IN r.nodeId = IF n = Absent THEN Hostname ELSE n
  BY DEF Resolved
<1> HIDE DEF s, r, v
<1>4. \A d, w, e : d # Absent => Setting(d, w, e) = d
  BY DEF Setting
<1>5. \A d, w, e : d \in {Absent, w} /\ w # Absent => Setting(d, w, e) = w
  BY DEF Setting
<1>6. /\ s.url # Absent => r.url = s.url
      /\ s.nodeId # Absent => r.nodeId = s.nodeId
      /\ s.username # Absent => r.username = s.username
      /\ s.token # Absent => r.token = s.token
  <2>1. CASE config = s
    BY <1>3, <1>4, <2>1
  <2>2. CASE /\ v = s
             /\ config.url = Absent /\ config.nodeId = Absent
             /\ config.username = Absent /\ config.token \in {Absent, s.token}
    BY <1>3, <1>5, <2>2
  <2> QED BY <1>2, <2>1, <2>2
<1>7. s.url # Absent /\ s.token # Absent => Complete(config)
  BY <1>6 DEF Complete, r
<1> QED BY <1>1, <1>6, <1>7 DEF s, r

\* Every step of a machine keeps the invariant.
LEMMA SetupStep ==
  ASSUME SetupInv, [NodeNext]_(nodeVars)
  PROVE  SetupInv'
<1>0. /\ TypeOK /\ ConfigInv /\ SavedInv /\ PluginInv
      /\ req \in [Request -> Form \cup {Idle}]
      /\ last \in Save \cup {None}
      /\ config \in Fields /\ file \in Fields /\ Env \in Fields
  BY SetupAssumption DEF SetupInv, TypeOK
<1>1. CASE NodeNext
  <2>0. TypeOK' /\ entry' = entry
    BY <1>1, SetupTypes DEF NodeNext
  <2>1. CASE NodeStart
    <3>1. /\ config' = file /\ file' = file /\ store' = store /\ conn' = conn
          /\ req' = req /\ plugin = "down" /\ plugin' = "loading"
          /\ last' = IF last # None /\ last.answer = "stored"
                     THEN [last EXCEPT !.answer = "saved"] ELSE last
      BY <2>1 DEF NodeStart
    <3>2. /\ last' # None => last # None /\ last'.fields = last.fields
          /\ last # None => last'.by = last.by
          /\ Asked' => Asked
          /\ last # None => last' # None
          /\ last # None /\ last.answer = "reloading" => last' = last
      BY <1>0, <3>1, SaveFields DEF Asked, Answers
    <3>3. conn = None
      BY <1>0, <3>1 DEF PluginInv
    <3>4. /\ Shadowed(file)' <=> Shadowed(file)
          /\ \A q \in Request :
               Shadowed(req[q].config)' <=> Shadowed(req[q].config)
      BY <3>1 DEF Shadowed
    <3>5. ConfigInv'
      BY <1>0, <2>0, <3>1, <3>4 DEF ConfigInv
    <3>6. SavedInv'
      <4> SUFFICES ASSUME Asked' PROVE SavedInv'
        BY DEF SavedInv
      <4>1. /\ last.fields.url \notin BadUrl
            /\ store \in {last.fields, Torn}
            /\ entry = "writable" => config = last.fields
            /\ entry # "writable" => ~Shadowed(file)
            /\ last'.fields = last.fields
        BY <1>0, <3>2 DEF SavedInv, Asked
      <4>2. entry = "writable" => file = config
        BY <1>0 DEF ConfigInv
      <4> QED BY <2>0, <3>1, <3>4, <4>1, <4>2 DEF SavedInv
    <3>7. PluginInv'
      BY <1>0, <3>1, <3>2, <3>3 DEF PluginInv
    <3> QED BY <2>0, <3>5, <3>6, <3>7 DEF SetupInv
  <2>2. CASE Apply
    <3>1. UNCHANGED <<file, config, store, req, last>>
      BY <2>2 DEF Apply
    <3>2. ConfigInv'
      BY <1>1, <3>1, ConfigStays
    <3>3. /\ conn' = None \/ (plugin' = "up" /\ conn' = Resolved(config))
          /\ plugin' = "failed" =>
               Complete(config) /\ Resolved(config).url \in BadUrl
          /\ Complete(config) /\ Resolved(config).url \notin BadUrl
               => conn' = Resolved(config)
          /\ conn' # None => conn' = Resolved(config)
      BY <2>2 DEF Apply
    <3>4. SavedInv'
      <4> SUFFICES ASSUME Asked' PROVE SavedInv'
        BY DEF SavedInv
      <4>1. Asked
        BY <3>1 DEF Asked
      <4>2. Shadowed(file)' <=> Shadowed(file)
        BY <3>1 DEF Shadowed
      <4>3. Kept' => Kept
        BY <2>0, <3>1 DEF Kept
      <4>4. Kept' => InEffect'
        <5> SUFFICES ASSUME Kept' PROVE InEffect'
          OBVIOUS
        <5> DEFINE s == last.fields
                   r == Resolved(config)
        <5>1. /\ s.url # Absent => r.url = s.url
              /\ s.nodeId # Absent => r.nodeId = s.nodeId
              /\ s.username # Absent => r.username = s.username
              /\ s.token # Absent => r.token = s.token
              /\ s.url # Absent /\ s.token # Absent
                   => Complete(config) /\ r.url \notin BadUrl
          BY <4>1, <4>3, AppliesSave
        <5>2. s.url # Absent /\ s.token # Absent => conn' # None
          <6>1. Complete(config) /\ r.url \notin BadUrl
                  => r \in UsableSettings
            BY <1>0, ResolvedTypes
          <6>2. \A u \in UsableSettings : u # None
            <7>1. \A u \in UsableSettings : "url" \in DOMAIN u
              BY DEF UsableSettings
            <7>2. "url" \notin DOMAIN None
              BY DEF None
            <7> QED BY <7>1, <7>2
          <6> QED BY <3>3, <5>1, <6>1, <6>2
        <5>3. conn' # None => conn' = r
          BY <3>3
        <5> HIDE DEF r
        <5> QED BY <3>1, <5>1, <5>2, <5>3 DEF InEffect
      <4> QED BY <1>0, <2>0, <3>1, <4>1, <4>2, <4>4 DEF SavedInv
    <3>5. ASSUME Resolved(config).url \in BadUrl
          PROVE  file.url \in BadUrl \/ Env.url \in BadUrl
      <4>1. Resolved(config).url = Setting(config.url, ReadSaved.url, Env.url)
        BY DEF Resolved
      <4>2. \/ config.url \in BadUrl \/ ReadSaved.url \in BadUrl
            \/ Env.url \in BadUrl
        BY <3>5, <4>1 DEF Setting
      <4>3. ReadSaved.url \notin BadUrl
        BY <1>0, SettingFields, SetupAssumption DEF ConfigInv, ReadSaved
      <4> QED BY <1>0, <4>2, <4>3 DEF ConfigInv
    <3>6. PluginInv'
      BY <1>0, <3>1, <3>3, <3>5 DEF PluginInv
    <3> QED BY <2>0, <3>2, <3>4, <3>6 DEF SetupInv
  <2>3. CASE Crash
    BY <1>1, <2>3, StepStays DEF Crash
  <2>4. ASSUME NEW q \in Request, NEW f \in Forms, Submit(q, f)
        PROVE  SetupInv'
    <3> DEFINE x == [step |-> "form", fields |-> f, config |-> config,
                     held |-> Resolved(config).token]
    <3>1. /\ UNCHANGED <<file, config, store, plugin, conn, last>>
          /\ req' = [req EXCEPT ![q] = x]
      BY <2>4 DEF Submit
    <3>2. x.config = config /\ x.step = "form"
      OBVIOUS
    <3> HIDE DEF x
    <3>3. \A p \in Request : req'[p] = IF p = q THEN x ELSE req[p]
      BY <1>0, <3>1
    <3> QED BY <1>1, <3>1, <3>2, <3>3, StepStays
  <2>5. ASSUME NEW q \in Request, Refuse(q) PROVE SetupInv'
    BY <1>0, <1>1, <2>5, StepStays DEF Refuse
  <2>6. ASSUME NEW q \in Request, SaveFails(q) PROVE SetupInv'
    BY <1>0, <1>1, <2>6, StepStays DEF SaveFails
  <2>7. ASSUME NEW q \in Request, CrashWriting(q) PROVE SetupInv'
    BY <1>1, <2>7, StepStays DEF CrashWriting
  <2>8. ASSUME NEW q \in Request, SaveWrites(q) PROVE SetupInv'
    BY <1>1, <2>8, SaveStored, SaveReloads DEF SaveWrites
  <2>9. ASSUME NEW q \in Request, Reply(q) PROVE SetupInv'
    <3>1. PICK a \in {"saved", "failed"} :
            /\ UNCHANGED <<file, config, store, plugin, conn>>
            /\ req' = [req EXCEPT ![q] = Idle]
            /\ req[q] # Idle /\ req[q].step = "reload"
            /\ last' = IF last.by = q THEN [last EXCEPT !.answer = a] ELSE last
      BY <2>9 DEF Reply
    <3>2. \A p \in Request : req'[p] = IF p = q THEN Idle ELSE req[p]
      BY <1>0, <3>1
    <3>3. last # None /\ (last.by = q => last.answer = "reloading")
      BY <1>0, <3>1 DEF PluginInv
    <3>4. /\ last' # None /\ last'.by = last.by /\ last'.fields = last.fields
          /\ last.by # q => last' = last
          /\ last.by = q => Asked /\ last'.answer = a
      <4>1. a \in Answers /\ last \in Save
        BY <1>0, <3>3 DEF Answers
      <4>2. /\ [last EXCEPT !.answer = a] # None
            /\ [last EXCEPT !.answer = a].by = last.by
            /\ [last EXCEPT !.answer = a].fields = last.fields
            /\ [last EXCEPT !.answer = a].answer = a
        BY <4>1, SaveFields
      <4> QED BY <3>1, <3>3, <4>2 DEF Asked
    <3>5. ConfigInv'
      BY <1>1, <3>1, <3>2, ConfigStays
    <3>6. SavedInv'
      <4>1. /\ Shadowed(file)' <=> Shadowed(file)
            /\ Kept' <=> Kept
            /\ InEffect' <=> InEffect
        BY <2>0, <3>1, <3>4 DEF Shadowed, Kept, InEffect
      <4>2. /\ Asked' => Asked
            /\ last'.answer # "stored" => last.answer # "stored"
        BY <3>3, <3>4 DEF Asked
      <4> QED BY <1>0, <2>0, <3>1, <3>4, <4>1, <4>2 DEF SavedInv
    <3>7. PluginInv'
      BY <1>0, <3>1, <3>2, <3>4 DEF PluginInv
    <3> QED BY <2>0, <3>5, <3>6, <3>7 DEF SetupInv
  <2> QED
    BY <1>1, <2>1, <2>2, <2>3, <2>4, <2>5, <2>6, <2>7, <2>8, <2>9 DEF NodeNext
<1>2. CASE UNCHANGED nodeVars
  BY <1>0, <1>2
     DEF SetupInv, nodeVars, TypeOK, ConfigInv, SavedInv, PluginInv, Asked,
         Shadowed, Kept, InEffect
<1> QED BY <1>1, <1>2

\* The inductive invariant holds.
THEOREM SetupInvariant == NodeSpec => []SetupInv
<1>1. NodeInit => SetupInv
  BY SetupInit
<1>2. SetupInv /\ [NodeNext]_(nodeVars) => SetupInv'
  BY SetupStep
<1> QED BY <1>1, <1>2, PTL DEF NodeSpec

\* save, restart, writeSaved: what the page reported as saved is in effect after
\* the reload and after every later start: an uplink runs and uses it, whether or
\* not the entry's file can be written and whatever became of later saves, unless
\* a store that only it was in was cut short or another token is declared.
THEOREM SavesSurvive == NodeSpec => []SavedSurvives
<1>1. SetupInv => SavedSurvives
  BY DEF SetupInv, SavedInv, Asked, SavedSurvives
<1> QED BY <1>1, SetupInvariant, PTL

\* assertEndpoint: a plugin that fails to load, taking the page that would repair
\* it along, was given an address by its file or its environment that cannot be
\* dialled; no save did that.
THEOREM PageReachable == NodeSpec => []PageStaysReachable
<1>1. SetupInv => PageStaysReachable
  BY DEF SetupInv, PluginInv, PageStaysReachable
<1> QED BY <1>1, SetupInvariant, PTL

\* save: "An empty token field means keep what is stored": whatever saves,
\* crashes and restarts do, a store that held a token holds one, or was cut short.
THEOREM SecretsKept == NodeSpec => SecretKept
<1> DEFINE Held == store # Torn /\ store.token # Absent
                    /\ store' # Torn => store'.token # Absent
<1>1. SetupInv /\ [NodeNext]_(nodeVars) => [Held]_(nodeVars)
  <2> SUFFICES ASSUME SetupInv, NodeNext PROVE Held
    OBVIOUS
  <2>1. CASE store' = store \/ store' = Torn
    BY <2>1
  <2>2. ASSUME NEW q \in Request, SaveWrites(q) PROVE Held
    <3>1. TypeOK /\ req[q] \in Form
      BY <2>2 DEF SetupInv, TypeOK, SaveWrites
    <3>2. req[q].fields \in Fields /\ store' = Stored(req[q].fields)
      BY <2>2, <3>1, FormFields DEF SaveWrites
    <3> QED BY <3>1, <3>2, StoredFields
  <2>3. \/ store' = store \/ store' = Torn
        \/ \E q \in Request : SaveWrites(q)
    BY DEF NodeNext, NodeStart, Apply, Crash, Submit, Refuse,
           SaveFails, CrashWriting, Reply
  <2> QED BY <2>1, <2>2, <2>3
<1> QED BY <1>1, SetupInvariant, PTL DEF NodeSpec, SecretKept

=============================================================================

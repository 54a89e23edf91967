------------------------------ MODULE NodeSetup ------------------------------
(***************************************************************************)
(* How a machine learns which control plane it answers to: the plugin's    *)
(* three sources of settings and its reload (setting, connection, save,    *)
(* restart and apply of dsh/src/index.ts), the setup page's save route     *)
(* (dsh/src/setup.ts) and its file (dsh/src/store.ts).                     *)
(*                                                                         *)
(* save runs without yielding from the moment the form is read to the      *)
(* start of the reload, so it is one step; the form arrives and the reload *)
(* finishes at other times, and the process may end at any.  The loader    *)
(* (Cordis) is modelled from what the plugin says of it: update replaces   *)
(* the entry's configuration and reloads the plugin, and writes it to the  *)
(* configuration file only if the entry has a writable one; it may reject  *)
(* before it changes anything, or after the reload.                        *)
(***************************************************************************)

CONSTANTS Url, BadUrl,  \* addresses that can be dialled; those that cannot
          Name,         \* machine names, the hostname among them
          Hostname,
          Person,       \* console accounts
          Token,        \* secrets
          Env,          \* the settings the environment gives
          Declared,     \* the configuration files the plugin may start with
          Entries,      \* bound: how the plugin is mounted: "writable", an
                        \* entry with a configuration file; "overlay", one
                        \* without; "none", not by the loader at all
          Forms,        \* bound: the forms people post
          Request       \* bound: forms being handled at once

Absent == ""
Fields == [url : Url \cup BadUrl \cup {Absent}, nodeId : Name \cup {Absent},
           username : Person \cup {Absent}, token : Token \cup {Absent}]
Empty == [url |-> Absent, nodeId |-> Absent, username |-> Absent,
          token |-> Absent]

ASSUME SetupAssumption == /\ Hostname \in Name /\ Env \in Fields
                          /\ Declared \subseteq Fields /\ Forms \subseteq Fields
                          /\ Entries \subseteq {"writable", "overlay", "none"}
                          /\ Absent \notin Url \cup BadUrl \cup Name \cup Person
                          /\ Absent \notin Token

\* The settings an uplink may be started with.
UsableSettings == [url : Url, nodeId : Name, username : Person \cup {Absent},
           token : Token]

VARIABLES
  entry,   \* how the plugin is mounted, one of Entries
  file,    \* the entry's configuration on disk
  config,  \* the one apply was last called with
  store,   \* fleet-node.json, or Torn when its writing was cut short
  plugin,  \* "down", "loading", "idle", "up" or "failed"
  conn,    \* the settings of the running uplink, or None
  req,     \* the forms being handled
  last     \* the last save that the store holds or held, and its answer

nodeVars == <<entry, file, config, store, plugin, conn, req, last>>

Torn == <<>>
None == <<>>
Idle == <<>>
Form == [step : {"form", "reload"}, fields : Fields, config : Fields,
         held : Token \cup {Absent}]
Answers == {"reloading", "stored", "saved", "shadowed", "failed", "crashed"}
Save == [by : Request, fields : Fields, held : Token \cup {Absent},
         answer : Answers]

TypeOK ==
  /\ entry \in Entries
  /\ file \in Fields /\ config \in Fields /\ store \in Fields \cup {Torn}
  /\ plugin \in {"down", "loading", "idle", "up", "failed"}
  /\ conn \in UsableSettings \cup {None}
  /\ req \in [Request -> Form \cup {Idle}]
  /\ last \in Save \cup {None}

\* A machine before its first save; dsh has not started yet.
NodeInit ==
  /\ entry \in Entries
  /\ file \in Declared /\ config = file /\ store = Empty
  /\ plugin = "down" /\ conn = None
  /\ req = [q \in Request |-> Idle] /\ last = None

-----------------------------------------------------------------------------
(* Settings.                                                               *)

\* readSaved: a file that cannot be read is nothing saved.
ReadSaved == IF store = Torn THEN Empty ELSE store

\* setting: declared, then saved, then the environment; empty is absent.
Setting(declared, saved, env) ==
  IF declared # Absent THEN declared
  ELSE IF saved # Absent THEN saved ELSE env

\* connection, before it is known to be complete.
Resolved(c) ==
  LET s == ReadSaved
      n == Setting(c.nodeId, s.nodeId, Env.nodeId)
  IN [url |-> Setting(c.url, s.url, Env.url),
      nodeId |-> IF n = Absent THEN Hostname ELSE n,
      username |-> Setting(c.username, s.username, Env.username),
      token |-> Setting(c.token, s.token, Env.token)]

Complete(c) == Resolved(c).url # Absent /\ Resolved(c).token # Absent

-----------------------------------------------------------------------------
(* The plugin's life.                                                      *)

\* dsh starts: the entry's configuration comes from its file.  A save that no
\* reload followed is due from here on.
NodeStart ==
  /\ plugin = "down"
  /\ config' = file /\ plugin' = "loading"
  /\ last' = IF last # None /\ last.answer = "stored"
             THEN [last EXCEPT !.answer = "saved"] ELSE last
  /\ UNCHANGED <<file, store, conn, req>>

\* apply: no uplink without a complete connection, none and no page either
\* with one that assertUsable refuses.
Apply ==
  /\ plugin = "loading"
  /\ IF ~Complete(config) THEN plugin' = "idle" /\ conn' = None
     ELSE IF Resolved(config).url \in BadUrl
     THEN plugin' = "failed" /\ conn' = None
     ELSE plugin' = "up" /\ conn' = Resolved(config)
  /\ UNCHANGED <<file, config, store, req, last>>

-----------------------------------------------------------------------------
(* The save route.                                                         *)

\* The form is posted to the page that is mounted now, which knows the
\* configuration of its own apply.
Submit(q, f) ==
  /\ req[q] = Idle /\ plugin \in {"idle", "up"}
  /\ req' = [req EXCEPT ![q] = [step |-> "form", fields |-> f,
                                config |-> config,
                                held |-> Resolved(config).token]]
  /\ UNCHANGED <<file, config, store, plugin, conn, last>>

\* Mutant: the address is not looked at.
AcceptableAny(f) == TRUE

\* assertEndpoint, for an address that was given.
Acceptable(f) == f.url \notin BadUrl

\* Mutant: the field is stored as it came.
KeptTokenForm(f) == f.token

\* An empty token field keeps the one in the store.
KeptToken(f) == IF f.token # Absent THEN f.token ELSE ReadSaved.token

\* What writeSaved writes.
Stored(f) == [f EXCEPT !.token = KeptToken(f)]

\* The settings whose declared value would win over the one just saved.
Shadowed(c) == c.url # Absent \/ c.nodeId # Absent \/ c.username # Absent

\* A save the store holds: what it wrote, the kept token included, the token
\* that the form asked to keep, and the answer.
Answered(q, answer) ==
  LET f == req[q].fields
  IN last' = [by |-> q, fields |-> Stored(f),
              held |-> IF f.token = Absent THEN req[q].held ELSE Absent,
              answer |-> answer]

Refuse(q) ==
  /\ req[q] # Idle /\ req[q].step = "form" /\ ~Acceptable(req[q].fields)
  /\ req' = [req EXCEPT ![q] = Idle]
  /\ UNCHANGED <<file, config, store, plugin, conn, last>>

\* restart, once the store is written: the loader replaces the entry's
\* configuration and reloads the plugin, its uplink stopped.
Reloads(q, fields) ==
  /\ entry # "none"
  /\ Answered(q, "reloading")
  /\ req' = [req EXCEPT ![q].step = "reload"]
  /\ config' = fields
  /\ file' = IF entry = "writable" THEN fields ELSE file
  /\ plugin' = "loading" /\ conn' = None

\* save ends with the store written and nothing else done: a declared value
\* wins; the plugin has no entry, so restart returns, the page says "Saved" and
\* the uplink runs on as it was; or update rejects before it changes anything.
StoresOnly(q) ==
  /\ \/ Shadowed(req[q].config) /\ Answered(q, "shadowed")
     \/ /\ ~Shadowed(req[q].config)
        /\ \/ entry = "none" /\ Answered(q, "stored")
           \/ entry # "none" /\ Answered(q, "failed")
  /\ req' = [req EXCEPT ![q] = Idle]
  /\ UNCHANGED <<file, config, plugin, conn>>

\* Mutant: the store is left as it was and the loader trusted with the values.
SaveWritesLoaderOnly(q) ==
  /\ req[q] # Idle /\ req[q].step = "form" /\ Acceptable(req[q].fields)
  /\ store' = store
  /\ \/ StoresOnly(q)
     \/ ~Shadowed(req[q].config) /\ Reloads(q, Stored(req[q].fields))

\* save: the store is written; then, unless a declared value wins, restart
\* updates the entry with what the store now holds.
SaveWrites(q) ==
  /\ req[q] # Idle /\ req[q].step = "form" /\ Acceptable(req[q].fields)
  /\ store' = Stored(req[q].fields)
  /\ \/ StoresOnly(q)
     \/ ~Shadowed(req[q].config) /\ Reloads(q, Stored(req[q].fields))

\* writeSaved throws: the file is as it was, or cut short.
SaveFails(q) ==
  /\ req[q] # Idle /\ req[q].step = "form" /\ Acceptable(req[q].fields)
  /\ store' \in {store, Torn}
  /\ req' = [req EXCEPT ![q] = Idle]
  /\ UNCHANGED <<file, config, plugin, conn, last>>

\* What the process leaves of a reload that is not answered.
Unanswered ==
  last' = IF last # None /\ last.answer = "reloading"
          THEN [last EXCEPT !.answer = "crashed"] ELSE last

\* The process ends; forms being handled are lost.
Dies ==
  /\ plugin' = "down" /\ conn' = None
  /\ req' = [q \in Request |-> Idle]
  /\ Unanswered

\* A reload under way has written all it will write.
Crash ==
  /\ plugin # "down"
  /\ Dies
  /\ UNCHANGED <<file, config, store>>

\* The process ends while the file is written, which is truncated first.
CrashWriting(q) ==
  /\ req[q] # Idle /\ req[q].step = "form" /\ Acceptable(req[q].fields)
  /\ store' = Torn
  /\ Dies
  /\ UNCHANGED <<file, config>>

\* entry.update has returned, and the page says "Saved. The plugin reloaded", or
\* has rejected, and the page says why.
Reply(q) ==
  /\ req[q] # Idle /\ req[q].step = "reload" /\ plugin # "loading"
  /\ req' = [req EXCEPT ![q] = Idle]
  /\ \E answer \in {"saved", "failed"} :
       last' = IF last.by = q THEN [last EXCEPT !.answer = answer] ELSE last
  /\ UNCHANGED <<file, config, store, plugin, conn>>

NodeNext ==
  /\ \/ NodeStart \/ Apply \/ Crash
     \/ \E q \in Request :
          \/ \E f \in Forms : Submit(q, f)
          \/ Refuse(q) \/ SaveWrites(q) \/ SaveFails(q)
          \/ CrashWriting(q) \/ Reply(q)
  /\ UNCHANGED entry

NodeSpec == NodeInit /\ [][NodeNext]_nodeVars

-----------------------------------------------------------------------------
\* What the last save wrote is in effect: an uplink runs if it gave an address
\* and a token, and the one that runs uses everything it gave.
InEffect ==
  LET s == last.fields
  IN /\ s.url # Absent /\ s.token # Absent => conn # None
     /\ conn # None => /\ s.url # Absent => conn.url = s.url
                       /\ s.nodeId # Absent => conn.nodeId = s.nodeId
                       /\ s.username # Absent => conn.username = s.username
                       /\ s.token # Absent => conn.token = s.token

\* The loader wrote the save to its file too; or the store is whole, and no
\* other token is declared, which would win.
Kept ==
  \/ entry = "writable"
  \/ store # Torn /\ file.token \in {Absent, store.token}

\* writeSaved, save and restart: what the page reported as saved is in effect
\* after the reload and after every later start of dsh, whether or not the
\* entry's configuration can be written, and whatever became of later saves:
\* the machine does not come back with no uplink or an older one.
SavedSurvives ==
  /\ last # None /\ last.answer = "saved"
  /\ plugin \notin {"down", "loading"} /\ Kept
  => InEffect

\* save: "An empty token field means keep what is stored": no save, and no two
\* saves at once, leave the store without the token it had, unless the file
\* itself was cut short.
SecretKept ==
  [][store # Torn /\ store.token # Absent /\ store' # Torn
       => store'.token # Absent]_nodeVars

\* assertEndpoint: "the refusal belongs at the form": a plugin that fails to
\* load, page and all, does so for an address that the page did not save.
PageStaysReachable ==
  plugin = "failed" => file.url \in BadUrl \/ Env.url \in BadUrl

-----------------------------------------------------------------------------
(* What messages and comments say, and the code does not do.               *)

\* dsh/src/index.ts, save: "also set in this deployment's config file".
ShadowIsDeclared ==
  last # None => (last.answer = "shadowed" => Shadowed(file))

\* dsh/src/setup.ts, page: "A token is stored. Leave this empty to keep it."
TokenKept ==
  /\ last # None /\ last.answer = "saved" /\ last.held # Absent
  /\ plugin \in {"idle", "up"}
  => conn # None /\ conn.token = last.held

\* dsh/src/index.ts, setting: "when it does shadow one, the page says so rather
\* than appearing to ignore the form".
ShadowIsSaid ==
  last # None /\ conn # None => (last.answer = "saved" => InEffect)

\* dsh/src/setup.ts, page: "Saved. The plugin reloaded".
SavedMeansReloaded ==
  /\ last # None /\ last.answer \in {"stored", "saved"}
  /\ plugin \notin {"down", "loading"} /\ Kept
  => InEffect

\* dsh/src/index.ts, save: "The store is what survives a restart."  A later save
\* cut short takes the earlier one with it, on an entry without a file.
SaveOutlivesCrash ==
  /\ last # None /\ last.answer = "saved"
  /\ plugin \notin {"down", "loading"} /\ file.token = Absent
  => InEffect
=============================================================================

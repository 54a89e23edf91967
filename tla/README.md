# dsh-fleet: TLA+ models, model checking and proofs

dsh-fleet puts many `dsh web` machines behind one console. A Go control plane
(`cmd/dshf`, `internal/…`) keeps accounts, machines and an audit log in
PostgreSQL and relays browsers to machines; a TypeScript plugin (`dsh/src`) on
each machine dials out to it over one WebSocket, the *uplink*, and forwards
what comes down that socket to the machine's own local server.

This directory holds TLA+ modules translated from that code, TLC
configurations that check them on small instances, and TLAPS proofs of nearly
all of their safety properties for instances of every size. `PROJECT.json` maps
every definition to the lines it stands for.

## 1. Inventory

| Component | State it keeps | Operations | Talks to |
|---|---|---|---|
| **Uplink connection** `internal/uplink/conn.go`, `dsh/src/uplink.ts` | `pending` (one entry per request: head, fail, chunks, nextSeq), `closed`, `done`; on the node `inFlight` | `Do`, `pump`, `serve`/`dispatch`, `settle`, `cancel`, `shutdown`, `bodyReader.Close`; `serve`, `stream`, `fail`, `onClose` | proxy calls `Do`; frames both ways |
| **Bridged sockets** `conn.go`, `proxy/http.go`, `uplink.ts` | `bridges`, `Bridge.Messages`, `Bridge.up`; on the node `bridges` keyed by id | `OpenWS`, `Send`, `Close`, `dropBridge`, `ws.*` cases of `dispatch`; `bridgeOpen`, `onClose` | proxy's `bridge` handler, local server |
| **Handshake and registry** `handler.go`, `registry.go`, `uplink.ts` | `Registry.conns`; on the node `socket`, `stopped`, retry timer | `ServeHTTP`, `readHello`, `Add`, `Remove`; `connect`, `onClose`, `stop` | nodes and users stores |
| **Heartbeat and presence** `conn.go`, `uplink.ts`, `nodes/store.go`, `console/nodes.go` | `lastPong`, `missedPongs`, column `last_seen_at` | the tickers of both sides, `Touch`, `RecordTelemetry`, `status`, `nodeStatus` | closes the uplink; chooser and `dshf node list` |
| **Machines and enrolment** `nodes/store.go`, `users/tokens.go`, `cmd/dshf/main.go` | tables `nodes`, `user_tokens` | `Register`, `Rotate`, `Revoke`, `Authenticate`, `EnsureOwned`, `whyNotClaimable`, `MintToken`, `RevokeToken`, `AuthenticateToken` | the handshake, the console, `dshf node` |
| **Accounts and sessions** `users/store.go`, `console/auth.go`, `account.go`, `people.go` | tables `users`, `user_sessions` | `Create`, `Authenticate`, `StartSession`, `EndSession`, purge, `SetPassword`, `SetAdmin`, `SetDisabled`, `Delete`, `refuseLockout` | browsers, `dshf user` |
| **Audit recorder** `audit/audit.go` | a queue of 1024, table `audit_log` | `RecordDecision`, `drain`, `write`, stop | the proxy's gate |
| **Node settings and setup page** `dsh/src/index.ts`, `setup.ts`, `store.ts` | `fleet-node.json`, the entry's configuration | `setting`, `connection`, `save`, `restart`, `apply`, `writeSaved` | the dsh loader, a local browser |
| **Proxy: request path, gate, page injection** `proxy/http.go` | none of its own | `ServeHTTP`, `refuse`, `record`, `fail`, `bridge`, `splice` | uplink, registry, audit |
| **Token reveal** `console/account.go` | an in-memory map with expiry | `stash`, `collect`, `MintToken` | user tokens, the account page |
| **Start** `cmd/dshf/main.go`, `config/config.go`, `store/migrate.go`, `certs/selfsigned.go` | `schema_migrations`, `users`, `cert.pem` and `key.pem` | `Load`, `Open`, `Migrate`, `runOne`, `EnsureBootstrapAdmin`, `ParseAccess`, `SelfSigned` | every start, `dshf cert`, `dshf user add` |
| Envelope codec, secrets, pages, overlay, audit query | read-only or pure | | |

What is hard in this code, and what correctness means for it:

* **Four kinds of goroutine share one connection** (callers, pumps, the read
  loop, the heartbeat), channels are looked up under the mutex and used after
  it is released, and every party may leave at any moment. Correct: a body is
  a gapless prefix, an end that looks complete is complete, a slot always has
  somebody who frees it, and a lost socket releases everyone.
* **Ids restart with every connection**, while the node's sockets of the
  previous one still report their end. Correct: a browser gets its own
  messages, a channel is closed once, nothing is registered on a dead
  connection.
* **A node name is a lock held by a goroutine**: if `Remove` is missed once,
  the machine is refused as a duplicate until the control plane restarts.
  Correct: the table names exactly the live handlers, the newcomer loses, a
  machine that is entitled to retry does so and comes back.
* **A handshake is several SQL statements**, and tokens are revoked, accounts
  disabled and names registered between them. Correct: a credential that was
  dead is refused, a name never changes hands.
* **Check-then-act on accounts**: sessions start after a sign-out, the last
  administrator is counted before it is removed.
* **Files and processes**: the setup page writes a file in place, reloads the
  plugin that serves it, and may be cut short anywhere; `dshf cert` writes two
  files that only work together; migrations end the transaction they run in.
  Correct: the recorded schema is the schema, and every failed start is one
  the next start gets past.
* **Two clocks judge one socket**, each in units of the other's frames, and a
  third reading (`last_seen_at`) must agree with them. Correct: a healthy
  uplink is kept, a lost one is noticed, and what is gone reads as offline.
* **The proxy answers before it knows the end**: status and record go out
  before the body, the machine may leave in between, and the recorder may drop,
  fail or stop. Correct: every answer has its decision, every decision its row
  or a warning, and a short body is said to be short.

`PROJECT.json` lists these as hazards, each at its line.

## 2. Modules

| Module | Models | Built on | Proofs |
|---|---|---|---|
| `RequestContract` | what a caller may rely on from `Do` and its body (abstract) | | |
| `UplinkConn` | one connection and the requests multiplexed over it | | `UplinkConnProofs` |
| `UplinkRefinement` | the mapping under which it implements the contract | `UplinkConn`, `RequestContract` | `UplinkConnProofs` |
| `UplinkBridge` | bridged sockets over successive connections | | `BridgeProofs` |
| `Fleet` | handshake, registry, reconnecting clients, restarts | | `FleetProofs` |
| `Heartbeat` | the timers of both ends, `last_seen_at` and its readings | | `HeartbeatProofs` |
| `Enrolment` | machine and user tokens, ownership of names | | `EnrolmentProofs` |
| `AccountPage` | tokens minted and revealed once | `Enrolment` | `EnrolmentProofs` |
| `Accounts` | accounts, logins, sessions, the administrators' page | | `AccountsProofs` |
| `Audit` | the recorder's queue, goroutine and stop function | | `GatewayProofs` |
| `Gateway` | a browser request through gate, lookup, uplink, injection | `Audit`, `RequestContract` | `GatewayProofs` |
| `NodeSetup` | settings, setup page, store file, reloads and crashes | | `StartupProofs` |
| `Startup` | `dshf serve` in several processes, `dshf cert` | | `StartupProofs` |

The `MC…` modules instantiate them for TLC. The modules meet at named points.

* `Gateway` sees an uplink only through `RequestContract` (theorem
  `UsesContract`), and `UplinkConn` implements that contract (theorem
  `ContractIsKept`), so what `Gateway` shows holds with the real connection
  below it. `Gateway` extends `Audit`: a
  request handler's `Decide` is `RecordDecision`, and the recorder's goroutine
  and stop function run beside the handlers.
* `AccountPage` extends `Enrolment`: the token whose plaintext waits in the map
  is the one handshakes use, and account and token may go while it waits.
* `Fleet` treats everything between `welcome` and the end of `serve` as one
  state, which is what `UplinkConn` opens up (`HandlerReturns` there is
  `ServeEnds` here, `SendPanics` is `ServePanics`). `HeartbeatLost` of both is
  what `Heartbeat` times. `Fleet`'s `cred` is the verdict that `Enrolment`
  computes statement by statement.
* A deletion that fails because the account owns machines is a step that
  `Enrolment!Delete` refuses and one of the failures of
  `Accounts!RequestFails`. `Startup` ends with the account from which
  `Accounts` begins.

### How state and actions correspond to the code

**UplinkConn.** A request is its correlation id, a chunk its position in the
node's body; `Nil` is the nil chunk that marks `end`. `head`, `fail` and
`chunks` are Go's channels with capacities 1, 1 and `StreamBuffer`. An action
is what runs between two points where another goroutine can get in: `Do` is
`DoRegister` (under `c.mu`), `DoWrite`, then one action per case of its
`select`; `dispatch` of a data frame is `DispatchData` (lookup and sequence
check) followed by `SendChunk`, because the channel may be closed or full in
between; `shutdown` is a drain under the mutex, one close per request, and the
closing of `done`. `SendPanics` is Go's panic on a closed channel: the
deferred calls run and net/http recovers it. The node's `serve` and `stream`
are `NodeReq`, `NodeHead`, `NodeData`, `NodeEnd`, `NodeErr`; `MisSequence`
adds a node that loses or repeats a data frame.

**UplinkBridge.** A bridge is a pair of connection and id, because the node's
map is keyed by the id alone. `OpenWS` and the proxy's `bridge` handler are
one goroutine (`open`), the relay loop another. A local socket has its own
life (`sock`): told to close, it reports its end later, possibly on another
connection. That report runs `this.bridges.delete(frame.id)`, whatever socket
the entry names by then: it may drop the entry of the next connection's socket
with the same id, which `onClose` then misses. Such a socket outlives its uplink
too and sends into the bridge of a third connection that reuses the id. The
history variable `strays` records the sockets this happens to, and
`BridgeIntegrity` promises order to every bridge that no stray can reach
(`~Fouled(b)`). It takes three connections to see a bridge spoilt so; the run has
two, the theorem has no bound.

**Fleet.** A slot is one accepted socket and its `ServeHTTP`. Handler states
are the points between its calls: hello, auth, add, record, welcome, serve,
remove; the last four are those in which the deferred `Remove` is armed.
`Restart` is the end and new start of the control plane's process.

**Enrolment** and **Accounts.** One step per SQL statement or transaction,
with the constraints the migrations declare (`nodes_one_credential`, cascades,
`SET NULL`). A secret is its identity: hashing is not modelled. History
variables (`dead`, `epoch`, `since`, `raced`) record what was true when a
handshake or a login began. A change on the administrators' page is marked as well:
`raced`, if another change moved the set of administrators after this one passed
`refuseLockout`, and `unchecked`, if a query of `refuseLockout` failed and the
code went on.

**AccountPage.** A reveal is identified with its token and moves from "minted"
(after the insert) to "fresh" in the map, "stale" after two minutes, and
"gone". Anybody may follow the redirect, any number of times.

**Audit.** `drain`'s `select` may take an entry or see the cancelled context;
an insert in its main loop uses that context, one in the flush does not.

**RequestContract.** A call is idle, waiting, answered or failed; the machine's
side idle, working, open, ended or lost; the body hands over positions. Frames,
ids, goroutines and slots do not appear.

**Gateway.** One handler per request; a step is what it does between two waits.
Selection, gate, lookup and record need none, so `Choose`, `Deny` and `Offline`
answer in one step and `Forward` leads on; then the handler waits for the
browser's own body (`ReadBody`), for `Do` (`Fail`, `HeadArrives`), and for each
chunk, buffered for injection (`Buffer`, `Splice`, `BufferFails`) or passed on
(`Stream`, `StreamEnds`). A method is its class in the gate's two lists.

**Heartbeat.** Timers are countdowns in units of 5 s, with the code's own
values. The connection begins where `newConn` sets `lastPong`; `RecordHello`
(10 s) and the write of `welcome` (30 s) come before `serve` starts the ticker, so
the silence and the ticker do not count from the same moment. Whatever takes
time starts in one action and ends in another, with its deadline between them: a
ping is due (`HeartbeatPings`), is on the wire (`PingWritten`, perhaps late, or
`WriteTimesOut`), then its `Touch` returns (`TouchReturns`), which may be after the
connection has ended, since its context is not the connection's; `ws.Close` takes
up to 10 s. The ticker runs on meanwhile and keeps one tick. `Tick` lets a unit
pass when nothing is due. A cut direction loses frames silently. While both ends
hear each other, frames and writes take at most `Delay`; after that a write may
wait for its whole time-out. `lost` measures, per end, how long nothing has
reached it. A node that still waits for its `welcome` has no timer.

**Startup.** A process is at a point of `serve`; a step is a statement or a
transaction. A migration is a number and the way its file is written: "own"
(`BEGIN`, `COMMIT`, its own insert, as both shipped files), "plain" (none, so
`runOne`'s transaction holds it with its upsert) or "wrapped" (`BEGIN` and
`COMMIT` only). The certificate and the key carry the number of the run that
wrote them.

**NodeSetup.** `save` does not yield between reading the form and the start of
the reload, so it is one step; a crash may cut the file short inside it. The
dsh loader is external, modelled from what `index.ts` says of it. The plugin may be
mounted in three ways (`entry`): by an entry with a configuration file, by one
without (an overlay), or not by the loader. A save that reaches the store ends in
one of five: a declared value wins, and nothing is reloaded; there is no entry, so
`restart` returns, the page says "Saved" and the old uplink runs on; `update`
rejects before it changed anything, and the form is answered 400 with the store
written; it rejects after the reload; or the plugin reloads and the page says so.

## 3. Runs

| Run | Instance | Shows |
|---|---|---|
| `uplink_safety` | 2 requests, 2 chunks, channels of 1 | `StreamIntegrity`, `CleanEOF`, `DoneReleases`, `AbandonedIsTold`, `OnlyAWedgeBlocks` |
| `uplink_live` | 1 request, 3 chunks, channel of 1, a node that mis-sequences | `ImplementsContract` (refinement) against such a node; `EveryoneReleased`, `AbandonedWorkStops`, `HandlerEnds` |
| `uplink_wedge` | 1 request, channel of 1 | a disagreement of code and text, section 6 |
| `bridge_safety` | 2 connections, 1 id, 2 messages, channel of 1 | `ClosedOnce`, `BridgeIntegrity`, `NobodyWaitsOnABridge` |
| `bridge_live` | 1 connection, 1 id, 2 messages | `OpenReturns`, `BridgeDiesWithUplink` |
| `fleet` | 2 clients of one name (one with a user token), 2 slots, 2 faults | `RegistryExact`, `NobodyStranded`, `GoodClientRetries`, `ComesOnline` |
| `heartbeat` | the code's intervals and deadlines, frames and healthy writes of up to 5 s, 1 failing `RecordHello` or `Touch` | `HealthyIsKept`, `LossIsNoticed`, `HealthyReadsOnline`, `GoneReadsOffline` |
| `enrolment` | 2 accounts, 2 user tokens, 1 name, 2 machine tokens, 2 handshakes, with the account page | `VerdictStands`, `DeadIsRefused`, `OwnerStable`, `RevocationHolds`, `ShownOnce` |
| `accounts` | 2 accounts, 2 sessions, 1 login, 2 changes in flight, 1 fault | `SignOutIsComplete`, `LockoutNeedsARace` |
| `gateway` | 2 requests, the access levels `none` and `read` (what `full` lets through, `read` does for some methods), 2 chunks, pages of up to 2, queue of 1, 1 failing insert, the machine changes once | `AnswersAreRecorded`, `TrailIsComplete`, `RowsInOrder`, `StopNeverWaits`, `ShortIsSaid` |
| `setup` | 2 forms at once, 3 ways to be mounted, 3 declared configurations | `SavedSurvives`, `PageStaysReachable`, `SecretKept` |
| `startup` | 2 processes, 3 migrations (two as shipped, one plain), every environment, 2 faults, 2 runs of `dshf cert` | `SchemaIsRecorded`, `ServingIsReady`, `EventuallyServes` |

The type invariants are proved rather than run, and so are five properties that the
proofs of others rest on (`NothingAfterClosed`, `SlotOwned`, `NoOrphanBridge`,
`OneCredential`, `NewcomerLoses`: section 4); `AuditSafety.cfg` checks the
recorder by itself with a longer queue, and that the stop function returns
(`StopReturns`).

**The refinement.** `UplinkRefinement` maps `Do`'s program counter to the call,
the node's state to the machine's side, and `produced`, `delivered` and `body`
as they are. Everything else (frames, channels, slots, the read loop, shutdown)
is hidden. Each of the code's returns must be a step the contract allows: a
clean end only after the last byte, nothing after an end, one outcome per call.
A connection lost under several requests is one step of the contract (`Lose`
takes a set), because `onClose` aborts them all at once. The run has one request;
the proof covers any number.

**Why the bounds are enough.** Channels of one slot and three chunks make "full",
"empty" and "one behind" all happen; two requests are what multiplexing needs
for one to disturb another, and the proofs cover any number. Two connections
are what reuse of ids needs. Two clients of one name and two slots are what a
duplicate and a reconnect against a lingering handler need; again the proofs
cover any number. Two accounts racing for one name, a token each, and two
handshakes let every pair of statements interleave; a third party adds only
more of the same. Two administrators with a change each, of themselves or of each
other, are what it takes to overtake a check; the proofs cover any number. Two
requests make two decisions, which overflow a queue of one with the
goroutine elsewhere; one change of the machine's presence falls before the
gate, between gate and lookup, or under the request. A page of two chunks can
be complete, cut short, or at the limit. Two starting processes, three files
and two deaths are what a collision inside a file and a death between a file
and its record need.

`Heartbeat` uses the code's values rather than small ones, since they are what
is in question. 5 s is the longest delay, in the module's units, for which
`HealthyIsKept` holds: with `Delay = 2`, frames and writes of half a period, TLC
finds a healthy connection that the control plane closes, and so it does with a
`RecordHello` of 25 s. The reason is where `lastPong` starts. An 8 s `RecordHello`
and a first pong 44 s after `serve` began, because frames took 12 s each way, make
the tick at 40 s see 48 s of silence, more than the 45 s it allows. The network
may do that, so the property is about a network faster than that, and section 4
says how much faster. The bounds of `LossIsNoticed` and `GoneReadsOffline` are
written out in the module (`NoticeByCP`, `NoticeByNode`, `OnlineFor`): 95 s for the
control plane (the last silence that passes, a ping that waits 30 s, a `Touch` of
5 s, then `ws.Close`), 65 s for the node, and 145 s until a machine that is gone
reads as offline everywhere. They are exact: with any of them one unit smaller TLC
finds a counterexample. `WriteTimeout` counts no time for other writes that hold
`writeM` before; in the code each of those may add its own time-out, which makes
the constant larger and the theorems, which hold for any value, no weaker.
Requests, sessions' rows, tokens and accounts are not reused after they end.
Symmetry is used only in runs without liveness.

**Deadlock** is checked in `heartbeat`, where time must always be able to pass.
Every other system may rest (no request, no browser, everything saved), and the
bounds end behaviours that the code would continue. `StopNeverWaits` is the
deadlock question that matters in `gateway`: a recorder told to stop always has
a next step of its own.

**Fairness**, and why the code justifies it. Goroutines and event handlers
run when they can (`WF` on `Caller`, `Pump`, `Reader`, `Handles`, `Opener`,
`Relay`, `Drain`); timers fire (the heartbeats, `OpenWS`'s 15 s, the retry
timer); a process that exited is started again (`docker-compose.yml`:
`restart: unless-stopped`) and a `dshf cert` that does not die ends; a browser
that keeps its response open keeps reading; a node handles the frames it
receives, and a request it was told to abort ends, since `fetch` rejects on its
signal. Nothing obliges a browser to ask or to leave, the
network to fail, a local server to answer, or a person to do anything: an
event stream never ends, and no property needs it to.

`EveryoneReleased` and `HandlerEnds` have one exception written into them,
`Wedged`: the read loop waits for room in the channel of a request whose
caller gave up before its head. Without the exception the property is false
(section 6).

## 4. Proofs

The theorems hold for every value of the constants that satisfies the module's
named assumption, which says no more than what kind of value each is: bounds and
periods are naturals, a channel has at least one slot, every client has a name,
`NoSlot` is not a slot, an absent setting is not a setting. Where a theorem needs
more, its hypothesis is part of its statement and listed below with what the code
makes of it.

| Property | Theorem | Hypothesis |
|---|---|---|
| `NothingAfterClosed`, `DoneReleases`, `SlotOwned`, `StreamIntegrity`, `CleanEOF` | `UplinkConnProofs` | |
| `AbandonedIsTold`, `OnlyAWedgeBlocks` | `AbandonedIsToldHolds`, `OnlyAWedgeBlocksHolds` | |
| `Backlog` falls with every step of the read loop after a loss | `ReadLoopRunsDry` | |
| `ImplementsContract` | `ContractIsKept` | |
| `ClosedOnce`, `NoOrphanBridge`, `BridgeIntegrity`, `NobodyWaitsOnABridge` | `BridgeProofs` | |
| `RegistryExact`, `OneConnectionPerNode`, `OnlyAuthenticated`, `NewcomerLoses`, `GoodClientRetries`, `NobodyStranded` | `FleetProofs` | |
| `LossIsNoticed` | `LossNoticed` | |
| `GoneReadsOffline` | `GoneMachinesReadOffline` | `offlineAfter` is longer than `RecordHello`, a heartbeat period and `ws.Close` together (60 s against 10 s + 20 s + 10 s) |
| `HealthyReadsOnline` | `HealthyMachinesReadOnline` | `offlineAfter` is longer than the slowest query or handshake, a period, a write and a `Touch` together (60 s against 15 s + 20 s + 5 s + 5 s) |
| `HealthyIsKept` | `HealthyConnectionsStay` | frames and writes take less than half a period and than `writeTimeout` (5 s against 10 s and 30 s); a write and a `Touch` fit in a period (10 s against 20 s); `RecordHello` and the welcome fit in a period and the grace (15 s against 25 s) |
| `VerdictStands`, `DeadIsRefused`, `OneCredential`, `OwnerStable`, `RevocationHolds`, `ShownOnce` | `EnrolmentProofs` | |
| `SignOutIsComplete` | `SignOutsAreComplete` | |
| `LockoutNeedsARace` | `LockoutsAreRaces` | |
| `RowsInOrder`, `AnswersAreRecorded`, `TrailIsComplete`, `ShortIsSaid` | `GatewayProofs` | |
| `Work` falls with every step of the recorder's goroutine | `DrainRunsDry` | |
| `SchemaIsRecorded` | `SchemaStaysRecorded` | no file begins and commits a transaction without recording itself (the shipped ones do not) |
| `ServingIsReady` | `WhatServesIsReady` | |
| `SavedSurvives` | `SavesSurvive` | |
| `PageStaysReachable` | `PageReachable` | |
| `SecretKept` | `SecretsKept` | |

None of these is inductive by itself. How each proof strengthens it:

**`UplinkConnProofs`.** The argument has three layers.

1. `TypeInv`: types, and that the read loop holds an item while it sends.
2. `ConnInv`: where the read loop is against the flags shutdown sets
   (`LifeInv`); a request that was registered is still so, or shutdown holds
   it, or its chunks are closed (`ReleaseInv`, which gives `DoneReleases`); a
   pump exists only after a head (`BodyInv`).
3. `ReqInv` (a `req` frame is taken up once, so a node that has ended stays
   ended), `FrameInv` (an `end` frame tells the truth), `HandInv` (what
   dispatch holds is the last chunk it counted), and `ResponseOK`: up to its
   first nil, the channel holds consecutive chunks that start after those
   already taken, and `nextSeq` counts what was taken, waits or is held. From
   it, what is delivered is a prefix and a clean end comes after the last
   chunk.

The third layer is needed because between a sequence check and the pump's
write a chunk is in one of three places, and any goroutine may close the
channel meanwhile. `ContractIsKept` adds what the contract's steps ask for:
a clean end, in the channel or already read, is one the machine reached
(`TruthInv`), and a head or an answer exists only for work the machine took up
(`CarryInv`). Each action is then a step of the contract under the mapping, or
leaves it alone.

Two more parts say who still waits for whom. `AbandonedIsTold`: a `req` still on
the wire to the node has its `cancel` behind it once its caller, its pump or
`bodyReader.Close` gave up (`TellInv`), since the caller writes `req` before it
can do any of these. `OnlyAWedgeBlocks`: a head is sent once (`HeadInv`), and while
the read loop runs, a caller that has not returned has its slot and finds the head
in front of everything else the node says of its request (`WaitInv`); so nothing
of a request can block the loop before its caller has a head to take, unless that
caller has gone. `ReadLoopRunsDry` is a variant: once the socket is lost, two for
each frame that had arrived and one for what the loop holds never grows, and falls
with each of the loop's steps until `shutdown`.

**`BridgeProofs`.** Ids are not reused within a connection, so a bridge that is
still to be opened is untouched (`FreshInv`); it has exactly one party that may
still close its channel, the map or shutdown's list (`CloseInv`). For order,
the messages of one bridge on their way are numbered through (`FlowInv`): what
the browser has, what waits in `Messages`, what `dispatch` holds, and the frames
behind, up to what the socket has sent. The count over the queue of frames is
carried by a function that the invariant says exists (`Numbered`), not by
recursion. A socket that can still send belongs to the connection that is up, or
is a stray (`SockInv`), and only strays can break the numbering.

`NobodyWaitsOnABridge` says that bridges, unlike requests, know no wedge. A bridge
that a handler holds is in the map, on shutdown's list or closed, and one in the
map has its handler (`HeldInv`): `OpenWS` drops its bridge on every way out, where
`Do` may leave its slot behind.

**`FleetProofs`.** The inductive invariant is `TypeOK /\ RegistryExact /\
AuthInv`; `RegistryExact` must speak of the handler's state rather than of its
socket, because an entry outlives its socket until the deferred `Remove` runs.
`GoodClientRetries` adds that a client's current socket is one it dialled itself and
that no code the client takes as fatal ever closes a socket dialled with a good
machine token (`CloseInv`). `NobodyStranded` adds that a handler leaves a socket
open behind it only with the welcome on the wire (`StrandInv`): a client has no
timer of its own before its welcome, so an early return that forgot to close
would strand it.

**`HeartbeatProofs`.** Ages, countdowns and the silence are related to `lost`, the
time since an end lost the other. Nothing arrives late at an end that still
reads (`AgeInv`), and nothing is sent any more to one that has lost the other
(`QuietInv`), so whatever it reads was sent before the loss. Hence `lastPong`
understates the loss by at most a delay (`SilenceInv`), and what the node has still
to count shrinks as the loss grows (`NodeInv`). Nothing takes longer than its
deadline (`WaitInv`); so wherever `ServeHTTP` and `heartbeat` are, `WatchInv` says
how long ago the loss can have been at most, and `RowInv` how late the row can be,
a late `Touch` or snapshot included. This needs no relation between the constants.

That a healthy machine's row is fresh does (`FreshInv`: the row's age by where the
loop is), and so does that a healthy uplink is kept. `PulseInv` is its rhythm, in
four parts: the silence of the handshake, up to the welcome's arrival (`StartInv`);
a ping and its `Touch` are done by the next tick (`BeatInv`); the silence is that
of the node's interval, of one more while a pong is on its way, or still that of
the handshake (`PongInv`); and the next ping arrives before the node has counted
three (`CountInv`). Its hypotheses are what these need. Twice `Delay` below
`Interval` and the limit on the handshake cannot be dropped (section 3); the one on
`Touch` is what this argument asks: TLC finds no counterexample with a `Touch` of
20 s. For `GoneReadsOffline` the registry must have let go of the connection by the
time the row is too old.

**`EnrolmentProofs`** covers `Enrolment` and `AccountPage` above it. A row has one
credential (`RowInv`, the constraint of the migration); a handshake works on a
credential that was issued and has found what its next statement relies on
(`PathInv`, `VerdictInv`); a credential that was dead when the handshake began
gets no further than the query that notices (`DeadInv`). `OwnerStable` follows
from what each statement writes, `ShownOnce` from a reveal that leaves the map
before it is shown. `RevocationHolds` needs the verdicts: `EnsureOwned` lifts a
revocation without asking who placed it, and only the queries before it make sure
that it is the owner's own claim (a row that does not exist is not revoked,
which `RowInv` has for this).

**`AccountsProofs`.** Every session that exists, and every login between its two
queries, has seen the last sign-out or is marked as one that raced it
(`SessionInv`, `LoginInv`). For the guard: a change that
has passed its queries and that no other change has overtaken leaves some
administrator other than its target, or there was none (`Harmless`). Whatever moves
the set of administrators marks the changes it overtakes, and a change that is
made takes at most its own target out of the set. No bound on the changes at
once is assumed.

**`GatewayProofs`** covers `Audit` and `Gateway` above it. A decision is in a row,
in the goroutine's hand, in the queue, or warned of (`KeptInv`), and these come in
the order of the decisions (`OrderInv`). Above that, where a handler is fixes
whether its decision was made and which (`DecidedInv`), and what it has passed on
against what the contract has handed it (`WholeInv`). `DrainRunsDry` is the half
of "the stop function returns" that can be proved here: no step adds to the
recorder's work (what waits, what may still be decided, and a rank for where the
goroutine is) and each of the goroutine's steps takes from it. The other half,
that it always has a step of its own, is `StopNeverWaits`. `UsesRecorder` and
`UsesContract` say that `Gateway`'s steps are steps of the two modules it stands
on.

**`StartupProofs`.** The schema is that of the first so many files, whoever died
(`Prefix`); a process believes only what is so (`BeliefInv`), and how far it has
come says what it has established (`ProgressInv`, `LoadedInv`). `SchemaIsKnown`
holds for any files: one that ran and is not recorded is one that commits on its
own. The next file is the least one not applied, which well-founded induction
gives.

Its second half is about a machine's settings, `NodeSetup`; the two modules share
no name and no state, and each theorem speaks of one of them.
The file and the entry's configuration are one unless the plugin is mounted as an
overlay; where they differ, nothing the file declares is in a save's way, since the
page that started the reload knew a configuration without a declared address or
name (`ConfigInv`). Neither a form nor the store brings in an address that cannot
be dialled. From a save's answer on, the store holds what it asked for, unless a
later save was cut short, a file that can be written holds it too, and any uplink
started since then uses it (`SavedInv`). A save that was only stored, for want of
an entry, counts from the next start on. There has to be an uplink: a save with an
address and a token that leaves the plugin idle breaks the invariant. A second
save, a crash in the middle of one and a restart from a file that lags behind
either keep it or replace the save on record. While a form's reload is awaited,
the save on record is that form's, still open, or a later one (`PluginInv`).

**Only model-checked.** Every liveness property, and `StopNeverWaits` and
`DeleteDeletes`, which are about what is enabled: fairness and `ENABLED` are beyond
the prover. For three of them the safety half is proved: that the recorder's
work runs out (`DrainRunsDry`), that the read loop's does (`ReadLoopRunsDry`) and
waits for nobody who has gone but for the one wedge (`OnlyAWedgeBlocks`), and that a
node is told of abandoned work (`AbandonedIsTold`); that these steps are then taken
(`StopReturns`, `HandlerEnds`, `AbandonedWorkStops`) is TLC's part. No module uses
recursion over data.

## 5. Not modelled, and why

* Timing outside `Heartbeat`: backoff and time-outs are steps that may happen
  once their cause exists; how long they take is not modelled.
* Contents of frames, headers, paths and pages; which methods the gate's lists
  name, where `splice` puts its tag, `sanitiseName`, payload encoding: string
  functions without state.
* Browser-to-node messages of a bridge: the downlinks carry none. That `Send`
  may fail is modelled.
* Hashing and token generation: cryptography. The contents of a telemetry
  snapshot and its retention prune, rendering, read-only queries: nothing else
  depends on them. What a certificate covers, usage texts, listing commands.
* Session expiry and purge are in `Accounts`; that they run hourly is not.
* A revoked row reads "revoked" whatever its age; `Heartbeat` is about rows
  that are not.
* `Fleet` assumes that `serve` returns after its socket is lost, which
  `UplinkConn` shows but for the wedged read loop.
* `Startup` takes a migration file as all or nothing, which PostgreSQL's
  transactional DDL gives every file that is one transaction.

## 6. Disagreements between code and text

Checked by a run that expects a violation:

* `uplink_wedge` - `Do` leaves a request registered, without a pump, when its
  context ends before head. If the node keeps producing, its channel fills and
  `dispatch` waits for ever; the heartbeat closes the socket, but `serve` does
  not return, so the machine stays registered and is refused as a duplicate.
  `conn_test.go`: "A browser that goes away must not take the machine down with
  it."

Others met while modelling. Each has a property and a configuration with which
TLC shows a counterexample, but is not one of the regular runs:

| Configuration | Property | Code | Text |
|---|---|---|---|
| `UplinkConnErr` | `ErrEndsBody` | the first `err` after head is buffered in `fail`, which nobody reads; the body stays open | `conn.go`: "the failure belongs to the body stream" |
| `UplinkConnSlot` | `CancelFreesSlot` | the `err` that answers a cancel frees nothing | `conn.go`: "which is what frees the correlation slot" |
| `UplinkConnLate` | `LateChunkNotFatal` | a chunk looked up before its request is settled panics the read loop | `conn.go`: "a late chunk is not fatal" |
| `UplinkBridgeSafety` with this invariant | `LateMessageNotFatal` | the same for a bridge's message | `conn.go`: "closed while in flight" |
| `UplinkBridgeStale` | `SocketsDieWithUplink` | an old socket's close event deletes the map entry of a new one with its id | `docs/envelope.md`: "The node closes its bridged sockets when the uplink drops" |
| `FleetFatal` | `FatalMeansMisconfigured` | a database failure in `AuthenticateToken` is answered with a fatal code | `uplink.ts`: "retrying with the same configuration cannot work" |
| `EnrolmentRevoke` | `RevokedIsRefused` | `EnsureOwned` clears `revoked_at`, so a self-enrolled machine is let in again at its next handshake | `main.go`: "it is refused at its next reconnect" |
| `EnrolmentDelete` | `DeleteDeletes` | `SET NULL` on `owner_id` breaks `nodes_one_credential`, so the delete fails | `users/store.go`: "removes an account outright" |
| `AccountsRace` | `AdminRemains` | count and change are separate statements; two administrators who demote each other at once leave none | `people.go`: "never remove the last admin" |
| `AccountsRace` with `MaxFaults = 1` | `AdminRemains` | a failed `List` is taken for "not an administrator" | `people.go`: "never remove the last admin" |
| `AccountsLogin` | `EverySessionLost` | a login under way during a password change starts a session that survives it | `users/store.go`: "loses it" |
| `AuditFlush` | `CleanStopKeepsAll` | an entry taken after the context ended is written with that context | `audit.go`: "does not lose the decisions that led up to it" |
| `GatewayPage` | `UnreadPageIsDelivered` | a page whose body breaks while it is buffered is answered with its status and no body: what was read is in a variable nobody writes | `http.go`: "still better delivered without the overlay than not delivered at all" |
| `StartupSafety` with `Files <- WrappedThird` | `SchemaIsRecorded` | a file with `BEGIN` and `COMMIT` of its own commits before the upsert, so without an insert of its own a death in between leaves a schema that no later start can get past (theorem `SchemaIsKnown`: such a file is the only cause) | `migrate.go`: "Later migrations rely on this upsert instead of repeating the insert" |
| `NodeSetupSafety` with this invariant | `SaveOutlivesCrash` | a later save that is cut short takes the earlier one with it, on an entry without a file | `index.ts`: "The store is what survives a restart" |
| `NodeSetupSafety` with this invariant | `SavedMeansReloaded` | without a loader entry `restart` returns, and the old uplink runs on | `setup.ts`: "Saved. The plugin reloaded" |
| `NodeSetupSecond` | `ShadowIsDeclared` | a second save finds the first one's values "in this deployment's config file" | `README.md`: "Saving reloads the plugin" |
| `NodeSetupToken` | `TokenKept` | an empty token field overwrites a declared token | `setup.ts`: "Leave this empty to keep it." |
| `NodeSetupShadow` | `ShadowIsSaid` | a declared token wins over a saved one after a restart, unannounced | `index.ts`: "the page says so" |

`docs/envelope.md` says of both ends "A node that misses two consecutive pings
is closed"; both wait a little longer. The node gives up at the third interval
without a ping, the control plane at the first tick after 45 s of silence,
which is 45 to 65 s after the last pong unless a write or a `Touch` holds the loop
up; `ws.Close` then takes up to 10 s more. `NoticeByCP` and `NoticeByNode` have the
numbers.

## 7. Plan

Done, in this order because a wrong answer in a browser and a machine that
cannot come back matter most: `UplinkConn`, `Fleet`, their proofs,
`UplinkBridge`, `Enrolment`, `Accounts`, `Audit`, `NodeSetup`; then the contract
and its refinement, `Heartbeat`, `Startup`, `Gateway`, `AccountPage`; then the
refinement's proof and those of the safety properties of all of these.

After these, the proofs of who waits for whom (`AbandonedIsTold`,
`OnlyAWedgeBlocks`, `NobodyWaitsOnABridge`, `NobodyStranded`), of `RevocationHolds` and
`GoodClientRetries`, and the two variants. Every safety property of the runs that is
not about `ENABLED` has its theorem.

Left: a bound on how long a wedged read loop keeps a name, once the code has one;
and `SocketsDieWithUplink` as a theorem when the close event of an old socket
leaves the map alone.

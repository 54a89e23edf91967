-------------------------------- MODULE Fleet --------------------------------
(***************************************************************************)
(* How machines come online: the handshake of internal/uplink/handler.go   *)
(* (ServeHTTP, readHello, enrol), the table of live connections of         *)
(* internal/uplink/registry.go, and the reconnecting client of             *)
(* dsh/src/uplink.ts (connect, onClose, stop).                             *)
(*                                                                         *)
(* A slot is one accepted socket and the ServeHTTP goroutine behind it;    *)
(* slots are reused once both ends have let go.  What Conn does between    *)
(* welcome and its end is UplinkConn; here serve only runs and ends.       *)
(***************************************************************************)
EXTENDS Integers, FiniteSets

CONSTANTS Client,   \* running node plugins
          NodeId,   \* machine names
          NodeOf,   \* the name each client presents; two may share one
          UserToken,\* the clients that present a username and a user token
          Slot,     \* bound: sockets alive at once
          NoSlot,   \* no socket, no registered connection
          MaxFaults \* bound: drops, timeouts, database and protocol failures

ASSUME FleetAssumption == /\ NodeOf \in [Client -> NodeId]
                          /\ UserToken \subseteq Client
                          /\ MaxFaults \in Nat
                          /\ NoSlot \notin Slot

VARIABLES
  client,   \* the plugin: "idle" between attempts, "dialing", "hello" sent,
            \* "welcomed", or "stopped" for good
  cur,      \* Uplink.socket: the slot of the client's current socket
  cred,     \* what the database says of the client's credential
  owner,    \* the client that dialled a slot
  handler,  \* where the slot's ServeHTTP is
  link,     \* the slot's socket
  code,     \* the close code the client will see
  hello,    \* the hello frame is on the wire
  welcome,  \* the welcome frame is on the wire
  authed,   \* the handler's authentication succeeded
  conns,    \* Registry.conns
  faults    \* faults so far

clientVars == <<client, cur, cred>>
slotVars == <<owner, handler, link, code, hello, welcome, authed>>
vars == <<clientVars, slotVars, conns, faults>>

ClientStates == {"idle", "dialing", "hello", "welcomed", "stopped"}
HandlerStates == {"none", "hello", "auth", "add", "record", "welcome", "serve",
                  "remove"}
Credentials == {"good", "unknown", "foreign", "ownToken", "revoked",
                "oldProtocol"}
Codes == {"dropped", "badToken", "unknownNode", "badProtocol", "duplicate",
          "authTimeout", "internal"}

\* The handler states in which the deferred Registry.Remove is armed.
Registered == {"record", "welcome", "serve", "remove"}

TypeOK ==
  /\ client \in [Client -> ClientStates]
  /\ cur \in [Client -> Slot \cup {NoSlot}]
  /\ cred \in [Client -> Credentials]
  /\ owner \in [Slot -> Client]
  /\ handler \in [Slot -> HandlerStates]
  /\ link \in [Slot -> {"up", "down"}]
  /\ code \in [Slot -> Codes]
  /\ hello \in [Slot -> BOOLEAN] /\ welcome \in [Slot -> BOOLEAN]
  /\ authed \in [Slot -> BOOLEAN]
  /\ conns \in [NodeId -> Slot \cup {NoSlot}]
  /\ faults \in 0 .. MaxFaults

Init ==
  /\ client = [c \in Client |-> "idle"] /\ cur = [c \in Client |-> NoSlot]
  /\ cred \in [Client -> Credentials]
  /\ owner \in {[s \in Slot |-> c] : c \in Client}
  /\ handler = [s \in Slot |-> "none"] /\ link = [s \in Slot |-> "down"]
  /\ code = [s \in Slot |-> "dropped"]
  /\ hello = [s \in Slot |-> FALSE] /\ welcome = [s \in Slot |-> FALSE]
  /\ authed = [s \in Slot |-> FALSE]
  /\ conns = [n \in NodeId |-> NoSlot]
  /\ faults = 0

Name(s) == NodeOf[owner[s]]
Fault == faults < MaxFaults /\ faults' = faults + 1

-----------------------------------------------------------------------------
(* The client.                                                             *)

\* connect: from start() or from the retry timer; stop() and a fatal close
\* leave no timer.
Connect(c, s) ==
  /\ client[c] = "idle"
  /\ handler[s] = "none" /\ \A d \in Client : cur[d] # s
  /\ client' = [client EXCEPT ![c] = "dialing"]
  /\ cur' = [cur EXCEPT ![c] = s]
  /\ owner' = [owner EXCEPT ![s] = c]
  /\ handler' = [handler EXCEPT ![s] = "hello"]
  /\ link' = [link EXCEPT ![s] = "up"]
  /\ code' = [code EXCEPT ![s] = "dropped"]
  /\ hello' = [hello EXCEPT ![s] = FALSE]
  /\ welcome' = [welcome EXCEPT ![s] = FALSE]
  /\ authed' = [authed EXCEPT ![s] = FALSE]
  /\ UNCHANGED <<cred, conns, faults>>

\* The open event: hello goes out.
Opened(c) ==
  /\ client[c] = "dialing" /\ link[cur[c]] = "up"
  /\ client' = [client EXCEPT ![c] = "hello"]
  /\ hello' = [hello EXCEPT ![cur[c]] = TRUE]
  /\ UNCHANGED <<cur, cred, owner, handler, link, code, welcome, authed, conns,
                 faults>>

\* onWelcome
Welcomed(c) ==
  /\ client[c] = "hello" /\ link[cur[c]] = "up" /\ welcome[cur[c]]
  /\ client' = [client EXCEPT ![c] = "welcomed"]
  /\ UNCHANGED <<cur, cred, slotVars, conns, faults>>

\* The node's heartbeat: no ping comes from a control plane that stopped
\* serving this socket, and the third tick closes it.
HeartbeatLost(c) ==
  /\ client[c] = "welcomed" /\ link[cur[c]] = "up" /\ handler[cur[c]] = "none"
  /\ link' = [link EXCEPT ![cur[c]] = "down"]
  /\ UNCHANGED <<clientVars, owner, handler, code, hello, welcome, authed,
                 conns, faults>>

\* Mutant: losing to a live connection is taken for a misconfiguration.
FATAL_CLOSE_DUPLICATE == {"badToken", "unknownNode", "badProtocol", "duplicate"}

\* Retrying with the same configuration cannot work.
FATAL_CLOSE == {"badToken", "unknownNode", "badProtocol"}

\* onClose: retry later unless the code is fatal.
OnClose(c) ==
  /\ cur[c] # NoSlot /\ link[cur[c]] = "down"
  /\ client' = [client EXCEPT ![c] =
                  IF code[cur[c]] \in FATAL_CLOSE THEN "stopped" ELSE "idle"]
  /\ cur' = [cur EXCEPT ![c] = NoSlot]
  /\ UNCHANGED <<cred, slotVars, conns, faults>>

\* stop: close the socket; its close event finds no current socket.
Stop(c) ==
  /\ client[c] # "stopped"
  /\ client' = [client EXCEPT ![c] = "stopped"]
  /\ cur' = [cur EXCEPT ![c] = NoSlot]
  /\ link' = [s \in Slot |-> IF s = cur[c] THEN "down" ELSE link[s]]
  /\ UNCHANGED <<cred, owner, handler, code, hello, welcome, authed, conns,
                 faults>>

-----------------------------------------------------------------------------
(* The handler of one slot.                                                *)

\* Mutant: the handler returns and leaves the socket open.
ReturnWithout(s, why) ==
  handler' = [handler EXCEPT ![s] = "none"] /\ UNCHANGED <<code, link>>

\* ws.Close with a protocol code, then return: nothing was registered yet.
CloseWith(s, why) ==
  /\ handler' = [handler EXCEPT ![s] = "none"]
  /\ code' = [code EXCEPT ![s] = IF link[s] = "up" THEN why ELSE @]
  /\ link' = [link EXCEPT ![s] = "down"]

\* readHello fails: the socket is gone ...
HelloFails(s) ==
  /\ handler[s] = "hello" /\ link[s] = "down"
  /\ CloseWith(s, "authTimeout")
  /\ UNCHANGED <<clientVars, owner, hello, welcome, authed, conns, faults>>

\* ... or no hello came within 5 s.
HelloTimeout(s) ==
  /\ handler[s] = "hello" /\ ~hello[s] /\ Fault
  /\ CloseWith(s, "authTimeout")
  /\ UNCHANGED <<clientVars, owner, hello, welcome, authed, conns>>

\* hello arrived; the protocol version is checked first.
ReadHello(s) ==
  /\ handler[s] = "hello" /\ hello[s]
  /\ IF cred[owner[s]] = "oldProtocol" THEN CloseWith(s, "badProtocol")
     ELSE handler' = [handler EXCEPT ![s] = "auth"] /\ UNCHANGED <<code, link>>
  /\ UNCHANGED <<clientVars, owner, hello, welcome, authed, conns, faults>>

\* The close code of a failed authentication: only Authenticate, for machine
\* tokens, reports a revocation as such.
RefusalCode(c) == IF cred[c] = "revoked" /\ c \notin UserToken THEN "badToken"
                  ELSE "unknownNode"

\* Auth.Authenticate or enrol, and the switch on its error.
Authenticate(s) ==
  /\ handler[s] = "auth"
  /\ IF cred[owner[s]] = "good"
     THEN /\ handler' = [handler EXCEPT ![s] = "add"]
          /\ authed' = [authed EXCEPT ![s] = TRUE]
          /\ UNCHANGED <<code, link>>
     ELSE CloseWith(s, RefusalCode(owner[s])) /\ UNCHANGED authed
  /\ UNCHANGED <<clientVars, owner, hello, welcome, conns, faults>>

\* The close code of a database failure: 1011, which the node retries.  The
\* enroller wraps every error of AuthenticateToken in ErrNotFound, so for a
\* user token only a failure in Claim is told apart from a refusal.
FailureCodes(c) == IF c \in UserToken THEN {"internal", "unknownNode"}
                   ELSE {"internal"}

AuthenticateFails(s) ==
  /\ handler[s] = "auth" /\ Fault
  /\ \E why \in FailureCodes(owner[s]) : CloseWith(s, why)
  /\ UNCHANGED <<clientVars, owner, hello, welcome, authed, conns>>

\* Registry.Add: a newcomer loses.
Add(s) ==
  /\ handler[s] = "add"
  /\ IF conns[Name(s)] # NoSlot
     THEN CloseWith(s, "duplicate") /\ UNCHANGED conns
     ELSE /\ conns' = [conns EXCEPT ![Name(s)] = s]
          /\ handler' = [handler EXCEPT ![s] = "record"]
          /\ UNCHANGED <<code, link>>
  /\ UNCHANGED <<clientVars, owner, hello, welcome, authed, faults>>

\* RecordHello: its failure is only logged.
RecordHello(s) ==
  /\ handler[s] = "record"
  /\ handler' = [handler EXCEPT ![s] = "welcome"]
  /\ UNCHANGED <<clientVars, owner, link, code, hello, welcome, authed, conns,
                 faults>>

\* The welcome frame, then serve; a failed write returns.
WriteWelcome(s) ==
  /\ handler[s] = "welcome"
  /\ IF link[s] = "up"
     THEN /\ welcome' = [welcome EXCEPT ![s] = TRUE]
          /\ handler' = [handler EXCEPT ![s] = "serve"]
     ELSE handler' = [handler EXCEPT ![s] = "remove"] /\ UNCHANGED welcome
  /\ UNCHANGED <<clientVars, owner, link, code, hello, authed, conns, faults>>

\* serve returned because ws.Read failed.
ServeEnds(s) ==
  /\ handler[s] = "serve" /\ link[s] = "down"
  /\ handler' = [handler EXCEPT ![s] = "remove"]
  /\ UNCHANGED <<clientVars, owner, link, code, hello, welcome, authed, conns,
                 faults>>

\* serve returned because the node broke the protocol; CloseNow.
ServeRefuses(s) ==
  /\ handler[s] = "serve" /\ Fault
  /\ handler' = [handler EXCEPT ![s] = "remove"]
  /\ link' = [link EXCEPT ![s] = "down"]
  /\ UNCHANGED <<clientVars, owner, code, hello, welcome, authed, conns>>

\* serve panicked (UplinkConn!SendPanics): the deferred calls run and CloseNow
\* does not, so the node still holds an open socket.
ServePanics(s) ==
  /\ handler[s] = "serve" /\ Fault
  /\ handler' = [handler EXCEPT ![s] = "remove"]
  /\ UNCHANGED <<clientVars, owner, link, code, hello, welcome, authed, conns>>

\* Mutant: the entry outlives its handler.
RemoveNothing(s) ==
  /\ handler[s] = "remove"
  /\ handler' = [handler EXCEPT ![s] = "none"]
  /\ UNCHANGED <<clientVars, owner, link, code, hello, welcome, authed, conns,
                 faults>>

\* The deferred Registry.Remove, only if s is still the registered one.
Remove(s) ==
  /\ handler[s] = "remove"
  /\ conns' = IF conns[Name(s)] = s THEN [conns EXCEPT ![Name(s)] = NoSlot]
              ELSE conns
  /\ handler' = [handler EXCEPT ![s] = "none"]
  /\ UNCHANGED <<clientVars, owner, link, code, hello, welcome, authed, faults>>

-----------------------------------------------------------------------------
(* The environment.                                                        *)

\* The network drops a socket; each end learns of it in its own time.
LinkDrops(s) ==
  /\ link[s] = "up" /\ Fault
  /\ link' = [link EXCEPT ![s] = "down"]
  /\ UNCHANGED <<clientVars, owner, handler, code, hello, welcome, authed,
                 conns>>

\* An operator revokes a credential; live connections are left alone.
Revoked(c) ==
  /\ cred[c] = "good"
  /\ cred' = [cred EXCEPT ![c] = "revoked"]
  /\ UNCHANGED <<client, cur, slotVars, conns, faults>>

\* The control plane's process ends and is started again: every socket drops,
\* and the table of connections lives in memory only.
Restart ==
  /\ Fault
  /\ handler' = [s \in Slot |-> "none"] /\ link' = [s \in Slot |-> "down"]
  /\ conns' = [n \in NodeId |-> NoSlot]
  /\ UNCHANGED <<clientVars, owner, code, hello, welcome, authed>>

Handles(s) == HelloFails(s) \/ ReadHello(s) \/ Authenticate(s) \/ Add(s)
              \/ RecordHello(s) \/ WriteWelcome(s) \/ ServeEnds(s) \/ Remove(s)
Fails(s) == HelloTimeout(s) \/ AuthenticateFails(s) \/ ServeRefuses(s)
            \/ ServePanics(s) \/ LinkDrops(s)
Runs(c) == (\E s \in Slot : Connect(c, s)) \/ Opened(c) \/ Welcomed(c)
           \/ HeartbeatLost(c) \/ OnClose(c)

Next == \/ \E c \in Client : Runs(c) \/ Stop(c) \/ Revoked(c)
        \/ \E s \in Slot : Handles(s) \/ Fails(s)
        \/ Restart

Spec == Init /\ [][Next]_vars

\* The retry timer fires and every event is handled; the handler's goroutine
\* runs.  Faults, stops and revocations need not happen.
Fairness == /\ \A c \in Client : WF_vars(Runs(c))
            /\ \A s \in Slot : WF_vars(Handles(s))

FairSpec == Spec /\ Fairness

-----------------------------------------------------------------------------
\* Registry: the table names exactly the connections whose handler has yet to
\* run its deferred Remove, so a machine is online when and only when one is.
RegistryExact ==
  \A s \in Slot : \A n \in NodeId :
     conns[n] = s <=> handler[s] \in Registered /\ Name(s) = n

\* "One connection per node": never two handlers serving one machine name.
OneConnectionPerNode ==
  \A s, t \in Slot : /\ handler[s] \in Registered /\ handler[t] \in Registered
                     /\ Name(s) = Name(t)
                     => s = t

\* ServeHTTP: only a connection that authenticated is ever registered.
OnlyAuthenticated ==
  \A n \in NodeId : conns[n] # NoSlot => authed[conns[n]]

\* Registry.Add and Remove: a live connection is never evicted by another; the
\* entry is freed by its own handler before a newcomer gets it.
NewcomerLoses ==
  [][\A n \in NodeId :
       conns[n] # NoSlot => conns'[n] \in {conns[n], NoSlot}]_vars

\* FATAL_CLOSE against the handler's codes: a machine whose own token is good
\* is never told to give up, whatever else fails.
GoodClientRetries ==
  [][\A c \in Client \ UserToken :
       cred[c] = "good" /\ OnClose(c) => client'[c] = "idle"]_vars

\* ServeHTTP's returns against a client that has no timer of its own before its
\* welcome: while it waits on an open socket, its handler is on the way to the
\* welcome, or to closing the socket, or the welcome is already on the wire.
NobodyStranded ==
  \A c \in Client : client[c] = "hello" /\ link[cur[c]] = "up" =>
    \/ welcome[cur[c]]
    \/ handler[cur[c]] = "hello" /\ hello[cur[c]]
    \/ handler[cur[c]] \in {"auth", "add", "record", "welcome"}

\* onClose's retry, the deferred Remove and the two heartbeats: a machine name
\* is, again and again, connected and registered as such at the same time, for
\* as long as one of the machines that present it has not given up or stopped.
ComesOnline ==
  \A n \in {NodeOf[c] : c \in Client} :
     []<>(\/ \A c \in Client : NodeOf[c] = n => client[c] = "stopped"
          \/ \E c \in Client : /\ NodeOf[c] = n /\ client[c] = "welcomed"
                                /\ conns[n] = cur[c])

\* dsh/src/uplink.ts, FATAL_CLOSE: "Close codes that mean retrying with the
\* same configuration cannot work."
FatalMeansMisconfigured ==
  [][\A c \in Client :
       cred[c] = "good" /\ OnClose(c) => client'[c] = "idle"]_vars
=============================================================================

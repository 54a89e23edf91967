----------------------------- MODULE UplinkBridge -----------------------------
(***************************************************************************)
(* Browser WebSockets bridged to a node's own server, over the successive  *)
(* uplink connections of that node.  Control plane: Bridge, OpenWS,        *)
(* dropBridge, the ws.* cases of dispatch and shutdown in                  *)
(* internal/uplink/conn.go, and Handler.bridge in internal/proxy/http.go.  *)
(* Node: bridgeOpen and onClose in dsh/src/uplink.ts.                      *)
(*                                                                         *)
(* Correlation ids restart with every connection, so the same id names a   *)
(* different bridge on each; a bridge is the pair of both.  The node's map *)
(* is keyed by the id alone.  A message is its position in what the local  *)
(* socket sent.  Browser to node messages are not modelled: the downlinks  *)
(* carry none; that Send can fail is.                                      *)
(***************************************************************************)
EXTENDS Integers, Sequences, FiniteSets

CONSTANTS MaxConns,     \* bound: successive uplink connections
          MaxIds,       \* bound: bridges opened per connection
          MaxMsgs,      \* bound: messages a local socket sends
          StreamBuffer  \* capacity of Bridge.Messages (32 in the code)

ASSUME BridgeBounds == /\ MaxConns \in Nat \ {0} /\ MaxIds \in Nat \ {0}
                       /\ MaxMsgs \in Nat /\ StreamBuffer \in Nat \ {0}

Id == 1 .. MaxIds
Bridge == [conn : 1 .. MaxConns, id : Id]
None == [conn |-> 0, id |-> 0]

VARIABLES
  conn, link,      \* the current connection and whether its socket is up
  toNode, toCP,    \* frames in flight on it, in order
  nextID,          \* Conn.nextID
  bridges,         \* Conn.bridges of the current connection
  closed, done,    \* connections whose closed is set, whose done is closed
  live,            \* shutdown's local list
  reader, hand,    \* where the read loop is; the message it is about to send
  open,            \* where the goroutine that called OpenWS is
  gone,            \* the browser of this bridge went away
  up,              \* the one-slot channel Bridge.up
  messages,        \* the buffered channel Bridge.Messages
  closes,          \* how often Messages was closed; a second close panics
  relay,           \* the goroutine copying Messages to the browser
  got,             \* what the browser received
  sock, sent,      \* the node's local socket, the messages it has sent
  at,              \* Uplink.bridges: the socket an id names
  strays           \* history: sockets that onClose did not find in that map

linkVars == <<conn, link, toNode, toCP>>
connVars == <<nextID, bridges, closed, done, live>>
readVars == <<reader, hand>>
proxyVars == <<open, gone, relay, got>>
chanVars == <<up, messages, closes>>
nodeVars == <<sock, sent, at, strays>>
vars == <<linkVars, connVars, readVars, proxyVars, chanVars, nodeVars>>

Frame == [t : {"open", "up", "msg", "close", "err"}, id : Id, n : 0 .. MaxMsgs]
frame(t, i, n) == [t |-> t, id |-> i, n |-> n]
OpenStates == {"idle", "write", "select", "up", "dropping", "closed", "failed"}
SockStates == {"none", "connecting", "open", "closing", "closed"}

TypeOK ==
  /\ conn \in 1 .. MaxConns /\ link \in {"up", "down"}
  /\ toNode \in Seq(Frame) /\ toCP \in Seq(Frame)
  /\ nextID \in 0 .. MaxIds
  /\ bridges \subseteq Bridge /\ live \subseteq Bridge
  /\ closed \subseteq 1 .. MaxConns /\ done \subseteq closed
  /\ reader \in {"read", "send", "shutdown", "closing", "panicked", "returned"}
  /\ hand \in [to : Bridge, n : 1 .. MaxMsgs] \cup {<<>>}
  /\ open \in [Bridge -> OpenStates] /\ gone \in [Bridge -> BOOLEAN]
  /\ relay \in [Bridge -> {"none", "running", "exited"}]
  /\ up \in [Bridge -> BOOLEAN] /\ closes \in [Bridge -> Nat]
  /\ messages \in [Bridge -> Seq(1 .. MaxMsgs)]
  /\ got \in [Bridge -> Seq(1 .. MaxMsgs)]
  /\ sock \in [Bridge -> SockStates] /\ sent \in [Bridge -> 0 .. MaxMsgs]
  /\ at \in [Id -> Bridge \cup {None}] /\ strays \subseteq Bridge

Init ==
  /\ conn = 1 /\ link = "up" /\ toNode = <<>> /\ toCP = <<>>
  /\ nextID = 0 /\ bridges = {} /\ closed = {} /\ done = {} /\ live = {}
  /\ reader = "read" /\ hand = <<>>
  /\ open = [b \in Bridge |-> "idle"] /\ gone = [b \in Bridge |-> FALSE]
  /\ relay = [b \in Bridge |-> "none"] /\ got = [b \in Bridge |-> <<>>]
  /\ up = [b \in Bridge |-> FALSE] /\ messages = [b \in Bridge |-> <<>>]
  /\ closes = [b \in Bridge |-> 0]
  /\ sock = [b \in Bridge |-> "none"] /\ sent = [b \in Bridge |-> 0]
  /\ at = [i \in Id |-> None] /\ strays = {}

-----------------------------------------------------------------------------
(* Helpers.                                                                *)

Here(i) == [conn |-> conn, id |-> i]
Connected(b) == link = "up" /\ conn = b.conn

\* write on the bridge's own connection; an error is the caller's business.
Write(b, t) ==
  toNode' = IF Connected(b) THEN Append(toNode, frame(t, b.id, 0)) ELSE toNode

\* Mutant: Messages is closed whoever deleted the bridge.
DropBridgeTwice(b) ==
  bridges' = bridges \ {b} /\ closes' = [closes EXCEPT ![b] = @ + 1]

\* dropBridge: delete under the lock; only who deleted it closes Messages.
DropBridge(b) ==
  /\ bridges' = bridges \ {b}
  /\ closes' = [closes EXCEPT ![b] = IF b \in bridges THEN @ + 1 ELSE @]

\* Mutant: OpenWS registers without looking at closed.
AdmitsAlways == TRUE

\* OpenWS refuses on a closed connection.
Admits == conn \notin closed

-----------------------------------------------------------------------------
(* OpenWS, Bridge.Close and the proxy's bridge handler.                    *)

\* Under c.mu: a fresh id, registered at once.
OpenRegister ==
  /\ Admits /\ nextID < MaxIds
  /\ nextID' = nextID + 1
  /\ bridges' = bridges \cup {Here(nextID + 1)}
  /\ open' = [open EXCEPT ![Here(nextID + 1)] = "write"]
  /\ UNCHANGED <<linkVars, closed, done, live, readVars, gone, relay, got,
                 chanVars, nodeVars>>

\* The ws.open frame; a write error drops the bridge.
OpenWrite(b) ==
  /\ open[b] = "write"
  /\ Write(b, "open")
  /\ IF Connected(b)
     THEN /\ open' = [open EXCEPT ![b] = "select"]
          /\ UNCHANGED <<bridges, closes>>
     ELSE open' = [open EXCEPT ![b] = "failed"] /\ DropBridge(b)
  /\ UNCHANGED <<conn, link, toCP, nextID, closed, done, live, readVars, gone,
                 relay, got, up, messages, nodeVars>>

\* case <-bridge.up: OpenWS returns, the browser's upgrade is accepted and the
\* relay goroutine starts.
OpenUp(b) ==
  /\ open[b] = "select" /\ up[b]
  /\ up' = [up EXCEPT ![b] = FALSE]
  /\ open' = [open EXCEPT ![b] = "up"]
  /\ relay' = [relay EXCEPT ![b] = "running"]
  /\ UNCHANGED <<linkVars, connVars, readVars, gone, got, messages, closes,
                 nodeVars>>

\* case <-c.done
OpenDisconnected(b) ==
  /\ open[b] = "select" /\ b.conn \in done
  /\ open' = [open EXCEPT ![b] = "failed"]
  /\ DropBridge(b)
  /\ UNCHANGED <<linkVars, nextID, closed, done, live, readVars, gone, relay,
                 got, up, messages, nodeVars>>

\* Bridge.Close, first half: tell the node.
CloseWrites(b) ==
  /\ Write(b, "close")
  /\ open' = [open EXCEPT ![b] = "dropping"]
  /\ UNCHANGED <<conn, link, toCP, connVars, readVars, gone, relay, got,
                 chanVars, nodeVars>>

\* case <-ctx.Done()
OpenCancelled(b) == open[b] = "select" /\ gone[b] /\ CloseWrites(b)

\* Mutant: no timeout.
OpenTimeoutNever(b) == FALSE

\* case <-time.After(15s)
OpenTimeout(b) == open[b] = "select" /\ CloseWrites(b)

\* The handler returns when the browser left or the relay ended and cancelled
\* the read of the browser; its deferred Close runs.
BridgeReturns(b) ==
  /\ open[b] = "up" /\ (gone[b] \/ relay[b] = "exited")
  /\ CloseWrites(b)

\* The browser sent a message and Send failed.
SendFails(b) == open[b] = "up" /\ ~Connected(b) /\ CloseWrites(b)

\* Bridge.Close, second half: drop the bridge.
CloseDrops(b) ==
  /\ open[b] = "dropping"
  /\ open' = [open EXCEPT ![b] = "closed"]
  /\ DropBridge(b)
  /\ UNCHANGED <<linkVars, nextID, closed, done, live, readVars, gone, relay,
                 got, up, messages, nodeVars>>

BrowserGone(b) ==
  /\ open[b] \in {"write", "select", "up"} /\ ~gone[b]
  /\ gone' = [gone EXCEPT ![b] = TRUE]
  /\ UNCHANGED <<linkVars, connVars, readVars, open, relay, got, chanVars,
                 nodeVars>>

\* range remote.Messages: hand one message to the browser, or give up on it.
RelayCopies(b) ==
  /\ relay[b] = "running" /\ messages[b] # <<>>
  /\ messages' = [messages EXCEPT ![b] = Tail(@)]
  /\ IF gone[b] THEN relay' = [relay EXCEPT ![b] = "exited"] /\ UNCHANGED got
     ELSE got' = [got EXCEPT ![b] = Append(@, Head(messages[b]))]
          /\ UNCHANGED relay
  /\ UNCHANGED <<linkVars, connVars, readVars, open, gone, up, closes,
                 nodeVars>>

\* Messages was closed and is drained.
RelayEnds(b) ==
  /\ relay[b] = "running" /\ messages[b] = <<>> /\ closes[b] > 0
  /\ relay' = [relay EXCEPT ![b] = "exited"]
  /\ UNCHANGED <<linkVars, connVars, readVars, open, gone, got, chanVars,
                 nodeVars>>

-----------------------------------------------------------------------------
(* The read loop of the current connection.                                *)

Incoming(t) == reader = "read" /\ toCP # <<>> /\ Head(toCP).t = t
From == Here(Head(toCP).id)

\* ws.up: into the slot, dropped when already reported or unknown.
DispatchUp ==
  /\ Incoming("up")
  /\ up' = [up EXCEPT ![From] = @ \/ From \in bridges]
  /\ toCP' = Tail(toCP)
  /\ UNCHANGED <<conn, link, toNode, connVars, readVars, proxyVars, messages,
                 closes, nodeVars>>

\* ws.msg: look the bridge up, then go and send on its channel.
DispatchMsg ==
  /\ Incoming("msg")
  /\ IF From \notin bridges THEN UNCHANGED readVars
     ELSE reader' = "send" /\ hand' = [to |-> From, n |-> Head(toCP).n]
  /\ toCP' = Tail(toCP)
  /\ UNCHANGED <<conn, link, toNode, connVars, proxyVars, chanVars, nodeVars>>

\* bridge.Messages <- text, waiting for room.
SendMsg ==
  /\ reader = "send" /\ closes[hand.to] = 0
  /\ Len(messages[hand.to]) < StreamBuffer
  /\ messages' = [messages EXCEPT ![hand.to] = Append(@, hand.n)]
  /\ reader' = "read" /\ hand' = <<>>
  /\ UNCHANGED <<linkVars, connVars, proxyVars, up, closes, nodeVars>>

\* Messages was closed after the lookup: the send panics.
SendPanics ==
  /\ reader = "send" /\ closes[hand.to] > 0
  /\ reader' = "panicked" /\ hand' = <<>>
  /\ UNCHANGED <<linkVars, connVars, proxyVars, chanVars, nodeVars>>

\* ws.close
DispatchClose ==
  /\ Incoming("close")
  /\ DropBridge(From)
  /\ toCP' = Tail(toCP)
  /\ UNCHANGED <<conn, link, toNode, nextID, closed, done, live, readVars,
                 proxyVars, up, messages, nodeVars>>

\* err: looked up among the requests, where a bridge's id is unknown.
DispatchErr ==
  /\ Incoming("err")
  /\ toCP' = Tail(toCP)
  /\ UNCHANGED <<conn, link, toNode, connVars, readVars, proxyVars, chanVars,
                 nodeVars>>

ReadError ==
  /\ reader = "read" /\ link = "down" /\ toCP = <<>>
  /\ reader' = "shutdown"
  /\ UNCHANGED <<linkVars, connVars, hand, proxyVars, chanVars, nodeVars>>

\* shutdown, under c.mu.
ShutdownDrain ==
  /\ reader \in {"shutdown", "panicked"}
  /\ closed' = closed \cup {conn} /\ live' = bridges /\ bridges' = {}
  /\ reader' = "closing"
  /\ UNCHANGED <<linkVars, nextID, done, hand, proxyVars, chanVars, nodeVars>>

\* Mutant: Messages is left open.
ShutdownCloseSkips(b) ==
  /\ reader = "closing" /\ b \in live
  /\ live' = live \ {b}
  /\ UNCHANGED <<linkVars, nextID, bridges, closed, done, readVars, proxyVars,
                 chanVars, nodeVars>>

\* shutdown, after c.mu: close(b.Messages).
ShutdownClose(b) ==
  /\ reader = "closing" /\ b \in live
  /\ live' = live \ {b}
  /\ closes' = [closes EXCEPT ![b] = @ + 1]
  /\ UNCHANGED <<linkVars, nextID, bridges, closed, done, readVars, proxyVars,
                 up, messages, nodeVars>>

\* close(c.done); the handler returns.  The socket is already down here, or
\* the panic skips CloseNow.
ShutdownDone ==
  /\ reader = "closing" /\ live = {}
  /\ done' = done \cup {conn} /\ reader' = "returned"
  /\ UNCHANGED <<linkVars, nextID, bridges, closed, live, hand, proxyVars,
                 chanVars, nodeVars>>

-----------------------------------------------------------------------------
(* The node.                                                               *)

\* send: on whatever socket is current, nowhere when it is down.
NodeSend(f) == toCP' = IF link = "up" THEN Append(toCP, f) ELSE toCP

FromCP(t) == link = "up" /\ toNode # <<>> /\ Head(toNode).t = t

\* bridgeOpen: dial the local server under the received id, or fail at once.
NodeOpen ==
  /\ FromCP("open")
  /\ toNode' = Tail(toNode)
  /\ LET b == Here(Head(toNode).id) IN
       \/ /\ sock' = [sock EXCEPT ![b] = "connecting"]
          /\ at' = [at EXCEPT ![b.id] = b]
          /\ UNCHANGED toCP
       \/ NodeSend(frame("err", b.id, 0)) /\ UNCHANGED <<sock, at>>
  /\ UNCHANGED <<conn, link, connVars, readVars, proxyVars, chanVars, sent, strays>>

\* The local socket opened.
NodeUp(b) ==
  /\ sock[b] = "connecting"
  /\ sock' = [sock EXCEPT ![b] = "open"]
  /\ NodeSend(frame("up", b.id, 0))
  /\ UNCHANGED <<conn, link, toNode, connVars, readVars, proxyVars, chanVars,
                 sent, at, strays>>

\* Mutant: a socket that is closing still forwards messages.
NodeMsgLate(b) ==
  /\ sock[b] \in {"open", "closing"} /\ sent[b] < MaxMsgs
  /\ sent' = [sent EXCEPT ![b] = @ + 1]
  /\ NodeSend(frame("msg", b.id, sent[b] + 1))
  /\ UNCHANGED <<conn, link, toNode, connVars, readVars, proxyVars, chanVars,
                 sock, at, strays>>

\* The local server sent a message; a socket that is closing reports none.
NodeMsg(b) ==
  /\ sock[b] = "open" /\ sent[b] < MaxMsgs
  /\ sent' = [sent EXCEPT ![b] = @ + 1]
  /\ NodeSend(frame("msg", b.id, sent[b] + 1))
  /\ UNCHANGED <<conn, link, toNode, connVars, readVars, proxyVars, chanVars,
                 sock, at, strays>>

\* The close event of a local socket, however late: the id is deleted and
\* ws.close goes out on the socket that is current by then.
NodeClosed(b) ==
  /\ sock[b] \in {"connecting", "open", "closing"}
  /\ sock' = [sock EXCEPT ![b] = "closed"]
  /\ at' = [at EXCEPT ![b.id] = None]
  /\ NodeSend(frame("close", b.id, 0))
  /\ UNCHANGED <<conn, link, toNode, connVars, readVars, proxyVars, chanVars,
                 sent, strays>>

Closing(S) == [b \in Bridge |-> IF b \in S /\ sock[b] # "closed"
                                THEN "closing" ELSE sock[b]]

\* ws.close from the control plane.
NodeClose ==
  /\ FromCP("close")
  /\ toNode' = Tail(toNode)
  /\ sock' = Closing({at[Head(toNode).id]})
  /\ UNCHANGED <<conn, link, toCP, connVars, readVars, proxyVars, chanVars,
                 sent, at, strays>>

\* The uplink drops: onClose closes every bridge in the map and clears it.  A
\* socket whose entry the late close of an older one deleted is not there.
LinkDrops ==
  /\ link = "up"
  /\ link' = "down" /\ toNode' = <<>>
  /\ \E n \in 0 .. Len(toCP) : toCP' = SubSeq(toCP, 1, n)
  /\ sock' = Closing({at[i] : i \in Id})
  /\ at' = [i \in Id |-> None]
  /\ strays' = strays \cup {b \in Bridge : /\ sock[b] \in {"connecting", "open"}
                                          /\ b \notin {at[i] : i \in Id}}
  /\ UNCHANGED <<conn, connVars, readVars, proxyVars, chanVars, sent>>

\* The node dials again and is registered once the old handler has returned:
\* a new Conn, whose ids start over.
Reconnect ==
  /\ link = "down" /\ reader = "returned" /\ conn < MaxConns
  /\ conn' = conn + 1 /\ link' = "up" /\ toCP' = <<>>
  /\ nextID' = 0 /\ reader' = "read"
  /\ UNCHANGED <<toNode, bridges, closed, done, live, hand, proxyVars, chanVars,
                 nodeVars>>

-----------------------------------------------------------------------------
Opener(b) == OpenWrite(b) \/ OpenUp(b) \/ OpenDisconnected(b)
             \/ OpenCancelled(b) \/ OpenTimeout(b) \/ BridgeReturns(b)
             \/ CloseDrops(b)
Relay(b) == RelayCopies(b) \/ RelayEnds(b)
Reader == DispatchUp \/ DispatchMsg \/ SendMsg \/ SendPanics \/ DispatchClose
          \/ DispatchErr \/ ReadError \/ ShutdownDrain
          \/ (\E b \in Bridge : ShutdownClose(b)) \/ ShutdownDone
Socket(b) == NodeUp(b) \/ NodeMsg(b) \/ NodeClosed(b)

Next == \/ OpenRegister \/ Reader \/ NodeOpen \/ NodeClose \/ LinkDrops
        \/ Reconnect
        \/ \E b \in Bridge : Opener(b) \/ SendFails(b) \/ BrowserGone(b)
                             \/ Relay(b) \/ Socket(b)

Spec == Init /\ [][Next]_vars

\* Goroutines and the 15 s timer run, an open browser reads, the node handles
\* its frames and a socket that was told to close closes.
Fairness ==
  /\ \A b \in Bridge : /\ WF_vars(Opener(b)) /\ WF_vars(Relay(b))
                       /\ WF_vars(sock[b] = "closing" /\ NodeClosed(b))
  /\ WF_vars(Reader)
  /\ WF_vars(NodeOpen \/ NodeClose)

FairSpec == Spec /\ Fairness

-----------------------------------------------------------------------------
\* dropBridge, Bridge.Close and shutdown race to close Messages; whoever took
\* the bridge out of the map closes it, so it is never closed twice.
ClosedOnce == \A b \in Bridge : closes[b] <= 1

\* An earlier connection's socket with the id of b has outlived its uplink; what
\* it still sends goes out under that id.
Fouled(b) == \E s \in strays : s.id = b.id /\ s.conn < b.conn

\* dispatch and bridgeOpen: the browser receives its own socket's messages, in
\* order and without gaps, although ids are reused by later connections, unless
\* a socket of an earlier one outlived its uplink.
BridgeIntegrity ==
  \A b \in Bridge : Fouled(b) \/ \A i \in 1 .. Len(got[b]) : got[b][i] = i

\* OpenWS against shutdown: only bridges of the connection being served are
\* registered, and none once it is closed.
NoOrphanBridge == \A b \in bridges : b.conn = conn /\ b.conn \notin closed

\* shutdown, dropBridge and dispatch: when done closes, Messages of every bridge
\* a handler still holds has been closed, so neither OpenWS nor the relay waits
\* on a connection that is gone; and the read loop waits for room only in a
\* bridge whose handler is there to make it or to drop the bridge.
NobodyWaitsOnABridge ==
  /\ \A b \in Bridge :
       open[b] \in {"write", "select", "up"} /\ b.conn \in done => closes[b] > 0
  /\ reader = "send" => \/ closes[hand.to] > 0
                        \/ open[hand.to] \in {"write", "select", "up", "dropping"}

\* OpenWS: it always returns, whatever the node does.
OpenReturns ==
  \A b \in Bridge : open[b] \in {"write", "select"}
                    ~> open[b] \notin {"write", "select"}

\* "every bridge dies with the uplink that addressed it": the proxy handler of
\* a bridge whose connection is lost ends.
BridgeDiesWithUplink ==
  \A b \in Bridge : (open[b] = "up" /\ ~Connected(b)) ~> open[b] = "closed"

\* docs/envelope.md: "The node closes its bridged sockets when the uplink
\* drops".
SocketsDieWithUplink ==
  link = "down" => \A b \in Bridge : sock[b] \notin {"connecting", "open"}

\* conn.go, dispatch: a ws.msg for a bridge "closed while in flight" is
\* ignored.
LateMessageNotFatal == reader # "panicked"
=============================================================================

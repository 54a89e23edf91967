------------------------------ MODULE UplinkConn ------------------------------
(***************************************************************************)
(* One authenticated uplink connection and the HTTP requests multiplexed   *)
(* over it: internal/uplink/conn.go (Conn, pending, Do, pump, serve,       *)
(* dispatch, shutdown, bodyReader) on the control plane, and the request   *)
(* half of dsh/src/uplink.ts (serve, serveDsh, stream, onClose) on the     *)
(* node.  Bridged WebSockets are in UplinkBridge.                          *)
(*                                                                         *)
(* Goroutines: the caller of Do (one per request), its pump, the read loop *)
(* that runs dispatch, the heartbeat.  A request is identified with its    *)
(* correlation id, which nextID++ makes fresh within a connection; a       *)
(* chunk's bytes are identified with their position in the node's body.    *)
(***************************************************************************)
EXTENDS Integers, Sequences, FiniteSets

CONSTANTS Req,          \* requests that may be made over this connection
          MaxChunks,    \* bound: chunks the node produces per response
          StreamBuffer, \* capacity of pending.chunks (32 in the code)
          MaxRepeats,   \* bound: frames in flight when a chunk is repeated
          MisSequence   \* TRUE: the node may skip or repeat a data frame

ASSUME BoundsAssumption == /\ MaxChunks \in Nat
                           /\ MaxRepeats \in Nat
                           /\ StreamBuffer \in Nat \ {0}
                           /\ MisSequence \in BOOLEAN

VARIABLES
  link,         \* the WebSocket: "up" or "down"
  toNode, toCP, \* frames in flight, in order, per direction
  pending,      \* Conn.pending: the registered correlation ids
  closed, done, \* Conn.closed; whether Conn.done is closed
  live,         \* shutdown's local list of requests still to be released
  reader,       \* where the read loop is
  hand,         \* the item dispatch is about to send on a chunks channel
  panicked,     \* the read loop panicked (send on a closed channel)
  do,           \* where the call of Do is, or how it returned
  ctxDone,      \* the caller's context has been cancelled
  head, fail,   \* the one-slot channels pending.head and pending.fail
  chunks,       \* the buffered channel pending.chunks
  chunksClosed, \* closeChunks has run
  nextSeq,      \* pending.nextSeq
  pump,         \* where the pump goroutine is
  item,         \* the chunk the pump is writing into the pipe
  delivered,    \* what the reader of Response.Body has received
  body,         \* the pipe as its reader sees it
  bodyClosed,   \* bodyReader.Close has run
  node,         \* the node's handling of the request
  aborted,      \* the node's AbortController has fired
  produced      \* chunks the node has produced, its next seq

linkVars == <<link, toNode, toCP>>
connVars == <<pending, closed, done, live>>
readVars == <<reader, hand, panicked>>
callVars == <<do, ctxDone, head, fail>>
chanVars == <<chunks, chunksClosed, nextSeq>>
pumpVars == <<pump, item, delivered, body, bodyClosed>>
nodeVars == <<node, aborted, produced>>
vars == <<linkVars, connVars, readVars, callVars, chanVars, pumpVars, nodeVars>>

Nil == -1                                  \* the nil chunk that marks `end`
Item == (0 .. MaxChunks) \cup {Nil}
ToNodeFrame == [t : {"req", "cancel"}, id : Req]
ToCPFrame == [t : {"head", "err"}, id : Req]
        \cup [t : {"data"}, id : Req, seq : 0 .. MaxChunks]
        \cup [t : {"end"}, id : Req, chunks : 0 .. MaxChunks]

ReaderStates == {"read", "send", "shutdown", "closing", "stopped", "returned"}
DoStates == {"idle", "write", "select", "head", "failed", "cancelled",
             "disconnected", "refused", "writeError"}
PumpStates == {"none", "recv", "write", "exited"}
BodyStates == {"none", "open", "eof", "error"}
NodeStates == {"idle", "serving", "streaming", "ended", "failed", "gone"}

LinkType == /\ link \in {"up", "down"}
            /\ toNode \in Seq(ToNodeFrame) /\ toCP \in Seq(ToCPFrame)
ConnType == /\ pending \subseteq Req /\ live \subseteq Req
            /\ closed \in BOOLEAN /\ done \in BOOLEAN
ReadType == /\ reader \in ReaderStates /\ panicked \in BOOLEAN
            /\ hand \in [id : Req, item : Item] \cup {<<>>}
CallType == /\ do \in [Req -> DoStates] /\ ctxDone \in [Req -> BOOLEAN]
            /\ head \in [Req -> BOOLEAN] /\ fail \in [Req -> BOOLEAN]
ChanType == /\ chunks \in [Req -> Seq(Item)] /\ nextSeq \in [Req -> Nat]
            /\ chunksClosed \in [Req -> BOOLEAN]
PumpType == /\ pump \in [Req -> PumpStates] /\ item \in [Req -> Item]
            /\ delivered \in [Req -> Seq(Item)]
            /\ body \in [Req -> BodyStates] /\ bodyClosed \in [Req -> BOOLEAN]
NodeType == /\ node \in [Req -> NodeStates] /\ aborted \in [Req -> BOOLEAN]
            /\ produced \in [Req -> 0 .. MaxChunks]
TypeOK == /\ LinkType /\ ConnType /\ ReadType /\ CallType /\ ChanType
          /\ PumpType /\ NodeType

\* newConn, after the handshake has registered the connection.
Init ==
  /\ link = "up" /\ toNode = <<>> /\ toCP = <<>>
  /\ pending = {} /\ live = {} /\ closed = FALSE /\ done = FALSE
  /\ reader = "read" /\ hand = <<>> /\ panicked = FALSE
  /\ do = [r \in Req |-> "idle"] /\ ctxDone = [r \in Req |-> FALSE]
  /\ head = [r \in Req |-> FALSE] /\ fail = [r \in Req |-> FALSE]
  /\ chunks = [r \in Req |-> <<>>]
  /\ chunksClosed = [r \in Req |-> FALSE]
  /\ nextSeq = [r \in Req |-> 0]
  /\ pump = [r \in Req |-> "none"] /\ item = [r \in Req |-> Nil]
  /\ delivered = [r \in Req |-> <<>>]
  /\ body = [r \in Req |-> "none"] /\ bodyClosed = [r \in Req |-> FALSE]
  /\ node = [r \in Req |-> "idle"] /\ aborted = [r \in Req |-> FALSE]
  /\ produced = [r \in Req |-> 0]

-----------------------------------------------------------------------------
(* Helpers shared by the goroutines.                                       *)

\* Mutant: the slot is freed, the channel is left open.
SettleKeepsOpen(r) == pending' = pending \ {r} /\ UNCHANGED chunksClosed

\* settle: free the slot, and close its chunks if it was still registered.  The
\* channel is closed after c.mu is released: a send in between is one that came
\* before, and the only goroutine that could wait on it is the one settling.
Settle(r) ==
  /\ pending' = pending \ {r}
  /\ chunksClosed' = [chunksClosed EXCEPT ![r] = @ \/ r \in pending]

\* write: the frame is queued on a live socket, lost on a dead one.
Write(f) == toNode' = IF link = "up" THEN Append(toNode, f) ELSE toNode

\* Mutant: the cancel frame is never sent.
CancelNothing(r) == UNCHANGED toNode

\* cancel: best effort, its write error is ignored.
Cancel(r) == Write([t |-> "cancel", id |-> r])

\* Do refuses once shutdown has begun: the guard that keeps a request from
\* registering on a connection nobody reads any more.
Refused == closed

\* Mutant: a gap in the sequence goes unnoticed.
SeqAcceptedGap(f) == f.seq >= nextSeq[f.id]

\* A data frame must carry the next sequence number of its request.
SeqAccepted(f) == f.seq = nextSeq[f.id]

\* An end frame must name as many chunks as were received.
CountAccepted(f) == f.chunks = nextSeq[f.id]

-----------------------------------------------------------------------------
(* The caller of Do.                                                       *)

\* Under c.mu: refuse on a closed connection, else register the pending entry.
DoRegister(r) ==
  /\ do[r] = "idle"
  /\ IF Refused
     THEN do' = [do EXCEPT ![r] = "refused"] /\ UNCHANGED pending
     ELSE do' = [do EXCEPT ![r] = "write"] /\ pending' = pending \cup {r}
  /\ UNCHANGED <<linkVars, closed, done, live, readVars, ctxDone, head, fail,
                 chanVars, pumpVars, nodeVars>>

\* The req frame goes out; a write error settles and returns.
DoWrite(r) ==
  /\ do[r] = "write"
  /\ IF link = "up"
     THEN /\ Write([t |-> "req", id |-> r])
          /\ do' = [do EXCEPT ![r] = "select"]
          /\ UNCHANGED <<pending, chunksClosed>>
     ELSE /\ do' = [do EXCEPT ![r] = "writeError"]
          /\ Settle(r)
          /\ UNCHANGED toNode
  /\ UNCHANGED <<link, toCP, closed, done, live, readVars, ctxDone, head, fail,
                 chunks, nextSeq, pumpVars, nodeVars>>

\* The browser's request context ends (a closed tab, a timeout).
CtxDone(r) ==
  /\ do[r] \in {"write", "select"} /\ ~ctxDone[r]
  /\ ctxDone' = [ctxDone EXCEPT ![r] = TRUE]
  /\ UNCHANGED <<linkVars, connVars, readVars, do, head, fail, chanVars,
                 pumpVars, nodeVars>>

\* case <-ctx.Done(): a cancel frame is sent and the slot is left registered.
DoCancelled(r) ==
  /\ do[r] = "select" /\ ctxDone[r]
  /\ do' = [do EXCEPT ![r] = "cancelled"]
  /\ Cancel(r)
  /\ UNCHANGED <<link, toCP, connVars, readVars, ctxDone, head, fail, chanVars,
                 pumpVars, nodeVars>>

\* case <-c.done
DoDisconnected(r) ==
  /\ do[r] = "select" /\ done
  /\ do' = [do EXCEPT ![r] = "disconnected"]
  /\ Settle(r)
  /\ UNCHANGED <<linkVars, closed, done, live, readVars, ctxDone, head, fail,
                 chunks, nextSeq, pumpVars, nodeVars>>

\* case e := <-p.fail
DoFailed(r) ==
  /\ do[r] = "select" /\ fail[r]
  /\ do' = [do EXCEPT ![r] = "failed"]
  /\ fail' = [fail EXCEPT ![r] = FALSE]
  /\ Settle(r)
  /\ UNCHANGED <<linkVars, closed, done, live, readVars, ctxDone, head,
                 chunks, nextSeq, pumpVars, nodeVars>>

\* case resp := <-p.head: the pump starts and the caller owns the body.
DoHead(r) ==
  /\ do[r] = "select" /\ head[r]
  /\ do' = [do EXCEPT ![r] = "head"]
  /\ head' = [head EXCEPT ![r] = FALSE]
  /\ pump' = [pump EXCEPT ![r] = "recv"]
  /\ body' = [body EXCEPT ![r] = "open"]
  /\ UNCHANGED <<linkVars, connVars, readVars, ctxDone, fail, chanVars, item,
                 delivered, bodyClosed, nodeVars>>

-----------------------------------------------------------------------------
(* The pump, and the consumer of the response body.                        *)

\* Mutant: the chunk written stays in the channel.
PumpRecvPeeks(r) ==
  /\ pump[r] = "recv" /\ chunks[r] # <<>> /\ Head(chunks[r]) # Nil
  /\ item' = [item EXCEPT ![r] = Head(chunks[r])]
  /\ pump' = [pump EXCEPT ![r] = "write"]
  /\ UNCHANGED <<linkVars, connVars, readVars, callVars, chanVars, delivered,
                 body, bodyClosed, nodeVars>>

\* One chunk leaves the channel; the pump now blocks in pw.Write.
PumpRecv(r) ==
  /\ pump[r] = "recv" /\ chunks[r] # <<>> /\ Head(chunks[r]) # Nil
  /\ item' = [item EXCEPT ![r] = Head(chunks[r])]
  /\ chunks' = [chunks EXCEPT ![r] = Tail(@)]
  /\ pump' = [pump EXCEPT ![r] = "write"]
  /\ UNCHANGED <<linkVars, connVars, readVars, callVars, chunksClosed, nextSeq,
                 delivered, body, bodyClosed, nodeVars>>

\* The nil chunk: a clean end of file, then the deferred settle.
PumpEnd(r) ==
  /\ pump[r] = "recv" /\ chunks[r] # <<>> /\ Head(chunks[r]) = Nil
  /\ chunks' = [chunks EXCEPT ![r] = Tail(@)]
  /\ pump' = [pump EXCEPT ![r] = "exited"]
  /\ body' = [body EXCEPT ![r] = "eof"]
  /\ Settle(r)
  /\ UNCHANGED <<linkVars, closed, done, live, readVars, callVars, nextSeq,
                 item, delivered, bodyClosed, nodeVars>>

\* The channel was closed under the pump: the body ends with an error.
PumpClosed(r) ==
  /\ pump[r] = "recv" /\ chunks[r] = <<>> /\ chunksClosed[r]
  /\ pump' = [pump EXCEPT ![r] = "exited"]
  /\ body' = [body EXCEPT ![r] = "error"]
  /\ Settle(r)
  /\ UNCHANGED <<linkVars, closed, done, live, readVars, callVars, chunks,
                 nextSeq, item, delivered, bodyClosed, nodeVars>>

\* pw.Write returns once the consumer has read the chunk.
PumpWrite(r) ==
  /\ pump[r] = "write" /\ ~bodyClosed[r]
  /\ delivered' = [delivered EXCEPT ![r] = Append(@, item[r])]
  /\ pump' = [pump EXCEPT ![r] = "recv"]
  /\ UNCHANGED <<linkVars, connVars, readVars, callVars, chanVars, item, body,
                 bodyClosed, nodeVars>>

\* pw.Write fails because the consumer closed the pipe: cancel and settle.
PumpWriteError(r) ==
  /\ pump[r] = "write" /\ bodyClosed[r]
  /\ pump' = [pump EXCEPT ![r] = "exited"]
  /\ body' = [body EXCEPT ![r] = "error"]
  /\ Cancel(r)
  /\ Settle(r)
  /\ UNCHANGED <<link, toCP, closed, done, live, readVars, callVars, chunks,
                 nextSeq, item, delivered, bodyClosed, nodeVars>>

\* bodyReader.Close, once: cancel the node's work, then close the pipe.  The
\* proxy closes every body, after its end or when the browser goes away.
BodyClose(r) ==
  /\ body[r] # "none" /\ ~bodyClosed[r]
  /\ bodyClosed' = [bodyClosed EXCEPT ![r] = TRUE]
  /\ Cancel(r)
  /\ UNCHANGED <<link, toCP, connVars, readVars, callVars, chanVars, pump, item,
                 delivered, body, nodeVars>>

-----------------------------------------------------------------------------
(* The read loop: serve and dispatch.                                      *)

Incoming(t) == reader = "read" /\ toCP # <<>> /\ Head(toCP).t = t

\* p.head <- resp: blocks while the slot is full.
DispatchHead ==
  /\ Incoming("head")
  /\ LET r == Head(toCP).id IN
       /\ r \in pending => ~head[r]
       /\ head' = [head EXCEPT ![r] = @ \/ r \in pending]
  /\ toCP' = Tail(toCP)
  /\ UNCHANGED <<link, toNode, connVars, readVars, do, ctxDone, fail, chanVars,
                 pumpVars, nodeVars>>

\* A chunk for a settled request is ignored, one out of sequence ends the
\* connection, any other is counted and taken to the channel.
DispatchData ==
  /\ Incoming("data")
  /\ LET f == Head(toCP) IN
       IF f.id \notin pending THEN UNCHANGED <<reader, hand, nextSeq>>
       ELSE IF SeqAccepted(f)
       THEN /\ nextSeq' = [nextSeq EXCEPT ![f.id] = @ + 1]
            /\ hand' = [id |-> f.id, item |-> f.seq]
            /\ reader' = "send"
       ELSE reader' = "shutdown" /\ UNCHANGED <<hand, nextSeq>>
  /\ toCP' = Tail(toCP)
  /\ UNCHANGED <<link, toNode, connVars, panicked, callVars, chunks,
                 chunksClosed, pumpVars, nodeVars>>

\* end: a wrong count ends the connection, else nil goes to the channel.
DispatchEnd ==
  /\ Incoming("end")
  /\ LET f == Head(toCP) IN
       IF f.id \notin pending THEN UNCHANGED <<reader, hand>>
       ELSE IF CountAccepted(f)
       THEN hand' = [id |-> f.id, item |-> Nil] /\ reader' = "send"
       ELSE reader' = "shutdown" /\ UNCHANGED hand
  /\ toCP' = Tail(toCP)
  /\ UNCHANGED <<link, toNode, connVars, panicked, callVars, chanVars, pumpVars,
                 nodeVars>>

\* err: into the fail slot if it is free, else close the chunks.
DispatchErr ==
  /\ Incoming("err")
  /\ LET r == Head(toCP).id IN
       IF r \notin pending THEN UNCHANGED <<fail, chunksClosed>>
       ELSE IF ~fail[r]
       THEN fail' = [fail EXCEPT ![r] = TRUE] /\ UNCHANGED chunksClosed
       ELSE chunksClosed' = [chunksClosed EXCEPT ![r] = TRUE] /\ UNCHANGED fail
  /\ toCP' = Tail(toCP)
  /\ UNCHANGED <<link, toNode, connVars, readVars, do, ctxDone, head, chunks,
                 nextSeq, pumpVars, nodeVars>>

\* Mutant: a send that does not wait drops the chunk when there is no room.
SendChunkOrDrop ==
  /\ reader = "send" /\ ~chunksClosed[hand.id]
  /\ chunks' = IF Len(chunks[hand.id]) < StreamBuffer
               THEN [chunks EXCEPT ![hand.id] = Append(@, hand.item)]
               ELSE chunks
  /\ reader' = "read" /\ hand' = <<>>
  /\ UNCHANGED <<linkVars, connVars, panicked, callVars, chunksClosed, nextSeq,
                 pumpVars, nodeVars>>

\* p.chunks <- bytes: waits for room; the request context of the uplink does
\* not end while ServeHTTP runs, so nothing else ends the wait.
SendChunk ==
  /\ reader = "send" /\ ~chunksClosed[hand.id]
  /\ Len(chunks[hand.id]) < StreamBuffer
  /\ chunks' = [chunks EXCEPT ![hand.id] = Append(@, hand.item)]
  /\ reader' = "read" /\ hand' = <<>>
  /\ UNCHANGED <<linkVars, connVars, panicked, callVars, chunksClosed, nextSeq,
                 pumpVars, nodeVars>>

\* The read loop waits for room that only the request's pump can make.
ReaderStuck ==
  /\ reader = "send" /\ ~chunksClosed[hand.id]
  /\ Len(chunks[hand.id]) >= StreamBuffer

\* The channel was closed between lookup and send: the send panics, and
\* serve's deferred shutdown runs while the panic unwinds.
SendPanics ==
  /\ reader = "send" /\ chunksClosed[hand.id]
  /\ reader' = "shutdown" /\ hand' = <<>> /\ panicked' = TRUE
  /\ UNCHANGED <<linkVars, connVars, callVars, chanVars, pumpVars, nodeVars>>

\* Mutant: a read error is retried for ever.
ReadErrorRetries ==
  reader = "read" /\ link = "down" /\ toCP = <<>> /\ UNCHANGED vars

\* ws.Read fails once the socket is down and what it had buffered is consumed.
ReadError ==
  /\ reader = "read" /\ link = "down" /\ toCP = <<>>
  /\ reader' = "shutdown"
  /\ UNCHANGED <<linkVars, connVars, hand, panicked, callVars, chanVars,
                 pumpVars, nodeVars>>

\* shutdown, under c.mu: close the connection and take the live requests.
ShutdownDrain ==
  /\ reader = "shutdown"
  /\ closed' = TRUE /\ live' = pending /\ pending' = {}
  /\ reader' = "closing"
  /\ UNCHANGED <<linkVars, done, hand, panicked, callVars, chanVars, pumpVars,
                 nodeVars>>

\* Mutant: the channel is left open.
ShutdownCloseSkips(r) ==
  /\ reader = "closing" /\ r \in live
  /\ live' = live \ {r}
  /\ UNCHANGED <<linkVars, pending, closed, done, readVars, callVars, chanVars,
                 pumpVars, nodeVars>>

\* shutdown, after c.mu: closeChunks on each of them ...
ShutdownClose(r) ==
  /\ reader = "closing" /\ r \in live
  /\ chunksClosed' = [chunksClosed EXCEPT ![r] = TRUE]
  /\ live' = live \ {r}
  /\ UNCHANGED <<linkVars, pending, closed, done, readVars, callVars, chunks,
                 nextSeq, pumpVars, nodeVars>>

\* ... and only then close(c.done).
ShutdownDone ==
  /\ reader = "closing" /\ live = {}
  /\ done' = TRUE /\ reader' = "stopped"
  /\ UNCHANGED <<linkVars, pending, closed, live, hand, panicked, callVars,
                 chanVars, pumpVars, nodeVars>>

\* The node loses its socket: onClose aborts what is in flight and nothing it
\* sends afterwards reaches this connection.
NodeSeesClose ==
  /\ toNode' = <<>>
  /\ node' = [r \in Req |-> IF node[r] \in {"serving", "streaming"}
                            THEN "gone" ELSE node[r]]

\* ServeHTTP after serve: CloseNow, which a panic skips.
HandlerReturns ==
  /\ reader = "stopped"
  /\ reader' = "returned"
  /\ IF panicked THEN UNCHANGED <<linkVars, node>>
     ELSE link' = "down" /\ toCP' = <<>> /\ NodeSeesClose
  /\ UNCHANGED <<connVars, hand, panicked, callVars, chanVars, pumpVars,
                 aborted, produced>>

-----------------------------------------------------------------------------
(* The socket and the node.                                                *)

\* The network or the node drops the socket; the frames that had already
\* arrived are still read.
LinkDrops ==
  /\ link = "up"
  /\ link' = "down"
  /\ \E n \in 0 .. Len(toCP) : toCP' = SubSeq(toCP, 1, n)
  /\ NodeSeesClose
  /\ UNCHANGED <<connVars, readVars, callVars, chanVars, pumpVars, aborted,
                 produced>>

\* heartbeat: while the read loop is stuck no pong is dispatched, so the
\* silence outgrows 2*heartbeatInterval+5s and ws.Close ends the socket.
HeartbeatLost ==
  /\ link = "up" /\ ReaderStuck
  /\ link' = "down" /\ toCP' = <<>>
  /\ NodeSeesClose
  /\ UNCHANGED <<connVars, readVars, callVars, chanVars, pumpVars, aborted,
                 produced>>

\* send: a frame toward the control plane.
NodeSend(f) == toCP' = Append(toCP, f)

\* onMessage, case 'req': serve registers its AbortController in inFlight.
NodeReq ==
  /\ link = "up" /\ toNode # <<>> /\ Head(toNode).t = "req"
  /\ toNode' = Tail(toNode)
  /\ node' = [node EXCEPT ![Head(toNode).id] = "serving"]
  /\ UNCHANGED <<link, toCP, connVars, readVars, callVars, chanVars, pumpVars,
                 aborted, produced>>

\* onMessage, case 'cancel': abort the request if it is still in flight.
NodeCancel ==
  /\ link = "up" /\ toNode # <<>> /\ Head(toNode).t = "cancel"
  /\ toNode' = Tail(toNode)
  /\ LET r == Head(toNode).id IN
       aborted' = [aborted EXCEPT ![r] =
                     @ \/ node[r] \in {"serving", "streaming"}]
  /\ UNCHANGED <<link, toCP, connVars, readVars, callVars, chanVars, pumpVars,
                 node, produced>>

\* stream: the local server answered, head goes out.
NodeHead(r) ==
  /\ node[r] = "serving" /\ ~aborted[r]
  /\ node' = [node EXCEPT ![r] = "streaming"]
  /\ NodeSend([t |-> "head", id |-> r])
  /\ UNCHANGED <<link, toNode, connVars, readVars, callVars, chanVars, pumpVars,
                 aborted, produced>>

\* stream: one data frame.  The pieces of a value already read still go out
\* after an abort.
NodeData(r) ==
  /\ node[r] = "streaming" /\ produced[r] < MaxChunks
  /\ NodeSend([t |-> "data", id |-> r, seq |-> produced[r]])
  /\ produced' = [produced EXCEPT ![r] = @ + 1]
  /\ UNCHANGED <<link, toNode, connVars, readVars, callVars, chanVars, pumpVars,
                 node, aborted>>

\* A defective node, against which seq is checked: it loses a chunk it
\* counted, or repeats one.
NodeMisSequences(r) ==
  /\ MisSequence /\ node[r] = "streaming"
  /\ \/ /\ produced[r] < MaxChunks
        /\ produced' = [produced EXCEPT ![r] = @ + 1]
        /\ UNCHANGED toCP
     \/ /\ produced[r] > 0 /\ Len(toCP) < MaxRepeats
        /\ NodeSend([t |-> "data", id |-> r, seq |-> produced[r] - 1])
        /\ UNCHANGED produced
  /\ UNCHANGED <<link, toNode, connVars, readVars, callVars, chanVars, pumpVars,
                 node, aborted>>

\* stream: the local body ended.
NodeEnd(r) ==
  /\ node[r] = "streaming"
  /\ node' = [node EXCEPT ![r] = "ended"]
  /\ NodeSend([t |-> "end", id |-> r, chunks |-> produced[r]])
  /\ UNCHANGED <<link, toNode, connVars, readVars, callVars, chanVars, pumpVars,
                 aborted, produced>>

\* serve's catch, or a refusal before any head: err is the last frame.
NodeErr(r) ==
  /\ node[r] \in {"serving", "streaming"}
  /\ node' = [node EXCEPT ![r] = "failed"]
  /\ NodeSend([t |-> "err", id |-> r])
  /\ UNCHANGED <<link, toNode, connVars, readVars, callVars, chanVars, pumpVars,
                 aborted, produced>>

-----------------------------------------------------------------------------
Caller(r) == DoWrite(r) \/ DoCancelled(r) \/ DoDisconnected(r) \/ DoFailed(r)
             \/ DoHead(r)
Pump(r) == PumpRecv(r) \/ PumpEnd(r) \/ PumpClosed(r) \/ PumpWrite(r)
           \/ PumpWriteError(r)
Reader == DispatchHead \/ DispatchData \/ DispatchEnd \/ DispatchErr
          \/ SendChunk \/ SendPanics \/ ReadError \/ ShutdownDrain
          \/ (\E r \in Req : ShutdownClose(r)) \/ ShutdownDone \/ HandlerReturns
Browser(r) == DoRegister(r) \/ CtxDone(r) \/ BodyClose(r)
NodeServes(r) == NodeHead(r) \/ NodeData(r) \/ NodeMisSequences(r)
                 \/ NodeEnd(r) \/ NodeErr(r)

Next == \/ \E r \in Req : Browser(r) \/ Caller(r) \/ Pump(r) \/ NodeServes(r)
        \/ Reader \/ LinkDrops \/ HeartbeatLost \/ NodeReq \/ NodeCancel

Spec == Init /\ [][Next]_vars

(***************************************************************************)
(* Fairness.  Goroutines run, the heartbeat ticks, a browser that keeps    *)
(* its response open keeps reading it, and the node handles the frames it  *)
(* receives and answers a request it was told to abort.  Nothing obliges   *)
(* a browser to ask or to leave, the network to fail, or the local server  *)
(* to produce or to end an answer: an event stream never ends.             *)
(***************************************************************************)
Fairness ==
  /\ \A r \in Req : /\ WF_vars(Caller(r))
                     /\ WF_vars(Pump(r))
                     /\ WF_vars(aborted[r] /\ (NodeEnd(r) \/ NodeErr(r)))
  /\ WF_vars(Reader)
  /\ WF_vars(HeartbeatLost)
  /\ WF_vars(NodeReq \/ NodeCancel)

FairSpec == Spec /\ Fairness

-----------------------------------------------------------------------------
(* Safety.                                                                 *)

\* dispatch's seq check (pending.nextSeq): what the reader of a response body
\* has received is a prefix of what the node produced, in order and without a
\* gap or a repetition, even when the node mis-sequences its frames.
StreamIntegrity ==
  \A r \in Req : \A i \in 1 .. Len(delivered[r]) : delivered[r][i] = i - 1

\* dispatch's end count and pump's nil chunk: a body ends cleanly only after
\* the node ended it and every chunk it produced was delivered; a truncated
\* body never looks complete.
CleanEOF ==
  \A r \in Req : body[r] = "eof" =>
     node[r] = "ended" /\ Len(delivered[r]) = produced[r]

\* Do against shutdown: once closed is set no request is registered, so none
\* waits on a connection whose read loop is gone.
NothingAfterClosed == closed => pending = {}

\* shutdown: when done closes, every request whose caller has not returned, has
\* given up or whose pump is still at work has had its chunks closed, so nobody
\* waits on them any more.
DoneReleases ==
  done => \A r \in Req : \/ do[r] \in {"write", "select", "cancelled"}
                         \/ pump[r] \in {"recv", "write"}
                         => chunksClosed[r]

\* Do and pump: a registered slot has a goroutine that will settle it, unless
\* its caller's context ended first.
SlotOwned ==
  \A r \in pending : \/ do[r] \in {"write", "select", "cancelled"}
                     \/ do[r] = "head" /\ pump[r] \in {"recv", "write"}

\* cancel from Do, from pump and from bodyReader.Close: once nobody wants the
\* answer, a node still at work on it has been told, or its cancel frame is on
\* the wire behind the req it answers to.
AbandonedIsTold ==
  \A r \in Req :
    (do[r] = "cancelled" \/ bodyClosed[r]) /\ node[r] \in {"serving", "streaming"}
    => \/ aborted[r]
       \/ \E i \in 1 .. Len(toNode) : toNode[i] = [t |-> "cancel", id |-> r]

\* dispatch's two blocking sends: the head slot is free when a head arrives,
\* and for a full channel a goroutine of the same request still makes room, its
\* caller about to take the head or its pump.  Only a caller whose context
\* ended before the head leaves the read loop waiting for nobody.
OnlyAWedgeBlocks ==
  /\ Incoming("head") => ~head[Head(toCP).id]
  /\ ReaderStuck => \/ do[hand.id] = "cancelled"
                    \/ do[hand.id] = "select" /\ head[hand.id]
                    \/ pump[hand.id] \in {"recv", "write"}

-----------------------------------------------------------------------------
(* Liveness, under FairSpec.                                               *)

\* The read loop waits for room in the channel of a request whose caller's
\* context ended before head: it has no pump, and never will.
Wedged == ReaderStuck /\ do[hand.id] = "cancelled"

\* shutdown's closing of done and of chunks: a lost socket releases every
\* caller of Do and ends every response body, however full its channel, unless
\* the read loop is wedged and so never gets to shutdown.
EveryoneReleased ==
  link = "down" ~> (Wedged \/ \A r \in Req : /\ do[r] \notin {"write", "select"}
                                            /\ body[r] # "open")

\* cancel from Do, from pump and from bodyReader.Close: once nobody wants the
\* answer, the node stops working on it.
AbandonedWorkStops ==
  \A r \in Req : (do[r] = "cancelled" \/ bodyClosed[r])
                   ~> node[r] \notin {"serving", "streaming"}

\* ServeHTTP returns after the socket is lost, which is what deregisters the
\* node (Registry.Remove) and lets it connect again, unless the read loop is
\* wedged.
HandlerEnds == link = "down" ~> (Wedged \/ reader = "returned")

-----------------------------------------------------------------------------
(* What comments and documents say, and the code does not do.              *)

\* conn.go, Do: "it still answers with err/cancelled, which is what frees the
\* correlation slot".
CancelFreesSlot ==
  \A r \in Req : do[r] = "cancelled" /\ fail[r] => r \notin pending

\* conn_test.go: "A browser that goes away must not take the machine down with
\* it": once its socket is lost the node is always deregistered.
HandlerAlwaysEnds == link = "down" ~> reader = "returned"

\* conn.go, dispatch: "already settled; a late chunk is not fatal".
LateChunkNotFatal == ~panicked

\* conn.go, dispatch: "head already delivered: the failure belongs to the body
\* stream"; an err after head ends the body.
ErrEndsBody ==
  \A r \in Req : (body[r] = "open" /\ ~bodyClosed[r] /\ fail[r])
                   ~> (body[r] # "open" \/ bodyClosed[r])
=============================================================================

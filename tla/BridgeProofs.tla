----------------------------- MODULE BridgeProofs -----------------------------
(***************************************************************************)
(* TLAPS proofs about UplinkBridge, for any number of connections, ids and *)
(* messages and any buffer.                                                *)
(***************************************************************************)
EXTENDS UplinkBridge, TLAPS

-----------------------------------------------------------------------------
(* The inductive invariant.                                                *)

\* What a node sends: a message names its position.
NodeFrame == {f \in Frame : f.t = "msg" => f.n \in 1 .. MaxMsgs}

\* A bridge that no OpenWS has registered yet.
Fresh(b) == b.conn > conn \/ (b.conn = conn /\ b.id > nextID)

\* Shutdown closes the connection it serves, and takes its bridges with it.
LifeInv ==
  /\ conn \in closed <=> reader \in {"closing", "returned"}
  /\ closed \subseteq 1 .. conn
  /\ link = "down" => toNode = <<>>
  /\ \A i \in 1 .. Len(toNode) : toNode[i].t = "open" => toNode[i].id <= nextID

\* Nothing has happened to a fresh bridge.
Untouched(b) ==
  /\ open[b] = "idle" /\ relay[b] = "none"
  /\ got[b] = <<>> /\ messages[b] = <<>> /\ sock[b] = "none" /\ sent[b] = 0
  /\ closes[b] = 0 /\ b \notin bridges /\ b \notin live
  /\ reader = "send" => hand.to # b
  /\ \A i \in Id : at[i] # b

FreshInv == \A b \in Bridge : Fresh(b) => Untouched(b)

\* Whoever may still close Messages, the map or shutdown's list, is the only
\* one, and it is open until then.
CloseInv ==
  /\ \A b \in bridges : closes[b] = 0 /\ b \notin live
  /\ \A b \in live : closes[b] = 0
  /\ ClosedOnce

\* The relay starts when OpenWS returns.
RelayInv ==
  \A b \in Bridge : open[b] \in {"idle", "write", "select"} => relay[b] = "none"

\* A local socket that can still send belongs to the connection that is up, or
\* is on record as a stray.
SockInv ==
  \A s \in Bridge : sock[s] \in {"connecting", "open"} =>
    s \in strays \/ (link = "up" /\ s.conn = conn)

\* The messages under one id in a queue q of frames.
IsMsg(f, i) == f.t = "msg" /\ f.id = i

\* The messages under i in q are numbered p + 1, p + 2, ..., s: c counts them.
Numbered(q, i, p, s) ==
  \E c \in [0 .. Len(q) -> Nat] :
    /\ c[0] = p /\ c[Len(q)] = s
    /\ \A k \in 1 .. Len(q) :
         /\ c[k] = IF IsMsg(q[k], i) THEN c[k - 1] + 1 ELSE c[k - 1]
         /\ IsMsg(q[k], i) => q[k].n = c[k]

\* Between lookup and send, dispatch holds one message of b.
Held(b) == reader = "send" /\ hand.to = b

\* The messages of b that have left the queue of frames.
Passed(b) ==
  Len(got[b]) + Len(messages[b]) + IF Held(b) THEN 1 ELSE 0

\* What the browser has received, what waits in Messages and what dispatch
\* holds are consecutive ...
ChannelOK(b) ==
  /\ \A i \in 1 .. Len(messages[b]) : messages[b][i] = Len(got[b]) + i
  /\ Held(b) => hand.n = Len(got[b]) + Len(messages[b]) + 1

\* ... and so are the frames behind, up to the last message its socket sent.
QueueOK(b) ==
  \E s \in Nat : /\ Numbered(toCP, b.id, Passed(b), s)
                 /\ link = "up" => s = sent[b]

\* Whether frames of b still find their way: its relay has not given up, the
\* map still names it, and the read loop runs.
Wanted(b) ==
  b \in bridges /\ relay[b] # "exited" /\ reader \in {"read", "send"}

NothingFor(b) == \A k \in 1 .. Len(toCP) : ~IsMsg(toCP[k], b.id)

\* What was received stays in order; the rest is, while it can still arrive;
\* nothing is on its way to a fresh bridge.
FlowOK(b) ==
  Fouled(b) \/ /\ \A i \in 1 .. Len(got[b]) : got[b][i] = i
               /\ relay[b] # "exited" => ChannelOK(b)
               /\ Wanted(b) => QueueOK(b)
               /\ Fresh(b) /\ b.conn = conn => NothingFor(b)

FlowInv == \A b \in Bridge : FlowOK(b)

-----------------------------------------------------------------------------
(* Types.                                                                  *)

\* What the bounds and records are.
LEMMA Bounds ==
  /\ MaxConns \in Nat /\ MaxConns >= 1 /\ MaxIds \in Nat /\ MaxIds >= 1
  /\ MaxMsgs \in Nat /\ StreamBuffer \in Nat
BY BridgeBounds

\* A bridge is the pair of its connection and its id.
LEMMA BridgeTypes ==
  /\ \A b \in Bridge : /\ b.conn \in 1 .. MaxConns /\ b.id \in Id
                       /\ b.conn \in Nat /\ b.id \in Nat
  /\ \A b, d \in Bridge : b.conn = d.conn /\ b.id = d.id => b = d
  /\ conn \in 1 .. MaxConns => \A i \in Id : /\ Here(i) \in Bridge
                                             /\ Here(i).conn = conn
                                             /\ Here(i).id = i
  /\ None \notin Bridge
BY Bounds DEF Bridge, Id, Here, None

\* What the fields of a frame are.
LEMMA FrameFields ==
  \A t, i, n : /\ frame(t, i, n).t = t
               /\ frame(t, i, n).id = i /\ frame(t, i, n).n = n
BY DEF frame

\* The frames each side writes are frames, and what a frame carries.
LEMMA FrameTypes ==
  /\ NodeFrame \subseteq Frame
  /\ \A f \in Frame : f.id \in Id
  /\ \A f \in NodeFrame : f.t = "msg" => f.n \in 1 .. MaxMsgs
  /\ \A i \in Id : /\ frame("open", i, 0) \in Frame
                   /\ frame("close", i, 0) \in Frame
                   /\ \A t \in {"up", "close", "err"} : frame(t, i, 0) \in NodeFrame
                   /\ \A n \in 1 .. MaxMsgs : frame("msg", i, n) \in NodeFrame
BY Bounds DEF Frame, NodeFrame, frame

\* What a queue holds: the first frame, the rest, and each of them.
LEMMA QueueTypes ==
  \A S : \A q \in Seq(S) :
    /\ q # <<>> => /\ Head(q) \in S /\ Tail(q) \in Seq(S)
                   /\ Head(q) = q[1] /\ 1 \in 1 .. Len(q)
    /\ \A f \in S : Append(q, f) \in Seq(S)
    /\ \A n \in 0 .. Len(q) : SubSeq(q, 1, n) \in Seq(S)
    /\ <<>> \in Seq(S)
OBVIOUS

\* The parts of TypeInv.
LinkType ==
  /\ conn \in 1 .. MaxConns /\ link \in {"up", "down"}
  /\ toNode \in Seq(Frame) /\ toCP \in Seq(NodeFrame)
ConnType ==
  /\ nextID \in 0 .. MaxIds /\ bridges \subseteq Bridge /\ live \subseteq Bridge
  /\ closed \subseteq 1 .. MaxConns /\ done \subseteq closed
ReadType ==
  /\ reader \in {"read", "send", "shutdown", "closing", "panicked", "returned"}
  /\ hand \in [to : Bridge, n : 1 .. MaxMsgs] \cup {<<>>}
  /\ reader = "send" => hand \in [to : Bridge, n : 1 .. MaxMsgs]
  /\ reader = "closing" => conn \in closed
ProxyType ==
  /\ open \in [Bridge -> OpenStates] /\ gone \in [Bridge -> BOOLEAN]
  /\ relay \in [Bridge -> {"none", "running", "exited"}]
  /\ got \in [Bridge -> Seq(1 .. MaxMsgs)]
ChanType ==
  /\ up \in [Bridge -> BOOLEAN] /\ closes \in [Bridge -> Nat]
  /\ messages \in [Bridge -> Seq(1 .. MaxMsgs)]
NodeType ==
  /\ sock \in [Bridge -> SockStates] /\ sent \in [Bridge -> 0 .. MaxMsgs]
  /\ at \in [Id -> Bridge \cup {None}] /\ strays \subseteq Bridge

TypeInv ==
  LinkType /\ ConnType /\ ReadType /\ ProxyType /\ ChanType /\ NodeType

\* It is stronger than TypeOK.
LEMMA TypesSuffice == TypeInv => TypeOK
<1> SUFFICES ASSUME TypeInv PROVE TypeOK
  OBVIOUS
<1>1. toCP \in Seq(Frame)
  BY FrameTypes DEF TypeInv, LinkType
<1> QED BY <1>1 DEF TypeInv, TypeOK, LinkType, ConnType, ReadType, ProxyType,
     ChanType, NodeType

\* Init establishes the type invariant.
LEMMA TypeInit == Init => TypeInv
<1> SUFFICES ASSUME Init PROVE TypeInv
  OBVIOUS
<1>1. LinkType
  BY Bounds, QueueTypes DEF Init, LinkType
<1>2. ConnType /\ ReadType
  BY Bounds DEF Init, ConnType, ReadType
<1>3. ProxyType /\ ChanType
  BY QueueTypes DEF Init, ProxyType, ChanType, OpenStates
<1>4. NodeType
  BY Bounds DEF Init, NodeType, SockStates
<1> QED BY <1>1, <1>2, <1>3, <1>4 DEF TypeInv

\* A write toward the node.
LEMMA WriteType ==
  ASSUME LinkType, NEW b \in Bridge, NEW t \in {"open", "close"}, Write(b, t)
  PROVE  toNode' \in Seq(Frame)
BY FrameTypes, BridgeTypes, QueueTypes DEF LinkType, Write

\* A send toward the control plane.
LEMMA SendType ==
  ASSUME LinkType, NEW f \in NodeFrame, NodeSend(f)
  PROVE  toCP' \in Seq(NodeFrame)
BY QueueTypes DEF LinkType, NodeSend

\* dropBridge.
LEMMA DropType ==
  ASSUME ConnType, ChanType, NEW b \in Bridge, DropBridge(b)
  PROVE  bridges' \subseteq Bridge /\ closes' \in [Bridge -> Nat]
BY DEF ConnType, ChanType, DropBridge

\* The frame dispatch takes, and the queue it leaves.
LEMMA TakeType ==
  ASSUME LinkType, toCP # <<>>
  PROVE  /\ Head(toCP) \in NodeFrame /\ Head(toCP).id \in Id
         /\ Tail(toCP) \in Seq(NodeFrame)
         /\ From \in Bridge /\ From.conn = conn /\ From.id = Head(toCP).id
<1>1. Head(toCP) \in NodeFrame /\ Tail(toCP) \in Seq(NodeFrame)
  BY QueueTypes DEF LinkType
<1> QED BY <1>1, FrameTypes, BridgeTypes DEF From, LinkType

\* The frame the node takes, and the queue it leaves.
LEMMA NodeTakeType ==
  ASSUME LinkType, toNode # <<>>
  PROVE  /\ Head(toNode) \in Frame /\ Head(toNode).id \in Id
         /\ Tail(toNode) \in Seq(Frame)
         /\ Here(Head(toNode).id) \in Bridge
         /\ Here(Head(toNode).id).id = Head(toNode).id
<1>1. Head(toNode) \in Frame /\ Tail(toNode) \in Seq(Frame)
  BY QueueTypes DEF LinkType
<1> QED BY <1>1, FrameTypes, BridgeTypes DEF LinkType

\* Closing sockets.
LEMMA ClosingType ==
  ASSUME NodeType, NEW S
  PROVE  Closing(S) \in [Bridge -> SockStates]
BY DEF Closing, NodeType, SockStates

\* Every action preserves the type invariant.
LEMMA TypeStep == TypeInv /\ [Next]_vars => TypeInv'
<1> SUFFICES ASSUME TypeInv, [Next]_vars PROVE TypeInv'
  OBVIOUS
<1> DEFINE Types == LinkType /\ ConnType /\ ReadType /\ ProxyType /\ ChanType
                    /\ NodeType
<1>t. Types
  BY DEF TypeInv
<1> SUFFICES Types'
  BY DEF TypeInv
<1> USE DEF linkVars, connVars, readVars, proxyVars, chanVars, nodeVars
<1>1. CASE OpenRegister
  <2>1. LinkType' /\ ReadType' /\ ChanType' /\ NodeType'
    BY <1>t, <1>1 DEF OpenRegister, LinkType, ReadType, ChanType, NodeType
  <2>2. ConnType'
    BY <1>t, <1>1, Bounds, BridgeTypes DEF OpenRegister, ConnType, Id, LinkType
  <2>3. ProxyType'
    BY <1>t, <1>1, Bounds, BridgeTypes DEF OpenRegister, ProxyType, ConnType,
      Id, LinkType, OpenStates
  <2> QED BY <2>1, <2>2, <2>3
<1>2. ASSUME NEW b \in Bridge, OpenWrite(b) PROVE Types'
  <2>1. ReadType' /\ NodeType'
    BY <1>t, <1>2 DEF OpenWrite, ReadType, NodeType
  <2>2. LinkType'
    BY <1>t, <1>2, WriteType DEF OpenWrite, LinkType
  <2>3. ConnType'
    BY <1>t, <1>2, DropType DEF OpenWrite, ConnType
  <2>4. ProxyType'
    BY <1>t, <1>2 DEF OpenWrite, ProxyType, OpenStates
  <2>5. ChanType'
    BY <1>t, <1>2, DropType DEF OpenWrite, ChanType
  <2> QED BY <2>1, <2>2, <2>3, <2>4, <2>5
<1>3. ASSUME NEW b \in Bridge, OpenUp(b) PROVE Types'
  <2>1. LinkType' /\ ConnType' /\ ReadType' /\ NodeType'
    BY <1>t, <1>3 DEF OpenUp, LinkType, ConnType, ReadType, NodeType
  <2>2. ProxyType'
    BY <1>t, <1>3 DEF OpenUp, ProxyType, OpenStates
  <2>3. ChanType'
    BY <1>t, <1>3 DEF OpenUp, ChanType
  <2> QED BY <2>1, <2>2, <2>3
<1>4. ASSUME NEW b \in Bridge, OpenDisconnected(b) PROVE Types'
  <2>1. LinkType' /\ ReadType' /\ NodeType'
    BY <1>t, <1>4 DEF OpenDisconnected, LinkType, ReadType, NodeType
  <2>2. ConnType'
    BY <1>t, <1>4, DropType DEF OpenDisconnected, ConnType
  <2>3. ProxyType'
    BY <1>t, <1>4 DEF OpenDisconnected, ProxyType, OpenStates
  <2>4. ChanType'
    BY <1>t, <1>4, DropType DEF OpenDisconnected, ChanType
  <2> QED BY <2>1, <2>2, <2>3, <2>4
<1>5. ASSUME NEW b \in Bridge, OpenCancelled(b) PROVE Types'
  <2>1. ConnType' /\ ReadType' /\ ChanType' /\ NodeType'
    BY <1>t, <1>5 DEF OpenCancelled, CloseWrites, ConnType, ReadType,
      ChanType, NodeType
  <2>2. LinkType'
    BY <1>t, <1>5, WriteType DEF OpenCancelled, CloseWrites, LinkType
  <2>3. ProxyType'
    BY <1>t, <1>5 DEF OpenCancelled, CloseWrites, ProxyType, OpenStates
  <2> QED BY <2>1, <2>2, <2>3
<1>6. ASSUME NEW b \in Bridge, OpenTimeout(b) PROVE Types'
  <2>1. ConnType' /\ ReadType' /\ ChanType' /\ NodeType'
    BY <1>t, <1>6 DEF OpenTimeout, CloseWrites, ConnType, ReadType, ChanType,
      NodeType
  <2>2. LinkType'
    BY <1>t, <1>6, WriteType DEF OpenTimeout, CloseWrites, LinkType
  <2>3. ProxyType'
    BY <1>t, <1>6 DEF OpenTimeout, CloseWrites, ProxyType, OpenStates
  <2> QED BY <2>1, <2>2, <2>3
<1>7. ASSUME NEW b \in Bridge, BridgeReturns(b) PROVE Types'
  <2>1. ConnType' /\ ReadType' /\ ChanType' /\ NodeType'
    BY <1>t, <1>7 DEF BridgeReturns, CloseWrites, ConnType, ReadType,
      ChanType, NodeType
  <2>2. LinkType'
    BY <1>t, <1>7, WriteType DEF BridgeReturns, CloseWrites, LinkType
  <2>3. ProxyType'
    BY <1>t, <1>7 DEF BridgeReturns, CloseWrites, ProxyType, OpenStates
  <2> QED BY <2>1, <2>2, <2>3
<1>8. ASSUME NEW b \in Bridge, SendFails(b) PROVE Types'
  <2>1. ConnType' /\ ReadType' /\ ChanType' /\ NodeType'
    BY <1>t, <1>8 DEF SendFails, CloseWrites, ConnType, ReadType, ChanType,
      NodeType
  <2>2. LinkType'
    BY <1>t, <1>8, WriteType DEF SendFails, CloseWrites, LinkType
  <2>3. ProxyType'
    BY <1>t, <1>8 DEF SendFails, CloseWrites, ProxyType, OpenStates
  <2> QED BY <2>1, <2>2, <2>3
<1>9. ASSUME NEW b \in Bridge, CloseDrops(b) PROVE Types'
  <2>1. LinkType' /\ ReadType' /\ NodeType'
    BY <1>t, <1>9 DEF CloseDrops, LinkType, ReadType, NodeType
  <2>2. ConnType'
    BY <1>t, <1>9, DropType DEF CloseDrops, ConnType
  <2>3. ProxyType'
    BY <1>t, <1>9 DEF CloseDrops, ProxyType, OpenStates
  <2>4. ChanType'
    BY <1>t, <1>9, DropType DEF CloseDrops, ChanType
  <2> QED BY <2>1, <2>2, <2>3, <2>4
<1>10. ASSUME NEW b \in Bridge, BrowserGone(b) PROVE Types'
  <2>1. LinkType' /\ ConnType' /\ ReadType' /\ ChanType' /\ NodeType'
    BY <1>t, <1>10 DEF BrowserGone, LinkType, ConnType, ReadType, ChanType,
      NodeType
  <2>2. ProxyType'
    BY <1>t, <1>10 DEF BrowserGone, ProxyType
  <2> QED BY <2>1, <2>2
<1>11. ASSUME NEW b \in Bridge, RelayCopies(b) PROVE Types'
  <2>1. LinkType' /\ ConnType' /\ ReadType' /\ NodeType'
    BY <1>t, <1>11 DEF RelayCopies, LinkType, ConnType, ReadType, NodeType
  <2>2. ProxyType'
    <3>1. messages[b] # <<>> /\ messages[b] \in Seq(1 .. MaxMsgs)
      BY <1>t, <1>11 DEF RelayCopies, ChanType
    <3>2. Head(messages[b]) \in 1 .. MaxMsgs
      BY <3>1, QueueTypes
    <3>3. Append(got[b], Head(messages[b])) \in Seq(1 .. MaxMsgs)
      BY <1>t, <3>2, QueueTypes DEF ProxyType
    <3> QED BY <1>t, <1>11, <3>3 DEF RelayCopies, ProxyType
  <2>3. ChanType'
    BY <1>t, <1>11, QueueTypes DEF RelayCopies, ChanType
  <2> QED BY <2>1, <2>2, <2>3
<1>12. ASSUME NEW b \in Bridge, RelayEnds(b) PROVE Types'
  <2>1. LinkType' /\ ConnType' /\ ReadType' /\ ChanType' /\ NodeType'
    BY <1>t, <1>12 DEF RelayEnds, LinkType, ConnType, ReadType, ChanType,
      NodeType
  <2>2. ProxyType'
    BY <1>t, <1>12 DEF RelayEnds, ProxyType
  <2> QED BY <2>1, <2>2
<1>13. CASE DispatchUp
  <2>1. ConnType' /\ ReadType' /\ ProxyType' /\ NodeType'
    BY <1>t, <1>13 DEF DispatchUp, ConnType, ReadType, ProxyType, NodeType
  <2>2. LinkType'
    BY <1>t, <1>13, TakeType DEF DispatchUp, LinkType, Incoming
  <2>3. ChanType'
    BY <1>t, <1>13 DEF DispatchUp, ChanType
  <2> QED BY <2>1, <2>2, <2>3
<1>14. CASE DispatchMsg
  <2>1. ConnType' /\ ProxyType' /\ ChanType' /\ NodeType'
    BY <1>t, <1>14 DEF DispatchMsg, ConnType, ProxyType, ChanType, NodeType
  <2>2. LinkType'
    BY <1>t, <1>14, TakeType DEF DispatchMsg, LinkType, Incoming
  <2>3. ReadType'
    BY <1>t, <1>14, TakeType, FrameTypes DEF DispatchMsg, ReadType, Incoming
  <2> QED BY <2>1, <2>2, <2>3
<1>15. CASE SendMsg
  <2>1. LinkType' /\ ConnType' /\ ProxyType' /\ NodeType'
    BY <1>t, <1>15 DEF SendMsg, LinkType, ConnType, ProxyType, NodeType
  <2>2. ReadType'
    BY <1>t, <1>15 DEF SendMsg, ReadType
  <2>3. ChanType'
    BY <1>t, <1>15, QueueTypes DEF SendMsg, ChanType, ReadType
  <2> QED BY <2>1, <2>2, <2>3
<1>16. CASE SendPanics
  <2>1. LinkType' /\ ConnType' /\ ProxyType' /\ ChanType' /\ NodeType'
    BY <1>t, <1>16 DEF SendPanics, LinkType, ConnType, ProxyType, ChanType,
      NodeType
  <2>2. ReadType'
    BY <1>t, <1>16 DEF SendPanics, ReadType
  <2> QED BY <2>1, <2>2
<1>17. CASE DispatchClose
  <2>1. ReadType' /\ ProxyType' /\ NodeType'
    BY <1>t, <1>17 DEF DispatchClose, ReadType, ProxyType, NodeType
  <2>2. LinkType'
    BY <1>t, <1>17, TakeType DEF DispatchClose, LinkType, Incoming
  <2>3. ConnType'
    BY <1>t, <1>17, TakeType, DropType DEF DispatchClose, ConnType, Incoming
  <2>4. ChanType'
    BY <1>t, <1>17, TakeType, DropType DEF DispatchClose, ChanType, Incoming
  <2> QED BY <2>1, <2>2, <2>3, <2>4
<1>18. CASE DispatchErr
  <2>1. ConnType' /\ ReadType' /\ ProxyType' /\ ChanType' /\ NodeType'
    BY <1>t, <1>18 DEF DispatchErr, ConnType, ReadType, ProxyType, ChanType,
      NodeType
  <2>2. LinkType'
    BY <1>t, <1>18, TakeType DEF DispatchErr, LinkType, Incoming
  <2> QED BY <2>1, <2>2
<1>19. CASE ReadError
  <2>1. LinkType' /\ ConnType' /\ ProxyType' /\ ChanType' /\ NodeType'
    BY <1>t, <1>19 DEF ReadError, LinkType, ConnType, ProxyType, ChanType,
      NodeType
  <2>2. ReadType'
    BY <1>t, <1>19 DEF ReadError, ReadType
  <2> QED BY <2>1, <2>2
<1>20. CASE ShutdownDrain
  <2>1. LinkType' /\ ProxyType' /\ ChanType' /\ NodeType'
    BY <1>t, <1>20 DEF ShutdownDrain, LinkType, ProxyType, ChanType, NodeType
  <2>2. ConnType'
    BY <1>t, <1>20 DEF ShutdownDrain, ConnType, LinkType
  <2>3. ReadType'
    BY <1>t, <1>20 DEF ShutdownDrain, ReadType
  <2> QED BY <2>1, <2>2, <2>3
<1>21. ASSUME NEW b \in Bridge, ShutdownClose(b) PROVE Types'
  <2>1. LinkType' /\ ReadType' /\ ProxyType' /\ NodeType'
    BY <1>t, <1>21 DEF ShutdownClose, LinkType, ReadType, ProxyType, NodeType
  <2>2. ConnType'
    BY <1>t, <1>21 DEF ShutdownClose, ConnType
  <2>3. ChanType'
    BY <1>t, <1>21 DEF ShutdownClose, ChanType
  <2> QED BY <2>1, <2>2, <2>3
<1>22. CASE ShutdownDone
  <2>1. LinkType' /\ ProxyType' /\ ChanType' /\ NodeType'
    BY <1>t, <1>22 DEF ShutdownDone, LinkType, ProxyType, ChanType, NodeType
  <2>2. ConnType'
    BY <1>t, <1>22 DEF ShutdownDone, ConnType, ReadType
  <2>3. ReadType'
    BY <1>t, <1>22 DEF ShutdownDone, ReadType
  <2> QED BY <2>1, <2>2, <2>3
<1>23. CASE NodeOpen
  <2>1. ConnType' /\ ReadType' /\ ProxyType' /\ ChanType'
    BY <1>t, <1>23 DEF NodeOpen, ConnType, ReadType, ProxyType, ChanType
  <2>2. LinkType'
    <3>1. toNode # <<>> /\ toNode' = Tail(toNode) /\ UNCHANGED <<conn, link>>
      BY <1>23 DEF NodeOpen, FromCP
    <3>2. toCP' = toCP \/ NodeSend(frame("err", Here(Head(toNode).id).id, 0))
      BY <1>23 DEF NodeOpen
    <3>3. toCP' \in Seq(NodeFrame)
      BY <1>t, <3>1, <3>2, NodeTakeType, SendType, FrameTypes DEF LinkType
    <3> QED BY <1>t, <3>1, <3>3, NodeTakeType DEF LinkType
  <2>3. NodeType'
    BY ZenonT(40), <1>t, <1>23, NodeTakeType DEF NodeOpen, NodeType, FromCP, SockStates
  <2> QED BY <2>1, <2>2, <2>3
<1>24. ASSUME NEW b \in Bridge, NodeUp(b) PROVE Types'
  <2>1. ConnType' /\ ReadType' /\ ProxyType' /\ ChanType'
    BY <1>t, <1>24 DEF NodeUp, ConnType, ReadType, ProxyType, ChanType
  <2>2. LinkType'
    BY <1>t, <1>24, SendType, FrameTypes, BridgeTypes DEF NodeUp, LinkType
  <2>3. NodeType'
    BY <1>t, <1>24 DEF NodeUp, NodeType, SockStates
  <2> QED BY <2>1, <2>2, <2>3
<1>25. ASSUME NEW b \in Bridge, NodeMsg(b) PROVE Types'
  <2>1. ConnType' /\ ReadType' /\ ProxyType' /\ ChanType'
    BY <1>t, <1>25 DEF NodeMsg, ConnType, ReadType, ProxyType, ChanType
  <2>2. LinkType'
    <3>1. sent[b] + 1 \in 1 .. MaxMsgs
      BY <1>t, <1>25, Bounds DEF NodeMsg, NodeType
    <3>2. frame("msg", b.id, sent[b] + 1) \in NodeFrame
      BY <3>1, BridgeTypes, FrameTypes
    <3> QED BY <1>t, <1>25, <3>2, SendType DEF NodeMsg, LinkType
  <2>3. NodeType'
    BY <1>t, <1>25, Bounds DEF NodeMsg, NodeType
  <2> QED BY <2>1, <2>2, <2>3
<1>26. ASSUME NEW b \in Bridge, NodeClosed(b) PROVE Types'
  <2>1. ConnType' /\ ReadType' /\ ProxyType' /\ ChanType'
    BY <1>t, <1>26 DEF NodeClosed, ConnType, ReadType, ProxyType, ChanType
  <2>2. LinkType'
    BY <1>t, <1>26, SendType, FrameTypes, BridgeTypes DEF NodeClosed, LinkType
  <2>3. NodeType'
    BY <1>t, <1>26, BridgeTypes DEF NodeClosed, NodeType, SockStates
  <2> QED BY <2>1, <2>2, <2>3
<1>27. CASE NodeClose
  <2>1. ConnType' /\ ReadType' /\ ProxyType' /\ ChanType'
    BY <1>t, <1>27 DEF NodeClose, ConnType, ReadType, ProxyType, ChanType
  <2>2. LinkType'
    BY <1>t, <1>27, QueueTypes DEF NodeClose, LinkType, FromCP
  <2>3. NodeType'
    BY <1>t, <1>27, ClosingType DEF NodeClose, NodeType
  <2> QED BY <2>1, <2>2, <2>3
<1>28. CASE LinkDrops
  <2>1. ConnType' /\ ReadType' /\ ProxyType' /\ ChanType'
    BY <1>t, <1>28 DEF LinkDrops, ConnType, ReadType, ProxyType, ChanType
  <2>2. LinkType'
    BY <1>t, <1>28, QueueTypes DEF LinkDrops, LinkType
  <2>3. NodeType'
    BY <1>t, <1>28, ClosingType DEF LinkDrops, NodeType
  <2> QED BY <2>1, <2>2, <2>3
<1>29. CASE Reconnect
  <2>1. ProxyType' /\ ChanType' /\ NodeType'
    BY <1>t, <1>29 DEF Reconnect, ProxyType, ChanType, NodeType
  <2>2. LinkType'
    BY <1>t, <1>29, QueueTypes, Bounds DEF Reconnect, LinkType
  <2>3. ConnType'
    BY <1>t, <1>29, Bounds DEF Reconnect, ConnType
  <2>4. ReadType'
    BY <1>t, <1>29 DEF Reconnect, ReadType
  <2> QED BY <2>1, <2>2, <2>3, <2>4
<1>30. CASE UNCHANGED vars
  BY <1>t, <1>30 DEF vars, LinkType, ConnType, ReadType, ProxyType, ChanType,
    NodeType
<1> QED BY <1>1, <1>2, <1>3, <1>4, <1>5, <1>6, <1>7, <1>8, <1>9, <1>10, <1>11,
     <1>12, <1>13, <1>14, <1>15, <1>16, <1>17, <1>18, <1>19, <1>20, <1>21,
     <1>22, <1>23, <1>24, <1>25, <1>26, <1>27, <1>28, <1>29, <1>30 DEF Next,
     Opener, Relay, Reader, Socket

-----------------------------------------------------------------------------
(* The flags, the map of bridges and who closes Messages.                  *)

\* Where a step may put the read loop, and what it may do to the queue toward
\* the node: take from it, or add a frame about a bridge that was registered.
LEMMA OpenKept ==
  ASSUME TypeInv, LifeInv, nextID' = nextID, link' = link,
         \/ toNode' = toNode
         \/ toNode # <<>> /\ toNode' = Tail(toNode)
         \/ /\ link = "up"
            /\ \E f \in Frame : /\ toNode' = Append(toNode, f)
                                /\ f.t = "open" => f.id <= nextID
  PROVE  /\ link' = "down" => toNode' = <<>>
         /\ \A i \in 1 .. Len(toNode') : toNode'[i].t = "open"
                                         => toNode'[i].id <= nextID'
<1> USE DEF LifeInv
<1>1. toNode \in Seq(Frame)
  BY DEF TypeInv, LinkType
<1>2. CASE toNode' = toNode
  BY <1>2
<1>3. CASE toNode # <<>> /\ toNode' = Tail(toNode)
  <2>1. \A i \in 1 .. Len(toNode') : /\ i + 1 \in 1 .. Len(toNode)
                                     /\ toNode'[i] = toNode[i + 1]
    BY <1>1, <1>3
  <2> QED BY <1>3, <2>1
<1>4. ASSUME NEW f \in Frame, link = "up", toNode' = Append(toNode, f),
             f.t = "open" => f.id <= nextID
      PROVE  /\ link' = "down" => toNode' = <<>>
             /\ \A i \in 1 .. Len(toNode') : toNode'[i].t = "open"
                                             => toNode'[i].id <= nextID'
  <2>1. \A i \in 1 .. Len(toNode') : \/ toNode'[i] = f
                                     \/ /\ i \in 1 .. Len(toNode)
                                        /\ toNode'[i] = toNode[i]
    BY <1>1, <1>4
  <2> QED BY <1>4, <2>1
<1> QED BY <1>2, <1>3, <1>4

\* A write about a bridge that was registered is one of those.
LEMMA WriteKept ==
  ASSUME TypeInv, FreshInv, NEW b \in Bridge, open[b] # "idle",
         NEW t \in {"open", "close"}, Write(b, t)
  PROVE  \/ toNode' = toNode
         \/ /\ link = "up"
            /\ \E f \in Frame : /\ toNode' = Append(toNode, f)
                                /\ f.t = "open" => f.id <= nextID
<1>1. CASE ~Connected(b)
  BY <1>1 DEF Write
<1>2. CASE Connected(b)
  <2> DEFINE f == frame(t, b.id, 0)
  <2>1. toNode' = Append(toNode, f) /\ link = "up" /\ b.conn = conn
    BY <1>2 DEF Write, Connected
  <2>2. f \in Frame /\ f.id = b.id
    BY FrameTypes, FrameFields, BridgeTypes
  <2>3. b.id <= nextID
    <3>1. ~Fresh(b)
      BY DEF FreshInv, Untouched
    <3>2. b.id \in Nat /\ nextID \in Nat
      BY BridgeTypes, Bounds DEF TypeInv, ConnType
    <3> QED BY <2>1, <3>1, <3>2 DEF Fresh
  <2> HIDE DEF f
  <2> QED BY <2>1, <2>2, <2>3
<1> QED BY <1>1, <1>2

\* Init establishes the invariants of this section.
LEMMA ConnInit ==
  Init => LifeInv /\ NoOrphanBridge /\ FreshInv /\ CloseInv /\ RelayInv /\ SockInv
<1> SUFFICES ASSUME Init
             PROVE  /\ LifeInv /\ NoOrphanBridge /\ FreshInv /\ CloseInv
                    /\ RelayInv /\ SockInv
  OBVIOUS
<1>1. LifeInv /\ NoOrphanBridge
  BY DEF Init, LifeInv, NoOrphanBridge
<1>2. FreshInv /\ RelayInv /\ SockInv
  BY BridgeTypes DEF Init, FreshInv, Untouched, RelayInv, SockInv
<1>3. CloseInv
  BY DEF Init, CloseInv, ClosedOnce
<1> QED BY <1>1, <1>2, <1>3

\* Every action preserves LifeInv and NoOrphanBridge.
LEMMA LifeStep ==
  TypeInv /\ LifeInv /\ NoOrphanBridge /\ FreshInv /\ [Next]_vars
  => LifeInv' /\ NoOrphanBridge'
<1> SUFFICES ASSUME TypeInv, LifeInv, NoOrphanBridge, FreshInv, [Next]_vars
             PROVE  LifeInv' /\ NoOrphanBridge'
  OBVIOUS
<1> USE DEF linkVars, connVars, readVars, proxyVars, chanVars, nodeVars
<1>q. ASSUME UNCHANGED <<conn, link, nextID, closed>>,
             reader' \in {"closing", "returned"} <=> reader \in {"closing", "returned"},
             bridges' \subseteq bridges,
             \/ toNode' = toNode
             \/ toNode # <<>> /\ toNode' = Tail(toNode)
             \/ /\ link = "up"
                /\ \E f \in Frame : /\ toNode' = Append(toNode, f)
                                    /\ f.t = "open" => f.id <= nextID
      PROVE  LifeInv' /\ NoOrphanBridge'
  <2>1. /\ link' = "down" => toNode' = <<>>
        /\ \A i \in 1 .. Len(toNode') : toNode'[i].t = "open"
                                        => toNode'[i].id <= nextID'
    BY <1>q, OpenKept
  <2> QED BY <1>q, <2>1 DEF LifeInv, NoOrphanBridge
<1>1. CASE OpenRegister
  <2> DEFINE b == Here(nextID + 1)
  <2>1. /\ conn \notin closed /\ nextID' = nextID + 1 /\ nextID + 1 \in Id
        /\ bridges' = bridges \cup {b}
        /\ UNCHANGED <<conn, link, toNode, closed, reader>>
    BY <1>1, Bounds DEF OpenRegister, Admits, TypeInv, ConnType, Id
  <2>2. b.conn = conn
    BY DEF Here
  <2>3. toNode \in Seq(Frame) /\ nextID \in Nat
    BY Bounds DEF TypeInv, LinkType, ConnType
  <2>4. \A i \in 1 .. Len(toNode) : toNode[i].id \in Nat
    BY <2>3, FrameTypes, Bounds DEF Id
  <2>5. \A i \in 1 .. Len(toNode) : toNode[i].t = "open"
                                    => toNode[i].id <= nextID + 1
    BY <2>3, <2>4 DEF LifeInv
  <2> HIDE DEF b
  <2>6. LifeInv'
    BY <2>1, <2>5 DEF LifeInv
  <2>7. NoOrphanBridge'
    BY <2>1, <2>2 DEF NoOrphanBridge
  <2> QED BY <2>6, <2>7
<1>2. ASSUME NEW b \in Bridge,
             OpenWrite(b) \/ OpenCancelled(b) \/ OpenTimeout(b)
               \/ BridgeReturns(b) \/ SendFails(b)
      PROVE  LifeInv' /\ NoOrphanBridge'
  <2>1. /\ open[b] # "idle" /\ bridges' \subseteq bridges
        /\ UNCHANGED <<conn, link, nextID, closed, reader>>
    BY <1>2 DEF OpenWrite, DropBridge, OpenCancelled, OpenTimeout,
      BridgeReturns, SendFails, CloseWrites
  <2>2. \E t \in {"open", "close"} : Write(b, t)
    BY <1>2 DEF OpenWrite, OpenCancelled, OpenTimeout, BridgeReturns, SendFails,
      CloseWrites
  <2> QED BY <1>q, <2>1, <2>2, WriteKept
<1>3. ASSUME NEW b \in Bridge,
             OpenUp(b) \/ OpenDisconnected(b) \/ CloseDrops(b) \/ BrowserGone(b)
               \/ RelayCopies(b) \/ RelayEnds(b) \/ ShutdownClose(b)
               \/ NodeUp(b) \/ NodeMsg(b) \/ NodeClosed(b)
      PROVE  LifeInv' /\ NoOrphanBridge'
  <2>1. /\ UNCHANGED <<conn, link, nextID, closed, reader, toNode>>
        /\ bridges' \subseteq bridges
    BY <1>3 DEF OpenUp, OpenDisconnected, DropBridge, CloseDrops, BrowserGone,
      RelayCopies, RelayEnds, ShutdownClose, NodeUp, NodeMsg, NodeClosed
  <2> QED BY <1>q, <2>1
<1>4. CASE DispatchUp \/ DispatchMsg \/ SendMsg \/ SendPanics \/ DispatchClose
             \/ DispatchErr \/ ReadError
  <2>1. /\ UNCHANGED <<conn, link, nextID, closed, toNode>>
        /\ reader \notin {"closing", "returned"}
        /\ reader' \notin {"closing", "returned"}
        /\ bridges' \subseteq bridges
    BY <1>4 DEF DispatchUp, DispatchMsg, SendMsg, SendPanics, DispatchClose,
      DropBridge, DispatchErr, ReadError, Incoming
  <2> QED BY <1>q, <2>1
<1>5. CASE ShutdownDrain
  <2>1. /\ closed' = closed \cup {conn} /\ bridges' = {} /\ reader' = "closing"
        /\ UNCHANGED <<conn, link, toNode, nextID>>
    BY <1>5 DEF ShutdownDrain
  <2>2. conn \in 1 .. conn
    BY Bounds DEF TypeInv, LinkType
  <2> QED BY <2>1, <2>2 DEF LifeInv, NoOrphanBridge
<1>6. CASE ShutdownDone
  <2>1. /\ UNCHANGED <<conn, link, nextID, closed, toNode, bridges>>
        /\ reader = "closing" /\ reader' = "returned"
    BY <1>6 DEF ShutdownDone
  <2> QED BY <1>q, <2>1
<1>7. CASE NodeOpen \/ NodeClose
  <2>1. /\ UNCHANGED <<conn, link, nextID, closed, reader, bridges>>
        /\ toNode # <<>> /\ toNode' = Tail(toNode)
    BY <1>7 DEF NodeOpen, NodeClose, FromCP
  <2> QED BY <1>q, <2>1
<1>8. CASE LinkDrops
  <2>1. /\ toNode' = <<>> /\ UNCHANGED <<conn, nextID, closed, reader, bridges>>
    BY <1>8 DEF LinkDrops
  <2> QED BY <2>1 DEF LifeInv, NoOrphanBridge
<1>9. CASE Reconnect
  <2>1. /\ link = "down" /\ reader = "returned" /\ conn' = conn + 1
        /\ link' = "up" /\ nextID' = 0 /\ reader' = "read"
        /\ UNCHANGED <<toNode, bridges, closed>>
    BY <1>9 DEF Reconnect
  <2>2. conn \in Nat /\ toNode = <<>>
    BY <2>1, Bounds DEF TypeInv, LinkType, LifeInv
  <2>3. conn + 1 \notin closed /\ closed \subseteq 1 .. conn + 1
    BY <2>2 DEF LifeInv
  <2>4. bridges = {}
    BY <2>1 DEF LifeInv, NoOrphanBridge
  <2> QED BY <2>1, <2>2, <2>3, <2>4 DEF LifeInv, NoOrphanBridge
<1>10. CASE UNCHANGED vars
  BY <1>10 DEF vars, LifeInv, NoOrphanBridge
<1> QED BY <1>1, <1>2, <1>3, <1>4, <1>5, <1>6, <1>7, <1>8, <1>9, <1>10
     DEF Next, Opener, Relay, Reader, Socket

\* Every action preserves CloseInv.
LEMMA CloseStep ==
  TypeInv /\ LifeInv /\ FreshInv /\ CloseInv /\ [Next]_vars => CloseInv'
<1> SUFFICES ASSUME TypeInv, LifeInv, FreshInv, CloseInv, [Next]_vars
             PROVE  CloseInv'
  OBVIOUS
<1> USE DEF linkVars, connVars, readVars, proxyVars, chanVars, nodeVars
<1>t. closes \in [Bridge -> Nat] /\ bridges \subseteq Bridge /\ live \subseteq Bridge
  BY DEF TypeInv, ChanType, ConnType
<1>0. ASSUME UNCHANGED <<bridges, live, closes>> PROVE CloseInv'
  BY <1>0 DEF CloseInv, ClosedOnce
<1>d. ASSUME NEW b \in Bridge, DropBridge(b), UNCHANGED live PROVE CloseInv'
  BY <1>d, <1>t DEF DropBridge, CloseInv, ClosedOnce
<1>1. CASE OpenRegister
  <2>1. /\ bridges' = bridges \cup {Here(nextID + 1)} /\ UNCHANGED <<live, closes>>
        /\ nextID + 1 \in Id
    BY <1>1, Bounds DEF OpenRegister, TypeInv, ConnType, Id
  <2>2. Here(nextID + 1) \in Bridge /\ Fresh(Here(nextID + 1))
    BY <2>1, BridgeTypes, Bounds DEF TypeInv, LinkType, ConnType, Fresh
  <2> QED BY <2>1, <2>2 DEF FreshInv, Untouched, CloseInv, ClosedOnce
<1>2. ASSUME NEW b \in Bridge, OpenWrite(b) \/ OpenDisconnected(b) \/ CloseDrops(b)
      PROVE  CloseInv'
  <2>1. UNCHANGED live /\ (UNCHANGED <<bridges, closes>> \/ DropBridge(b))
    BY <1>2 DEF OpenWrite, OpenDisconnected, CloseDrops
  <2> QED BY <1>0, <1>d, <2>1
<1>3. ASSUME NEW b \in Bridge,
             OpenCancelled(b) \/ OpenTimeout(b) \/ BridgeReturns(b)
               \/ SendFails(b) \/ OpenUp(b) \/ BrowserGone(b) \/ RelayCopies(b)
               \/ RelayEnds(b) \/ NodeUp(b) \/ NodeMsg(b) \/ NodeClosed(b)
      PROVE  CloseInv'
  BY <1>0, <1>3 DEF OpenCancelled, OpenTimeout, BridgeReturns, SendFails,
    CloseWrites, OpenUp, BrowserGone, RelayCopies, RelayEnds, NodeUp, NodeMsg,
    NodeClosed
<1>4. CASE DispatchClose
  <2>1. From \in Bridge
    BY <1>4, TakeType DEF DispatchClose, Incoming, TypeInv
  <2> QED BY <1>4, <1>d, <2>1 DEF DispatchClose
<1>5. CASE ShutdownDrain
  BY <1>5 DEF ShutdownDrain, CloseInv, ClosedOnce
<1>6. ASSUME NEW b \in Bridge, ShutdownClose(b) PROVE CloseInv'
  BY <1>6, <1>t DEF ShutdownClose, CloseInv, ClosedOnce
<1>7. CASE DispatchUp \/ DispatchMsg \/ SendMsg \/ SendPanics \/ DispatchErr
             \/ ReadError \/ ShutdownDone \/ NodeOpen \/ NodeClose \/ LinkDrops
             \/ Reconnect
  BY <1>0, <1>7 DEF DispatchUp, DispatchMsg, SendMsg, SendPanics, DispatchErr,
    ReadError, ShutdownDone, NodeOpen, NodeClose, LinkDrops, Reconnect
<1>8. CASE UNCHANGED vars
  BY <1>0, <1>8 DEF vars
<1> QED BY <1>1, <1>2, <1>3, <1>4, <1>5, <1>6, <1>7, <1>8
     DEF Next, Opener, Relay, Reader, Socket

\* Every action preserves RelayInv.
LEMMA RelayStep == TypeInv /\ FreshInv /\ RelayInv /\ [Next]_vars => RelayInv'
<1> SUFFICES ASSUME TypeInv, FreshInv, RelayInv, [Next]_vars PROVE RelayInv'
  OBVIOUS
<1> USE DEF linkVars, connVars, readVars, proxyVars, chanVars, nodeVars
<1>t. /\ open \in [Bridge -> OpenStates]
      /\ relay \in [Bridge -> {"none", "running", "exited"}]
  BY DEF TypeInv, ProxyType
<1>0. ASSUME UNCHANGED <<open, relay>> PROVE RelayInv'
  BY <1>0 DEF RelayInv
<1>1. CASE OpenRegister
  <2> DEFINE b == Here(nextID + 1)
  <2>1. /\ open' = [open EXCEPT ![b] = "write"] /\ UNCHANGED relay
        /\ nextID + 1 \in Id
    BY <1>1, Bounds DEF OpenRegister, TypeInv, ConnType, Id
  <2>2. b \in Bridge /\ Fresh(b)
    BY <2>1, BridgeTypes, Bounds DEF TypeInv, LinkType, ConnType, Fresh
  <2>3. relay[b] = "none"
    BY <2>2 DEF FreshInv, Untouched
  <2> HIDE DEF b
  <2> QED BY <1>t, <2>1, <2>2, <2>3 DEF RelayInv
<1>2. ASSUME NEW b \in Bridge,
             OpenWrite(b) \/ OpenDisconnected(b) \/ CloseDrops(b)
               \/ OpenCancelled(b) \/ OpenTimeout(b) \/ BridgeReturns(b)
               \/ SendFails(b)
      PROVE  RelayInv'
  <2>1. /\ UNCHANGED relay
        /\ \/ open[b] = "write" /\ open' = [open EXCEPT ![b] = "select"]
           \/ \E s \in {"failed", "closed", "dropping"} :
                open' = [open EXCEPT ![b] = s]
    BY <1>2 DEF OpenWrite, OpenDisconnected, CloseDrops, OpenCancelled,
      OpenTimeout, BridgeReturns, SendFails, CloseWrites
  <2> QED BY <1>t, <2>1 DEF RelayInv
<1>3. ASSUME NEW b \in Bridge, OpenUp(b) PROVE RelayInv'
  BY <1>t, <1>3 DEF OpenUp, RelayInv
<1>4. ASSUME NEW b \in Bridge, RelayCopies(b) \/ RelayEnds(b) PROVE RelayInv'
  <2>1. /\ UNCHANGED open /\ relay[b] = "running"
        /\ relay' = relay \/ relay' = [relay EXCEPT ![b] = "exited"]
    BY <1>4 DEF RelayCopies, RelayEnds
  <2> QED BY <1>t, <2>1 DEF RelayInv
<1>5. ASSUME NEW b \in Bridge,
             BrowserGone(b) \/ ShutdownClose(b) \/ NodeUp(b) \/ NodeMsg(b)
               \/ NodeClosed(b)
      PROVE  RelayInv'
  BY <1>0, <1>5 DEF BrowserGone, ShutdownClose, NodeUp, NodeMsg, NodeClosed
<1>6. CASE DispatchUp \/ DispatchMsg \/ SendMsg \/ SendPanics \/ DispatchClose
             \/ DispatchErr \/ ReadError \/ ShutdownDrain \/ ShutdownDone
             \/ NodeOpen \/ NodeClose \/ LinkDrops \/ Reconnect
  BY <1>0, <1>6 DEF DispatchUp, DispatchMsg, SendMsg, SendPanics, DispatchClose,
    DispatchErr, ReadError, ShutdownDrain, ShutdownDone, NodeOpen, NodeClose,
    LinkDrops, Reconnect
<1>7. CASE UNCHANGED vars
  BY <1>0, <1>7 DEF vars
<1> QED BY <1>1, <1>2, <1>3, <1>4, <1>5, <1>6, <1>7
     DEF Next, Opener, Relay, Reader, Socket

\* Every action preserves SockInv.
LEMMA SockStep == TypeInv /\ SockInv /\ [Next]_vars => SockInv'
<1> SUFFICES ASSUME TypeInv, SockInv, [Next]_vars PROVE SockInv'
  OBVIOUS
<1> USE DEF linkVars, connVars, readVars, proxyVars, chanVars, nodeVars
<1>t. sock \in [Bridge -> SockStates] /\ conn \in 1 .. MaxConns
  BY DEF TypeInv, NodeType, LinkType
<1>0. ASSUME UNCHANGED <<sock, strays, link, conn>> PROVE SockInv'
  BY <1>0 DEF SockInv
<1>1. CASE NodeOpen
  <2> DEFINE b == Here(Head(toNode).id)
  <2>1. link = "up" /\ UNCHANGED <<strays, link, conn>> /\ toNode # <<>>
    BY <1>1 DEF NodeOpen, FromCP
  <2>2. sock' = sock \/ sock' = [sock EXCEPT ![b] = "connecting"]
    BY <1>1 DEF NodeOpen
  <2>3. b.conn = conn
    BY DEF Here
  <2> HIDE DEF b
  <2>4. \A s \in Bridge : sock'[s] = sock[s] \/ s = b
    BY <1>t, <2>2
  <2> QED BY <2>1, <2>3, <2>4 DEF SockInv
<1>2. ASSUME NEW b \in Bridge, NodeUp(b) \/ NodeClosed(b) PROVE SockInv'
  <2>1. /\ UNCHANGED <<strays, link, conn>>
        /\ \/ sock[b] = "connecting" /\ sock' = [sock EXCEPT ![b] = "open"]
           \/ sock' = [sock EXCEPT ![b] = "closed"]
    BY <1>2 DEF NodeUp, NodeClosed
  <2> QED BY <1>t, <2>1 DEF SockInv
<1>3. CASE NodeClose
  <2>1. UNCHANGED <<strays, link, conn>> /\ sock' = Closing({at[Head(toNode).id]})
    BY <1>3 DEF NodeClose
  <2> QED BY <2>1 DEF SockInv, Closing
<1>4. CASE LinkDrops
  <2>1. /\ sock' = Closing({at[i] : i \in Id})
        /\ strays' = strays \cup {b \in Bridge : /\ sock[b] \in {"connecting", "open"}
                                                 /\ b \notin {at[i] : i \in Id}}
    BY <1>4 DEF LinkDrops
  <2> QED BY <2>1 DEF SockInv, Closing
<1>5. CASE Reconnect
  <2>1. link = "down" /\ UNCHANGED <<sock, strays>>
    BY <1>5 DEF Reconnect
  <2> QED BY <2>1 DEF SockInv
<1>6. ASSUME NEW b \in Bridge,
             OpenWrite(b) \/ OpenUp(b) \/ OpenDisconnected(b) \/ OpenCancelled(b)
               \/ OpenTimeout(b) \/ BridgeReturns(b) \/ SendFails(b)
               \/ CloseDrops(b) \/ BrowserGone(b) \/ RelayCopies(b)
               \/ RelayEnds(b) \/ ShutdownClose(b) \/ NodeMsg(b)
      PROVE  SockInv'
  BY <1>0, <1>6 DEF OpenWrite, OpenUp, OpenDisconnected, OpenCancelled,
    OpenTimeout, BridgeReturns, SendFails, CloseWrites, CloseDrops, BrowserGone,
    RelayCopies, RelayEnds, ShutdownClose, NodeMsg
<1>7. CASE OpenRegister \/ DispatchUp \/ DispatchMsg \/ SendMsg \/ SendPanics
             \/ DispatchClose \/ DispatchErr \/ ReadError \/ ShutdownDrain
             \/ ShutdownDone
  BY <1>0, <1>7 DEF OpenRegister, DispatchUp, DispatchMsg, SendMsg, SendPanics,
    DispatchClose, DispatchErr, ReadError, ShutdownDrain, ShutdownDone
<1>8. CASE UNCHANGED vars
  BY <1>0, <1>8 DEF vars
<1> QED BY <1>1, <1>2, <1>3, <1>4, <1>5, <1>6, <1>7, <1>8
     DEF Next, Opener, Relay, Reader, Socket

\* The connection and its ids only move on.
LEMMA Onward ==
  [Next]_vars => \/ UNCHANGED <<conn, nextID>>
                 \/ conn' = conn /\ nextID' = nextID + 1
                 \/ conn' = conn + 1
<1> USE DEF linkVars, connVars, readVars, proxyVars, chanVars, nodeVars
<1> SUFFICES ASSUME Next, ~UNCHANGED <<conn, nextID>>
             PROVE  (conn' = conn /\ nextID' = nextID + 1) \/ conn' = conn + 1
  BY DEF vars
<1>1. ASSUME NEW b \in Bridge, Opener(b) \/ SendFails(b) \/ BrowserGone(b) \/ Relay(b)
                               \/ Socket(b)
      PROVE  UNCHANGED <<conn, nextID>>
  BY <1>1 DEF Opener, OpenWrite, OpenUp, OpenDisconnected, OpenCancelled,
    OpenTimeout, BridgeReturns, CloseDrops, CloseWrites, SendFails, BrowserGone,
    Relay, RelayCopies, RelayEnds, Socket, NodeUp, NodeMsg, NodeClosed
<1>2. CASE Reader \/ NodeOpen \/ NodeClose \/ LinkDrops
  BY <1>2 DEF Reader, DispatchUp, DispatchMsg, SendMsg, SendPanics, DispatchClose,
    DispatchErr, ReadError, ShutdownDrain, ShutdownClose, ShutdownDone,
    NodeOpen, NodeClose, LinkDrops
<1>3. CASE OpenRegister \/ Reconnect
  BY <1>3 DEF OpenRegister, Reconnect
<1> QED BY <1>1, <1>2, <1>3 DEF Next

\* So a fresh bridge was fresh before.
LEMMA FreshBefore ==
  ASSUME TypeInv, [Next]_vars, NEW e \in Bridge, Fresh(e)'
  PROVE  Fresh(e)
<1>1. /\ conn \in Int /\ nextID \in Int /\ conn' \in Int /\ nextID' \in Int
      /\ nextID >= 0 /\ nextID' >= 0
  BY Bounds, TypeStep DEF TypeInv, LinkType, ConnType
<1>2. e.conn \in Int /\ e.id \in Int
  BY BridgeTypes
<1> QED BY <1>1, <1>2, Onward DEF Fresh

\* Every action preserves FreshInv.
LEMMA FreshStep ==
  TypeInv /\ LifeInv /\ NoOrphanBridge /\ FreshInv /\ [Next]_vars => FreshInv'
<1> SUFFICES ASSUME TypeInv, LifeInv, NoOrphanBridge, FreshInv, [Next]_vars,
                    NEW e \in Bridge, Fresh(e)'
             PROVE  Untouched(e)'
  BY DEF FreshInv
<1>f. Fresh(e) /\ Untouched(e)
  BY FreshBefore DEF FreshInv
<1> USE <1>f DEF linkVars, connVars, readVars, proxyVars, chanVars, nodeVars
<1>t. /\ open \in [Bridge -> OpenStates] /\ closes \in [Bridge -> Nat]
      /\ relay \in [Bridge -> {"none", "running", "exited"}]
      /\ got \in [Bridge -> Seq(1 .. MaxMsgs)]
      /\ messages \in [Bridge -> Seq(1 .. MaxMsgs)]
      /\ sock \in [Bridge -> SockStates] /\ sent \in [Bridge -> 0 .. MaxMsgs]
      /\ at \in [Id -> Bridge \cup {None}]
  BY DEF TypeInv, ProxyType, ChanType, NodeType
<1>d. ASSUME NEW b \in Bridge, DropBridge(b), b # e
      PROVE  closes'[e] = closes[e] /\ e \notin bridges'
  BY <1>d, <1>t DEF DropBridge, Untouched
<1>1. CASE OpenRegister
  <2> DEFINE b == Here(nextID + 1)
  <2>1. /\ open' = [open EXCEPT ![b] = "write"] /\ bridges' = bridges \cup {b}
        /\ UNCHANGED <<at, relay, got, messages, sock, sent, closes, live, reader, hand>>
        /\ UNCHANGED conn /\ nextID' = nextID + 1
    BY <1>1 DEF OpenRegister
  <2>2. b # e
    <3>1. b.conn = conn /\ b.id = nextID + 1
      BY DEF Here
    <3>2. nextID \in Int /\ conn \in Int
      BY Bounds DEF TypeInv, LinkType, ConnType
    <3>3. ~(b.conn > conn') /\ ~(b.id > nextID')
      BY <2>1, <3>1, <3>2
    <3> QED BY <3>3 DEF Fresh
  <2> HIDE DEF b
  <2>3. open'[e] = open[e] /\ e \notin bridges'
    BY <1>t, <2>1, <2>2 DEF Untouched
  <2> QED BY <2>1, <2>3 DEF Untouched
<1>2. ASSUME NEW b \in Bridge,
             OpenWrite(b) \/ OpenDisconnected(b) \/ CloseDrops(b)
               \/ OpenCancelled(b) \/ OpenTimeout(b) \/ BridgeReturns(b)
               \/ SendFails(b)
      PROVE  Untouched(e)'
  <2>1. /\ open[b] # "idle" /\ \E s \in OpenStates : open' = [open EXCEPT ![b] = s]
        /\ UNCHANGED <<bridges, closes>> \/ DropBridge(b)
        /\ UNCHANGED <<at, relay, got, messages, sock, sent, live, reader, hand>>
    BY <1>2 DEF OpenWrite, OpenDisconnected, CloseDrops, OpenCancelled,
      OpenTimeout, BridgeReturns, SendFails, CloseWrites, OpenStates
  <2>2. b # e
    BY <2>1 DEF Untouched
  <2>3. open'[e] = open[e]
    BY <1>t, <2>1, <2>2
  <2>4. closes'[e] = closes[e] /\ e \notin bridges'
    BY <1>d, <2>1, <2>2 DEF Untouched
  <2> QED BY <2>1, <2>3, <2>4 DEF Untouched
<1>3. ASSUME NEW b \in Bridge, OpenUp(b) PROVE Untouched(e)'
  <2>1. /\ open[b] = "select" /\ open' = [open EXCEPT ![b] = "up"]
        /\ relay' = [relay EXCEPT ![b] = "running"]
        /\ UNCHANGED <<at, got, messages, sock, sent, closes, bridges, live>>
        /\ UNCHANGED <<reader, hand>>
    BY <1>3 DEF OpenUp
  <2>2. open'[e] = open[e] /\ relay'[e] = relay[e]
    BY <1>t, <2>1 DEF Untouched
  <2> QED BY <2>1, <2>2 DEF Untouched
<1>4. ASSUME NEW b \in Bridge, RelayCopies(b) PROVE Untouched(e)'
  <2>1. /\ relay[b] = "running" /\ messages' = [messages EXCEPT ![b] = Tail(@)]
        /\ relay' = relay \/ relay' = [relay EXCEPT ![b] = "exited"]
        /\ got' = got \/ got' = [got EXCEPT ![b] = Append(@, Head(messages[b]))]
        /\ UNCHANGED <<at, open, sock, sent, closes, bridges, live, reader, hand>>
    BY <1>4 DEF RelayCopies
  <2>2. UNCHANGED <<relay[e], got[e], messages[e]>>
    BY <1>t, <2>1 DEF Untouched
  <2> QED BY <2>1, <2>2 DEF Untouched
<1>5. ASSUME NEW b \in Bridge, RelayEnds(b) PROVE Untouched(e)'
  <2>1. /\ relay[b] = "running" /\ relay' = [relay EXCEPT ![b] = "exited"]
        /\ UNCHANGED <<at, open, got, messages, sock, sent, closes, bridges, live>>
        /\ UNCHANGED <<reader, hand>>
    BY <1>5 DEF RelayEnds
  <2>2. relay'[e] = relay[e]
    BY <1>t, <2>1 DEF Untouched
  <2> QED BY <2>1, <2>2 DEF Untouched
<1>6. CASE DispatchMsg
  <2>1. /\ UNCHANGED <<at, open, relay, got, messages, sock, sent, closes>>
        /\ UNCHANGED <<bridges, live>> /\ reader = "read"
        /\ \/ UNCHANGED <<reader, hand>>
           \/ From \in bridges /\ hand' = [to |-> From, n |-> Head(toCP).n]
    BY <1>6 DEF DispatchMsg, Incoming
  <2>2. reader' = "send" => hand'.to # e
    BY <2>1 DEF Untouched
  <2> QED BY <2>1, <2>2 DEF Untouched
<1>7. CASE SendMsg
  <2>1. /\ reader = "send" /\ reader' = "read"
        /\ messages' = [messages EXCEPT ![hand.to] = Append(@, hand.n)]
        /\ UNCHANGED <<at, open, relay, got, sock, sent, closes, bridges, live>>
    BY <1>7 DEF SendMsg
  <2>2. messages'[e] = messages[e]
    BY <1>t, <2>1 DEF Untouched
  <2> QED BY <2>1, <2>2 DEF Untouched
<1>8. CASE DispatchClose
  <2>1. /\ toCP # <<>> /\ DropBridge(From)
        /\ UNCHANGED <<at, open, relay, got, messages, sock, sent, live, reader, hand>>
    BY <1>8 DEF DispatchClose, Incoming
  <2>2. closes'[e] = closes[e] /\ e \notin bridges'
    BY <1>t, <2>1 DEF DropBridge, Untouched
  <2> QED BY <2>1, <2>2 DEF Untouched
<1>9. CASE ShutdownDrain
  <2>1. /\ live' = bridges /\ bridges' = {} /\ reader' = "closing"
        /\ UNCHANGED <<at, open, relay, got, messages, sock, sent, closes>>
    BY <1>9 DEF ShutdownDrain
  <2> QED BY <2>1 DEF Untouched
<1>10. ASSUME NEW b \in Bridge, ShutdownClose(b) PROVE Untouched(e)'
  <2>1. /\ b \in live /\ live' = live \ {b} /\ closes' = [closes EXCEPT ![b] = @ + 1]
        /\ UNCHANGED <<at, open, relay, got, messages, sock, sent, bridges>>
        /\ UNCHANGED <<reader, hand>>
    BY <1>10 DEF ShutdownClose
  <2>2. closes'[e] = closes[e] /\ e \notin live'
    BY <1>t, <2>1 DEF Untouched
  <2> QED BY <2>1, <2>2 DEF Untouched
<1>11. CASE NodeOpen
  <2> DEFINE b == Here(Head(toNode).id)
  <2>1. /\ toNode # <<>> /\ Head(toNode).t = "open"
        /\ UNCHANGED <<open, relay, got, messages, sent, closes, bridges, live>>
        /\ UNCHANGED <<reader, hand>>
        /\ sock' = sock \/ sock' = [sock EXCEPT ![b] = "connecting"]
        /\ at' = at \/ at' = [at EXCEPT ![b.id] = b]
    BY <1>11 DEF NodeOpen, FromCP
  <2>2. b # e
    <3>1. Head(toNode) = toNode[1] /\ 1 \in 1 .. Len(toNode)
      BY <2>1, QueueTypes DEF TypeInv, LinkType
    <3>2. b.conn = conn /\ b.id = Head(toNode).id /\ b \in Bridge
      BY <2>1, NodeTakeType DEF Here, TypeInv
    <3>3. b.id <= nextID
      BY <2>1, <3>1, <3>2 DEF LifeInv
    <3>4. b.id \in Int /\ nextID \in Int /\ conn \in Int
      BY <3>2, BridgeTypes, Bounds DEF TypeInv, LinkType, ConnType
    <3>5. ~(b.conn > conn) /\ ~(b.id > nextID)
      BY <3>2, <3>3, <3>4
    <3> QED BY <3>5 DEF Fresh
  <2> HIDE DEF b
  <2>3. sock'[e] = sock[e] /\ \A i \in Id : at'[i] # e
    BY <1>t, <2>1, <2>2 DEF Untouched
  <2> QED BY <2>1, <2>3 DEF Untouched
<1>12. ASSUME NEW b \in Bridge, NodeUp(b) \/ NodeMsg(b) \/ NodeClosed(b)
       PROVE  Untouched(e)'
  <2>1. /\ sock[b] # "none"
        /\ sock' = sock \/ \E s \in SockStates : sock' = [sock EXCEPT ![b] = s]
        /\ at' = at \/ at' = [at EXCEPT ![b.id] = None]
        /\ sent' = sent \/ sent' = [sent EXCEPT ![b] = @ + 1]
        /\ UNCHANGED <<open, relay, got, messages, closes, bridges, live>>
        /\ UNCHANGED <<reader, hand>>
    BY <1>12 DEF NodeUp, NodeMsg, NodeClosed, SockStates
  <2>2. sock'[e] = sock[e] /\ sent'[e] = sent[e]
    BY <1>t, <2>1 DEF Untouched
  <2>3. \A i \in Id : at'[i] # e
    BY <1>t, <2>1, BridgeTypes DEF Untouched
  <2> QED BY <2>1, <2>2, <2>3 DEF Untouched
<1>13. CASE NodeClose \/ LinkDrops
  <2>1. /\ UNCHANGED <<open, relay, got, messages, sent, closes, bridges, live>>
        /\ UNCHANGED <<reader, hand>>
    BY <1>13 DEF NodeClose, LinkDrops
  <2>2. at' = at \/ at' = [i \in Id |-> None]
    BY <1>13 DEF NodeClose, LinkDrops
  <2>3. \A i \in Id : at'[i] # e
    BY <2>2, BridgeTypes DEF Untouched
  <2>4. CASE NodeClose
    <3>1. toNode # <<>> /\ sock' = Closing({at[Head(toNode).id]})
      BY <2>4 DEF NodeClose, FromCP
    <3>2. e # at[Head(toNode).id]
      BY <3>1, NodeTakeType DEF TypeInv, Untouched
    <3> QED BY <2>1, <2>3, <3>1, <3>2 DEF Closing, Untouched
  <2>5. CASE LinkDrops
    <3>1. sock' = Closing({at[i] : i \in Id})
      BY <2>5 DEF LinkDrops
    <3> QED BY <2>1, <2>3, <3>1 DEF Closing, Untouched
  <2> QED BY <1>13, <2>4, <2>5
<1>14. CASE Reconnect
  <2>1. /\ UNCHANGED <<at, open, relay, got, messages, sock, sent, closes>>
        /\ UNCHANGED <<bridges, live>> /\ reader' = "read"
    BY <1>14 DEF Reconnect
  <2> QED BY <2>1 DEF Untouched
<1>15. ASSUME NEW b \in Bridge, BrowserGone(b) PROVE Untouched(e)'
  BY <1>15 DEF BrowserGone, Untouched
<1>16. CASE DispatchUp \/ SendPanics \/ DispatchErr \/ ReadError \/ ShutdownDone
  <2>1. /\ UNCHANGED <<at, open, relay, got, messages, sock, sent, closes>>
        /\ UNCHANGED <<bridges, live>>
        /\ UNCHANGED <<reader, hand>> \/ reader' # "send"
    BY <1>16 DEF DispatchUp, SendPanics, DispatchErr, ReadError, ShutdownDone
  <2> QED BY <2>1 DEF Untouched
<1>17. CASE UNCHANGED vars
  BY <1>17 DEF vars, Untouched
<1> QED BY <1>1, <1>2, <1>3, <1>4, <1>5, <1>6, <1>7, <1>8, <1>9, <1>10, <1>11,
     <1>12, <1>13, <1>14, <1>15, <1>16, <1>17
     DEF Next, Opener, Relay, Reader, Socket

-----------------------------------------------------------------------------
(* Queues of numbered messages.                                            *)

\* No message under i: numbered from p to p.
LEMMA NumberedNone ==
  ASSUME NEW S, NEW q \in Seq(S), NEW i, NEW p \in Nat,
         \A k \in 1 .. Len(q) : ~IsMsg(q[k], i)
  PROVE  Numbered(q, i, p, p)
<1> DEFINE c == [k \in 0 .. Len(q) |-> p]
<1>1. c \in [0 .. Len(q) -> Nat] /\ c[0] = p /\ c[Len(q)] = p
  OBVIOUS
<1>2. \A k \in 1 .. Len(q) : c[k] = p /\ c[k - 1] = p
  OBVIOUS
<1> HIDE DEF c
<1> QED BY <1>1, <1>2 DEF Numbered

\* Another frame at the end changes nothing.
LEMMA NumberedOther ==
  ASSUME NEW S, NEW q \in Seq(S), NEW i, NEW p, NEW s, NEW f \in S,
         Numbered(q, i, p, s), ~IsMsg(f, i)
  PROVE  Numbered(Append(q, f), i, p, s)
<1>1. PICK c \in [0 .. Len(q) -> Nat] :
        /\ c[0] = p /\ c[Len(q)] = s
        /\ \A k \in 1 .. Len(q) :
             /\ c[k] = IF IsMsg(q[k], i) THEN c[k - 1] + 1 ELSE c[k - 1]
             /\ IsMsg(q[k], i) => q[k].n = c[k]
  BY DEF Numbered
<1> DEFINE e == Append(q, f)
           d == [k \in 0 .. Len(e) |-> IF k <= Len(q) THEN c[k] ELSE s]
<1>2. /\ Len(e) = Len(q) + 1 /\ e[Len(q) + 1] = f /\ Len(q) \in Nat
      /\ \A k \in 1 .. Len(q) : e[k] = q[k]
  OBVIOUS
<1>3. s \in Nat
  BY <1>1, <1>2
<1>4. d \in [0 .. Len(e) -> Nat] /\ d[0] = p /\ d[Len(e)] = s
  BY <1>1, <1>2, <1>3
<1>5. \A k \in 1 .. Len(q) : d[k] = c[k] /\ d[k - 1] = c[k - 1]
  BY <1>2
<1>6. d[Len(q) + 1] = s /\ d[Len(q) + 1 - 1] = s
  BY <1>1, <1>2
<1>7. \A k \in 1 .. Len(e) : k \in 1 .. Len(q) \/ k = Len(q) + 1
  BY <1>2
<1> HIDE DEF d, e
<1>8. \A k \in 1 .. Len(e) :
        /\ d[k] = IF IsMsg(e[k], i) THEN d[k - 1] + 1 ELSE d[k - 1]
        /\ IsMsg(e[k], i) => e[k].n = d[k]
  <2> TAKE k \in 1 .. Len(e)
  <2>1. CASE k \in 1 .. Len(q)
    BY <1>1, <1>2, <1>5, <2>1
  <2>2. CASE k = Len(q) + 1
    BY <1>2, <1>6, <2>2
  <2> QED BY <1>7, <2>1, <2>2
<1>9. Numbered(e, i, p, s)
  BY <1>4, <1>8 DEF Numbered
<1> QED BY <1>9 DEF e

\* The next message at the end is the next number.
LEMMA NumberedNext ==
  ASSUME NEW S, NEW q \in Seq(S), NEW i, NEW p, NEW s, NEW f \in S,
         Numbered(q, i, p, s), IsMsg(f, i), f.n = s + 1
  PROVE  Numbered(Append(q, f), i, p, s + 1)
<1>1. PICK c \in [0 .. Len(q) -> Nat] :
        /\ c[0] = p /\ c[Len(q)] = s
        /\ \A k \in 1 .. Len(q) :
             /\ c[k] = IF IsMsg(q[k], i) THEN c[k - 1] + 1 ELSE c[k - 1]
             /\ IsMsg(q[k], i) => q[k].n = c[k]
  BY DEF Numbered
<1> DEFINE e == Append(q, f)
           d == [k \in 0 .. Len(e) |-> IF k <= Len(q) THEN c[k] ELSE s + 1]
<1>2. /\ Len(e) = Len(q) + 1 /\ e[Len(q) + 1] = f /\ Len(q) \in Nat
      /\ \A k \in 1 .. Len(q) : e[k] = q[k]
  OBVIOUS
<1>3. s \in Nat /\ s + 1 \in Nat
  BY <1>1, <1>2
<1>4. d \in [0 .. Len(e) -> Nat] /\ d[0] = p /\ d[Len(e)] = s + 1
  BY <1>1, <1>2, <1>3
<1>5. \A k \in 1 .. Len(q) : d[k] = c[k] /\ d[k - 1] = c[k - 1]
  BY <1>2
<1>6. d[Len(q) + 1] = s + 1 /\ d[Len(q) + 1 - 1] = s
  BY <1>1, <1>2
<1>7. \A k \in 1 .. Len(e) : k \in 1 .. Len(q) \/ k = Len(q) + 1
  BY <1>2
<1> HIDE DEF d, e
<1>8. \A k \in 1 .. Len(e) :
        /\ d[k] = IF IsMsg(e[k], i) THEN d[k - 1] + 1 ELSE d[k - 1]
        /\ IsMsg(e[k], i) => e[k].n = d[k]
  <2> TAKE k \in 1 .. Len(e)
  <2>1. CASE k \in 1 .. Len(q)
    BY <1>1, <1>2, <1>5, <2>1
  <2>2. CASE k = Len(q) + 1
    BY <1>2, <1>6, <2>2
  <2> QED BY <1>7, <2>1, <2>2
<1>9. Numbered(e, i, p, s + 1)
  BY <1>4, <1>8 DEF Numbered
<1> QED BY <1>9 DEF e

\* Taking the first frame moves the start past it; a message taken is the next.
LEMMA NumberedTail ==
  ASSUME NEW S, NEW q \in Seq(S), NEW i, NEW p, NEW s, q # <<>>,
         Numbered(q, i, p, s)
  PROVE  IF IsMsg(Head(q), i)
         THEN Head(q).n = p + 1 /\ Numbered(Tail(q), i, p + 1, s)
         ELSE Numbered(Tail(q), i, p, s)
<1>1. PICK c \in [0 .. Len(q) -> Nat] :
        /\ c[0] = p /\ c[Len(q)] = s
        /\ \A k \in 1 .. Len(q) :
             /\ c[k] = IF IsMsg(q[k], i) THEN c[k - 1] + 1 ELSE c[k - 1]
             /\ IsMsg(q[k], i) => q[k].n = c[k]
  BY DEF Numbered
<1> DEFINE e == Tail(q)
           d == [k \in 0 .. Len(e) |-> c[k + 1]]
<1>2. /\ Len(e) = Len(q) - 1 /\ Len(q) \in Nat /\ Len(q) >= 1 /\ q[1] = Head(q)
      /\ \A k \in 1 .. Len(e) : e[k] = q[k + 1]
  OBVIOUS
<1>3. /\ d \in [0 .. Len(e) -> Nat] /\ d[0] = c[1] /\ d[Len(e)] = s
      /\ \A k \in 1 .. Len(e) : d[k] = c[k + 1] /\ d[k - 1] = c[k + 1 - 1]
  BY <1>1, <1>2
<1>4. \A k \in 1 .. Len(e) : k + 1 \in 1 .. Len(q)
  BY <1>2
<1>5. /\ c[1] = IF IsMsg(q[1], i) THEN c[1 - 1] + 1 ELSE c[1 - 1]
      /\ IsMsg(q[1], i) => q[1].n = c[1]
  BY <1>1, <1>2
<1> HIDE DEF d, e
<1>6. \A k \in 1 .. Len(e) :
        /\ d[k] = IF IsMsg(e[k], i) THEN d[k - 1] + 1 ELSE d[k - 1]
        /\ IsMsg(e[k], i) => e[k].n = d[k]
  <2> TAKE k \in 1 .. Len(e)
  <2>1. /\ c[k + 1] = IF IsMsg(q[k + 1], i) THEN c[k + 1 - 1] + 1
                                            ELSE c[k + 1 - 1]
        /\ IsMsg(q[k + 1], i) => q[k + 1].n = c[k + 1]
    BY <1>1, <1>4
  <2>2. e[k] = q[k + 1] /\ d[k] = c[k + 1] /\ d[k - 1] = c[k + 1 - 1]
    BY <1>2, <1>3
  <2> QED BY <2>1, <2>2, Zenon
<1>7. Numbered(e, i, c[1], s)
  BY <1>3, <1>6 DEF Numbered
<1>8. CASE IsMsg(Head(q), i)
  BY <1>1, <1>2, <1>5, <1>7, <1>8 DEF e
<1>9. CASE ~IsMsg(Head(q), i)
  BY <1>1, <1>2, <1>5, <1>7, <1>9 DEF e
<1> QED BY <1>8, <1>9

\* What is left of a queue that is cut short is numbered from the same start.
LEMMA NumberedPrefix ==
  ASSUME NEW S, NEW q \in Seq(S), NEW i, NEW p, NEW s, NEW n \in 0 .. Len(q),
         Numbered(q, i, p, s)
  PROVE  \E t \in Nat : Numbered(SubSeq(q, 1, n), i, p, t)
<1>1. PICK c \in [0 .. Len(q) -> Nat] :
        /\ c[0] = p /\ c[Len(q)] = s
        /\ \A k \in 1 .. Len(q) :
             /\ c[k] = IF IsMsg(q[k], i) THEN c[k - 1] + 1 ELSE c[k - 1]
             /\ IsMsg(q[k], i) => q[k].n = c[k]
  BY DEF Numbered
<1> DEFINE e == SubSeq(q, 1, n)
           d == [k \in 0 .. Len(e) |-> c[k]]
<1>2. /\ Len(e) = n /\ Len(q) \in Nat
      /\ \A k \in 1 .. Len(e) : e[k] = q[k] /\ k \in 1 .. Len(q)
  OBVIOUS
<1>3. /\ d \in [0 .. Len(e) -> Nat] /\ d[0] = p /\ d[Len(e)] = c[n]
      /\ \A k \in 1 .. Len(e) : d[k] = c[k] /\ d[k - 1] = c[k - 1]
  <2> HIDE DEF e
  <2>1. \A k \in 0 .. Len(e) : k \in 0 .. Len(q) /\ d[k] = c[k]
    BY <1>2
  <2>2. \A k \in 1 .. Len(e) : k \in 0 .. Len(e) /\ k - 1 \in 0 .. Len(e)
    BY <1>2
  <2>3. 0 \in 0 .. Len(e) /\ n \in 0 .. Len(e)
    BY <1>2
  <2>4. d \in [0 .. Len(e) -> Nat]
    BY <1>1, <2>1
  <2> QED BY <1>1, <1>2, <2>1, <2>2, <2>3, <2>4
<1>4. c[n] \in Nat
  BY <1>1, <1>2
<1> HIDE DEF d, e
<1>5. \A k \in 1 .. Len(e) :
        /\ d[k] = IF IsMsg(e[k], i) THEN d[k - 1] + 1 ELSE d[k - 1]
        /\ IsMsg(e[k], i) => e[k].n = d[k]
  BY <1>1, <1>2, <1>3
<1>6. Numbered(e, i, p, c[n])
  BY <1>3, <1>5 DEF Numbered
<1> QED BY <1>4, <1>6 DEF e

-----------------------------------------------------------------------------
(* The messages of a bridge.                                               *)

\* A bridge that was not fouled before was not so earlier.
LEMMA NotFouled ==
  ASSUME strays \subseteq strays', NEW b \in Bridge, ~Fouled(b)'
  PROVE  ~Fouled(b)
BY DEF Fouled

\* Steps that move no message of b keep FlowOK.
LEMMA FlowKept ==
  ASSUME TypeInv, NoOrphanBridge, NEW b \in Bridge, FlowOK(b),
         strays \subseteq strays', conn' = conn, link' = link,
         UNCHANGED <<got[b], messages[b], sent[b]>>,
         relay'[b] # "exited" => relay[b] # "exited",
         b \in bridges' => b \in bridges,
         Held(b)' => Held(b) /\ hand'.n = hand.n,
         reader' \in {"read", "send"} => /\ reader \in {"read", "send"}
                                         /\ Held(b) => Held(b)',
         Fresh(b)' => Fresh(b),
         \/ toCP' = toCP
         \/ /\ toCP # <<>> /\ toCP' = Tail(toCP)
            /\ b.conn = conn => ~IsMsg(Head(toCP), b.id)
         \/ \E f \in NodeFrame : /\ toCP' = Append(toCP, f)
                                 /\ b.conn = conn => ~IsMsg(f, b.id)
  PROVE  FlowOK(b)'
<1> SUFFICES ASSUME ~Fouled(b)' PROVE FlowOK(b)'
  BY DEF FlowOK
<1>1. ~Fouled(b)
  BY NotFouled
<1>2. \A i \in 1 .. Len(got'[b]) : got'[b][i] = i
  BY <1>1 DEF FlowOK
<1>3. ASSUME relay'[b] # "exited" PROVE ChannelOK(b)'
  <2>1. ChannelOK(b)
    BY <1>1, <1>3 DEF FlowOK
  <2>2. \A i \in 1 .. Len(messages'[b]) : messages'[b][i] = Len(got'[b]) + i
    BY <2>1 DEF ChannelOK
  <2>3. Held(b)' => hand'.n = Len(got'[b]) + Len(messages'[b]) + 1
    BY <2>1 DEF ChannelOK
  <2> QED BY <2>2, <2>3 DEF ChannelOK
<1>q. toCP \in Seq(NodeFrame)
  BY DEF TypeInv, LinkType
<1>4. ASSUME Wanted(b)' PROVE QueueOK(b)'
  <2>1. Wanted(b) /\ (Held(b) <=> Held(b)')
    BY <1>4 DEF Wanted
  <2>2. b.conn = conn
    BY <2>1 DEF Wanted, NoOrphanBridge
  <2>3. PICK s \in Nat : /\ Numbered(toCP, b.id, Passed(b), s)
                         /\ link = "up" => s = sent[b]
    BY <1>1, <2>1 DEF FlowOK, QueueOK
  <2>4. Passed(b)' = Passed(b)
    BY <2>1 DEF Passed
  <2> DEFINE p == Passed(b)
  <2> HIDE DEF p
  <2>5. Numbered(toCP, b.id, p, s)
    BY <2>3 DEF p
  <2>6. Numbered(toCP', b.id, p, s)
    <3>1. CASE toCP' = toCP
      BY <2>5, <3>1
    <3>2. CASE toCP # <<>> /\ toCP' = Tail(toCP) /\ ~IsMsg(Head(toCP), b.id)
      BY <1>q, <2>5, <3>2, NumberedTail
    <3>3. ASSUME NEW f \in NodeFrame, toCP' = Append(toCP, f), ~IsMsg(f, b.id)
          PROVE  Numbered(toCP', b.id, p, s)
      BY <1>q, <2>5, <3>3, NumberedOther
    <3> QED BY <2>2, <3>1, <3>2, <3>3
  <2>7. Numbered(toCP', b.id, Passed(b)', s)
    BY <2>4, <2>6 DEF p
  <2>8. link' = "up" => s = sent'[b]
    BY <2>3
  <2> QED BY <2>7, <2>8 DEF QueueOK
<1>5. ASSUME Fresh(b)', b.conn = conn' PROVE NothingFor(b)'
  <2>1. \A k \in 1 .. Len(toCP) : ~IsMsg(toCP[k], b.id)
    BY <1>1, <1>5 DEF FlowOK, NothingFor
  <2>2. \A k \in 1 .. Len(toCP') : ~IsMsg(toCP'[k], b.id)
    <3>1. CASE toCP' = toCP
      BY <2>1, <3>1
    <3>2. CASE toCP # <<>> /\ toCP' = Tail(toCP)
      <4>1. \A k \in 1 .. Len(toCP') : /\ k + 1 \in 1 .. Len(toCP)
                                       /\ toCP'[k] = toCP[k + 1]
        BY <1>q, <3>2
      <4> QED BY <2>1, <4>1
    <3>3. ASSUME NEW f \in NodeFrame, toCP' = Append(toCP, f), ~IsMsg(f, b.id)
          PROVE  \A k \in 1 .. Len(toCP') : ~IsMsg(toCP'[k], b.id)
      <4>1. \A k \in 1 .. Len(toCP') : \/ toCP'[k] = f
                                       \/ /\ k \in 1 .. Len(toCP)
                                          /\ toCP'[k] = toCP[k]
        BY <1>q, <3>3
      <4> QED BY <2>1, <3>3, <4>1
    <3> QED BY <1>5, <3>1, <3>2, <3>3
  <2> QED BY <2>2 DEF NothingFor
<1> QED BY <1>2, <1>3, <1>4, <1>5 DEF FlowOK

\* The relay takes the first of the waiting messages.
LEMMA FlowRelay ==
  ASSUME TypeInv, NEW b \in Bridge, FlowOK(b), FreshInv, RelayCopies(b)
  PROVE  FlowOK(b)'
<1> USE DEF linkVars, connVars, readVars, proxyVars, chanVars, nodeVars
<1> SUFFICES ASSUME ~Fouled(b)' PROVE FlowOK(b)'
  BY DEF FlowOK
<1>t. /\ got \in [Bridge -> Seq(1 .. MaxMsgs)]
      /\ messages \in [Bridge -> Seq(1 .. MaxMsgs)]
      /\ relay \in [Bridge -> {"none", "running", "exited"}]
  BY DEF TypeInv, ProxyType, ChanType
<1>1. /\ relay[b] = "running" /\ messages[b] # <<>>
      /\ messages' = [messages EXCEPT ![b] = Tail(@)]
      /\ UNCHANGED <<conn, nextID, toCP, link, sent, strays, bridges, reader, hand>>
  BY DEF RelayCopies
<1>2. ~Fouled(b) /\ ~Fresh(b)
  BY <1>1, NotFouled DEF FreshInv, Untouched
<1>3. ~Fresh(b)'
  BY <1>1, <1>2 DEF Fresh
<1>4. messages'[b] = Tail(messages[b])
  BY <1>t, <1>1
<1>5. CASE relay' = [relay EXCEPT ![b] = "exited"] /\ UNCHANGED got
  <2>1. relay'[b] = "exited"
    BY <1>t, <1>5
  <2> QED BY <1>2, <1>3, <1>5, <2>1 DEF FlowOK, Wanted
<1>6. CASE /\ got' = [got EXCEPT ![b] = Append(@, Head(messages[b]))]
           /\ UNCHANGED relay
  <2> DEFINE g == got[b]  m == messages[b]
  <2>1. got'[b] = Append(g, Head(m)) /\ relay'[b] # "exited"
    BY <1>t, <1>1, <1>6
  <2>2. ChannelOK(b) /\ \A i \in 1 .. Len(g) : g[i] = i
    BY <1>1, <1>2 DEF FlowOK
  <2>3. /\ g \in Seq(1 .. MaxMsgs) /\ m \in Seq(1 .. MaxMsgs) /\ m # <<>>
        /\ \A i \in 1 .. Len(m) : m[i] = Len(g) + i
    BY <1>t, <1>1, <2>2 DEF ChannelOK
  <2> HIDE DEF g, m
  <2>4. /\ Head(m) = Len(g) + 1 /\ Len(Tail(m)) = Len(m) - 1
        /\ Len(Append(g, Head(m))) = Len(g) + 1
        /\ Len(g) \in Nat /\ Len(m) \in Nat
    BY <2>3
  <2>5. \A i \in 1 .. Len(Append(g, Head(m))) : Append(g, Head(m))[i] = i
    BY <2>2, <2>3, <2>4 DEF g
  <2>6. \A i \in 1 .. Len(Tail(m)) : Tail(m)[i] = Len(Append(g, Head(m))) + i
    <3> TAKE i \in 1 .. Len(Tail(m))
    <3>1. i + 1 \in 1 .. Len(m) /\ Tail(m)[i] = m[i + 1]
      BY <2>3, <2>4
    <3> QED BY <2>3, <2>4, <3>1
  <2>7. Len(got'[b]) + Len(messages'[b]) = Len(got[b]) + Len(messages[b])
    <3>1. Len(got'[b]) = Len(g) + 1
      BY <2>1, <2>4
    <3>2. Len(messages'[b]) = Len(m) - 1
      BY <1>4, <2>4 DEF m
    <3>3. Len(got'[b]) + Len(messages'[b]) = Len(g) + Len(m)
      BY <2>4, <3>1, <3>2
    <3> QED BY <3>3 DEF g, m
  <2>8. ChannelOK(b)'
    <3>1. \A i \in 1 .. Len(messages'[b]) : messages'[b][i] = Len(got'[b]) + i
      BY <1>4, <2>1, <2>6 DEF m
    <3>2. Held(b)' => hand'.n = Len(got'[b]) + Len(messages'[b]) + 1
      BY <1>1, <2>2, <2>7 DEF ChannelOK, Held
    <3> QED BY <3>1, <3>2 DEF ChannelOK
  <2>9. Wanted(b)' => QueueOK(b)'
    <3>1. Passed(b)' = Passed(b)
      BY <1>1, <2>7 DEF Passed, Held
    <3>2. Wanted(b)' => Wanted(b)
      BY <1>1, <1>6 DEF Wanted
    <3>3. Wanted(b) => \E s \in Nat : /\ Numbered(toCP, b.id, Passed(b), s)
                                      /\ link = "up" => s = sent[b]
      BY <1>2 DEF FlowOK, QueueOK
    <3>4. Wanted(b)' => \E s \in Nat : /\ Numbered(toCP', b.id, Passed(b)', s)
                                       /\ link' = "up" => s = sent'[b]
      BY <1>1, <3>1, <3>2, <3>3
    <3> QED BY <3>4 DEF QueueOK
  <2>10. \A i \in 1 .. Len(got'[b]) : got'[b][i] = i
    BY <2>1, <2>5
  <2> QED BY <1>3, <2>8, <2>9, <2>10 DEF FlowOK
<1> QED BY <1>5, <1>6 DEF RelayCopies

\* Dispatch takes the next message of b from the queue into its hand.
LEMMA FlowTake ==
  ASSUME TypeInv, NEW b \in Bridge, FlowOK(b), FreshInv, DispatchMsg,
         b = From, b \in bridges
  PROVE  FlowOK(b)'
<1> USE DEF linkVars, connVars, readVars, proxyVars, chanVars, nodeVars
<1> SUFFICES ASSUME ~Fouled(b)' PROVE FlowOK(b)'
  BY DEF FlowOK
<1>1. /\ toCP # <<>> /\ Head(toCP).t = "msg" /\ reader = "read"
      /\ reader' = "send" /\ hand' = [to |-> b, n |-> Head(toCP).n]
      /\ toCP' = Tail(toCP)
      /\ UNCHANGED <<conn, nextID, link, sent, strays, bridges, relay, got, messages>>
  BY DEF DispatchMsg, Incoming
<1>2. ~Fouled(b) /\ ~Fresh(b)
  BY <1>1, NotFouled DEF FreshInv, Untouched
<1>3. ~Fresh(b)'
  BY <1>1, <1>2 DEF Fresh
<1>4. ~Held(b) /\ Held(b)'
  BY <1>1 DEF Held
<1>5. \A i \in 1 .. Len(got'[b]) : got'[b][i] = i
  BY <1>1, <1>2 DEF FlowOK
<1>6. ASSUME relay'[b] # "exited" PROVE ChannelOK(b)' /\ QueueOK(b)'
  <2>1. Wanted(b) /\ ChannelOK(b)
    BY <1>1, <1>2, <1>6 DEF FlowOK, Wanted
  <2> DEFINE p == Len(got[b]) + Len(messages[b])
  <2>2. Passed(b) = p /\ Passed(b)' = p + 1 /\ p \in Nat
    <3>1. Len(got[b]) \in Nat /\ Len(messages[b]) \in Nat
      BY DEF TypeInv, ProxyType, ChanType
    <3>0. Passed(b) = Len(got[b]) + Len(messages[b]) + 0
      BY <1>4 DEF Passed
    <3>2. Passed(b) = p /\ p \in Nat
      <4> DEFINE g == Len(got[b])  m == Len(messages[b])
      <4>1. g \in Nat /\ m \in Nat /\ Passed(b) = g + m + 0
        BY <3>0, <3>1
      <4> HIDE DEF g, m
      <4>2. Passed(b) = g + m /\ g + m \in Nat
        BY <4>1
      <4> QED BY <4>2 DEF g, m
    <3>3. got'[b] = got[b] /\ messages'[b] = messages[b]
      BY <1>1
    <3>4. Passed(b)' = Len(got'[b]) + Len(messages'[b]) + 1
      BY <1>4 DEF Passed
    <3>5. Passed(b)' = p + 1
      BY <3>3, <3>4
    <3> HIDE DEF p
    <3> QED BY <3>2, <3>5
  <2>3. PICK s \in Nat : /\ Numbered(toCP, b.id, p, s)
                         /\ link = "up" => s = sent[b]
    BY <1>2, <2>1, <2>2 DEF FlowOK, QueueOK
  <2>4. IsMsg(Head(toCP), b.id)
    BY <1>1, TakeType DEF IsMsg, TypeInv
  <2>5. toCP \in Seq(NodeFrame)
    BY DEF TypeInv, LinkType
  <2> HIDE DEF p
  <2>6. Head(toCP).n = p + 1 /\ Numbered(Tail(toCP), b.id, p + 1, s)
    BY <1>1, <2>3, <2>4, <2>5, NumberedTail
  <2>7. QueueOK(b)'
    <3>1. Numbered(toCP', b.id, Passed(b)', s) /\ (link' = "up" => s = sent'[b])
      BY <1>1, <2>2, <2>3, <2>6
    <3> QED BY <3>1 DEF QueueOK
  <2>8. ChannelOK(b)'
    <3>1. hand'.n = Len(got'[b]) + Len(messages'[b]) + 1
      BY <1>1, <2>6 DEF p
    <3>2. \A i \in 1 .. Len(messages'[b]) : messages'[b][i] = Len(got'[b]) + i
      BY <1>1, <2>1 DEF ChannelOK
    <3> QED BY <3>1, <3>2 DEF ChannelOK
  <2> QED BY <2>7, <2>8
<1> QED BY <1>3, <1>5, <1>6 DEF FlowOK, Wanted

\* Dispatch puts what it holds into Messages.
LEMMA FlowSend ==
  ASSUME TypeInv, NEW b \in Bridge, FlowOK(b), FreshInv, SendMsg, b = hand.to
  PROVE  FlowOK(b)'
<1> USE DEF linkVars, connVars, readVars, proxyVars, chanVars, nodeVars
<1> SUFFICES ASSUME ~Fouled(b)' PROVE FlowOK(b)'
  BY DEF FlowOK
<1>1. /\ reader = "send" /\ reader' = "read"
      /\ messages' = [messages EXCEPT ![b] = Append(@, hand.n)]
      /\ UNCHANGED <<conn, nextID, toCP, link, sent, strays, bridges, relay, got>>
  BY DEF SendMsg
<1>2. ~Fouled(b) /\ ~Fresh(b)
  BY <1>1, NotFouled DEF FreshInv, Untouched
<1>3. ~Fresh(b)'
  BY <1>1, <1>2 DEF Fresh
<1>4. Held(b) /\ ~Held(b)'
  BY <1>1 DEF Held
<1>5. \A i \in 1 .. Len(got'[b]) : got'[b][i] = i
  BY <1>1, <1>2 DEF FlowOK
<1>6. /\ messages[b] \in Seq(1 .. MaxMsgs) /\ got[b] \in Seq(1 .. MaxMsgs)
      /\ hand.n \in 1 .. MaxMsgs
  BY <1>1 DEF TypeInv, ProxyType, ChanType, ReadType
<1>7. messages'[b] = Append(messages[b], hand.n)
  BY <1>1 DEF TypeInv, ChanType
<1>8. /\ Len(messages'[b]) = Len(messages[b]) + 1
      /\ Len(messages[b]) \in Nat /\ Len(got[b]) \in Nat
  BY <1>6, <1>7
<1>9. relay'[b] # "exited" => ChannelOK(b)'
  <2> SUFFICES ASSUME relay'[b] # "exited" PROVE ChannelOK(b)'
    OBVIOUS
  <2>1. ChannelOK(b)
    BY <1>1, <1>2 DEF FlowOK
  <2>2. hand.n = Len(got[b]) + Len(messages[b]) + 1
    BY <1>4, <2>1 DEF ChannelOK
  <2>3. \A i \in 1 .. Len(messages'[b]) :
          \/ i = Len(messages[b]) + 1 /\ messages'[b][i] = hand.n
          \/ i \in 1 .. Len(messages[b]) /\ messages'[b][i] = messages[b][i]
    BY <1>6, <1>7
  <2>4. \A i \in 1 .. Len(messages'[b]) : messages'[b][i] = Len(got'[b]) + i
    <3> TAKE i \in 1 .. Len(messages'[b])
    <3>1. got'[b] = got[b]
      BY <1>1
    <3>2. CASE i = Len(messages[b]) + 1 /\ messages'[b][i] = hand.n
      <4>1. messages'[b][i] = Len(got[b]) + i
        <5> DEFINE g == Len(got[b])  m == Len(messages[b])
        <5>1. /\ g \in Nat /\ m \in Nat /\ i = m + 1 /\ hand.n = g + m + 1
              /\ messages'[b][i] = hand.n
          BY <1>8, <2>2, <3>2
        <5> HIDE DEF g, m
        <5>2. messages'[b][i] = g + i
          BY <5>1
        <5> QED BY <5>2 DEF g
      <4> QED BY <3>1, <4>1
    <3>3. CASE i \in 1 .. Len(messages[b]) /\ messages'[b][i] = messages[b][i]
      BY <2>1, <3>1, <3>3 DEF ChannelOK
    <3> QED BY <2>3, <3>2, <3>3
  <2> QED BY <1>4, <2>4 DEF ChannelOK
<1>10. Wanted(b)' => QueueOK(b)'
  <2>1. Passed(b)' = Passed(b)
    <3>1. got'[b] = got[b]
      BY <1>1
    <3>2. Passed(b) = Len(got[b]) + Len(messages[b]) + 1
      BY <1>4 DEF Passed
    <3>3. Passed(b)' = Len(got'[b]) + Len(messages'[b]) + 0
      BY <1>4 DEF Passed
    <3> DEFINE g == Len(got[b])  m == Len(messages[b])
    <3>4. /\ g \in Nat /\ m \in Nat /\ Passed(b) = g + m + 1
          /\ Passed(b)' = g + (m + 1) + 0
      BY <1>8, <3>1, <3>2, <3>3
    <3> HIDE DEF g, m
    <3> QED BY <3>4
  <2>2. Wanted(b)' => Wanted(b)
    BY <1>1 DEF Wanted
  <2>3. Wanted(b) => \E s \in Nat : /\ Numbered(toCP, b.id, Passed(b), s)
                                    /\ link = "up" => s = sent[b]
    BY <1>2 DEF FlowOK, QueueOK
  <2>4. Wanted(b)' => \E s \in Nat : /\ Numbered(toCP', b.id, Passed(b)', s)
                                     /\ link' = "up" => s = sent'[b]
    BY <1>1, <2>1, <2>2, <2>3
  <2> QED BY <2>4 DEF QueueOK
<1> QED BY <1>3, <1>5, <1>9, <1>10 DEF FlowOK

\* The local socket of b sends its next message.
LEMMA FlowSent ==
  ASSUME TypeInv, NEW b \in Bridge, FlowOK(b), FreshInv, NodeMsg(b)
  PROVE  FlowOK(b)'
<1> USE DEF linkVars, connVars, readVars, proxyVars, chanVars, nodeVars
<1> SUFFICES ASSUME ~Fouled(b)' PROVE FlowOK(b)'
  BY DEF FlowOK
<1> DEFINE f == frame("msg", b.id, sent[b] + 1)
<1>1. /\ sock[b] = "open" /\ sent[b] < MaxMsgs
      /\ sent' = [sent EXCEPT ![b] = @ + 1] /\ NodeSend(f)
      /\ UNCHANGED <<conn, nextID, link, strays, bridges, relay, got, messages>>
      /\ UNCHANGED <<reader, hand>>
  BY DEF NodeMsg
<1>2. ~Fouled(b) /\ ~Fresh(b)
  BY <1>1, NotFouled DEF FreshInv, Untouched
<1>3. ~Fresh(b)'
  BY <1>1, <1>2 DEF Fresh
<1>4. \A i \in 1 .. Len(got'[b]) : got'[b][i] = i
  BY <1>1, <1>2 DEF FlowOK
<1>5. relay'[b] # "exited" => ChannelOK(b)'
  BY <1>1, <1>2 DEF FlowOK, ChannelOK, Held
<1>6. sent'[b] = sent[b] + 1 /\ sent[b] \in Nat
  BY <1>1, Bounds DEF TypeInv, NodeType
<1>7. ASSUME Wanted(b)' PROVE QueueOK(b)'
  <2>1. Wanted(b) /\ Passed(b)' = Passed(b)
    BY <1>1, <1>7 DEF Wanted, Passed, Held
  <2> DEFINE p == Passed(b)
  <2>2. PICK s \in Nat : Numbered(toCP, b.id, p, s) /\ (link = "up" => s = sent[b])
    BY <1>2, <2>1 DEF FlowOK, QueueOK
  <2> HIDE DEF p
  <2>3. CASE link # "up"
    <3>1. Numbered(toCP', b.id, p, s) /\ link' # "up"
      BY <1>1, <2>2, <2>3 DEF NodeSend
    <3> QED BY <2>1, <3>1 DEF QueueOK, p
  <2>4. CASE link = "up"
    <3>1. toCP' = Append(toCP, f) /\ IsMsg(f, b.id) /\ f.n = s + 1
      BY <1>1, <2>2, <2>4, FrameFields DEF NodeSend, IsMsg
    <3>2. f \in NodeFrame /\ toCP \in Seq(NodeFrame)
      <4>1. sent[b] + 1 \in 1 .. MaxMsgs
        BY <1>1, <1>6, Bounds
      <4> QED BY <4>1, BridgeTypes, FrameTypes DEF TypeInv, LinkType
    <3> HIDE DEF f
    <3>3. Numbered(toCP', b.id, p, s + 1)
      BY <2>2, <3>1, <3>2, NumberedNext
    <3>4. s + 1 \in Nat /\ s + 1 = sent'[b]
      BY <1>6, <2>2, <2>4
    <3> QED BY <2>1, <3>3, <3>4 DEF QueueOK, p
  <2> QED BY <2>3, <2>4
<1> QED BY <1>3, <1>4, <1>5, <1>7 DEF FlowOK

\* OpenWS registers b.
LEMMA FlowRegistered ==
  ASSUME TypeInv, NEW b \in Bridge, FlowOK(b), FreshInv, OpenRegister,
         b = Here(nextID + 1)
  PROVE  FlowOK(b)'
<1> USE DEF linkVars, connVars, readVars, proxyVars, chanVars, nodeVars
<1> SUFFICES ASSUME ~Fouled(b)' PROVE FlowOK(b)'
  BY DEF FlowOK
<1>1. /\ nextID' = nextID + 1
      /\ UNCHANGED <<conn, toCP, link, sent, strays, relay, got, messages>>
      /\ UNCHANGED <<reader, hand>>
  BY DEF OpenRegister
<1>n. nextID \in Int /\ conn \in Int /\ b.conn = conn /\ b.id = nextID + 1
  BY Bounds DEF TypeInv, LinkType, ConnType, Here
<1>2. ~Fouled(b) /\ Fresh(b) /\ ~Fresh(b)'
  BY <1>1, <1>n, NotFouled DEF Fresh
<1>3. Untouched(b) /\ NothingFor(b)
  BY <1>2, <1>n DEF FreshInv, FlowOK
<1>4. ~Held(b)' /\ Passed(b)' = 0 /\ sent'[b] = 0
  BY <1>1, <1>3 DEF Untouched, Held, Passed
<1>5. Numbered(toCP', b.id, 0, 0)
  <2>1. toCP \in Seq(NodeFrame) /\ 0 \in Nat
    BY DEF TypeInv, LinkType
  <2> QED BY <1>1, <1>3, <2>1, NumberedNone DEF NothingFor
<1>6. QueueOK(b)'
  BY <1>4, <1>5 DEF QueueOK
<1>7. ChannelOK(b)' /\ \A i \in 1 .. Len(got'[b]) : got'[b][i] = i
  BY <1>1, <1>3, <1>4 DEF ChannelOK, Untouched
<1> QED BY <1>2, <1>6, <1>7 DEF FlowOK

\* The uplink drops, with the end of its queue.
LEMMA FlowDropped ==
  ASSUME TypeInv, NEW b \in Bridge, FlowOK(b), LinkDrops
  PROVE  FlowOK(b)'
<1> USE DEF linkVars, connVars, readVars, proxyVars, chanVars, nodeVars
<1> SUFFICES ASSUME ~Fouled(b)' PROVE FlowOK(b)'
  BY DEF FlowOK
<1>1. /\ link' = "down" /\ strays \subseteq strays'
      /\ UNCHANGED <<conn, nextID, bridges, relay, got, messages, reader, hand>>
  BY DEF LinkDrops
<1>2. PICK n \in 0 .. Len(toCP) : toCP' = SubSeq(toCP, 1, n)
  BY DEF LinkDrops
<1>3. ~Fouled(b) /\ toCP \in Seq(NodeFrame)
  BY <1>1, NotFouled DEF TypeInv, LinkType
<1>4. \A i \in 1 .. Len(got'[b]) : got'[b][i] = i
  BY <1>1, <1>3 DEF FlowOK
<1>5. relay'[b] # "exited" => ChannelOK(b)'
  BY <1>1, <1>3 DEF FlowOK, ChannelOK, Held
<1>6. ASSUME Wanted(b)' PROVE QueueOK(b)'
  <2>1. Wanted(b) /\ Passed(b)' = Passed(b)
    BY <1>1, <1>6 DEF Wanted, Passed, Held
  <2> DEFINE p == Passed(b)
  <2>2. PICK s \in Nat : Numbered(toCP, b.id, p, s)
    BY <1>3, <2>1 DEF FlowOK, QueueOK
  <2> HIDE DEF p
  <2>3. \E t \in Nat : Numbered(toCP', b.id, p, t)
    BY <1>2, <1>3, <2>2, NumberedPrefix
  <2> QED BY <1>1, <2>1, <2>3 DEF QueueOK, p
<1>7. Fresh(b)' /\ b.conn = conn' => NothingFor(b)'
  <2>1. Fresh(b)' => Fresh(b)
    BY <1>1 DEF Fresh
  <2>2. \A k \in 1 .. Len(toCP') : k \in 1 .. Len(toCP) /\ toCP'[k] = toCP[k]
    BY <1>2, <1>3
  <2> QED BY <1>1, <1>3, <2>1, <2>2 DEF FlowOK, NothingFor
<1> QED BY <1>4, <1>5, <1>6, <1>7 DEF FlowOK

\* Init establishes FlowInv.
LEMMA FlowInit == Init => FlowInv
<1> SUFFICES ASSUME Init, NEW b \in Bridge PROVE FlowOK(b)
  BY DEF FlowInv
<1>1. /\ got[b] = <<>> /\ messages[b] = <<>> /\ toCP = <<>> /\ ~Held(b)
      /\ b \notin bridges
  BY DEF Init, Held
<1>2. ChannelOK(b) /\ NothingFor(b)
  BY <1>1 DEF ChannelOK, NothingFor
<1>3. ~Wanted(b) /\ \A i \in 1 .. Len(got[b]) : got[b][i] = i
  BY <1>1 DEF Wanted
<1> QED BY <1>2, <1>3 DEF FlowOK

\* What every case of FlowStep starts from.
FlowHyp ==
  /\ TypeInv /\ LifeInv /\ NoOrphanBridge /\ FreshInv /\ RelayInv /\ SockInv
  /\ FlowInv

\* The goroutines of the proxy: OpenWS, Close and the relay.
LEMMA FlowProxy ==
  ASSUME FlowHyp, Next, NEW b \in Bridge, NEW d \in Bridge,
         OpenRegister \/ Opener(d) \/ SendFails(d) \/ BrowserGone(d) \/ Relay(d)
  PROVE  FlowOK(b)'
<1> USE DEF linkVars, connVars, readVars, proxyVars, chanVars, nodeVars
<1>h. /\ TypeInv /\ NoOrphanBridge /\ FreshInv /\ RelayInv /\ FlowOK(b)
  BY DEF FlowHyp, FlowInv
<1>f. Fresh(b)' => Fresh(b)
  BY <1>h, FreshBefore
<1>t. /\ got \in [Bridge -> Seq(1 .. MaxMsgs)]
      /\ messages \in [Bridge -> Seq(1 .. MaxMsgs)]
      /\ relay \in [Bridge -> {"none", "running", "exited"}]
  BY <1>h DEF TypeInv, ProxyType, ChanType
<1>q. ASSUME UNCHANGED <<conn, link, toCP, strays, sent, reader, hand>>,
             UNCHANGED <<got[b], messages[b]>>,
             relay'[b] # "exited" => relay[b] # "exited",
             b \in bridges' => b \in bridges
      PROVE  FlowOK(b)'
  <2>1. Held(b)' = Held(b)
    BY <1>q DEF Held
  <2> QED BY <1>h, <1>f, <1>q, <2>1, FlowKept
<1>1. CASE OpenRegister
  <2> DEFINE e == Here(nextID + 1)
  <2>1. CASE b = e
    BY <1>h, <1>1, <2>1, FlowRegistered
  <2>2. CASE b # e
    <3>1. /\ UNCHANGED <<conn, link, toCP, strays, sent, reader, hand, got, messages, relay>>
          /\ bridges' = bridges \cup {e}
      BY <1>1 DEF OpenRegister
    <3> HIDE DEF e
    <3> QED BY <1>q, <2>2, <3>1
  <2> QED BY <2>1, <2>2
<1>2. CASE OpenUp(d)
  <2>1. /\ UNCHANGED <<conn, link, toCP, strays, sent, reader, hand, got, messages, bridges>>
        /\ open[d] = "select" /\ relay' = [relay EXCEPT ![d] = "running"]
    BY <1>2 DEF OpenUp
  <2>2. relay[d] = "none"
    BY <1>h, <2>1 DEF RelayInv
  <2>3. relay'[b] # "exited" => relay[b] # "exited"
    BY <1>t, <2>1, <2>2
  <2> QED BY <1>q, <2>1, <2>3
<1>3. CASE \/ OpenWrite(d) \/ OpenDisconnected(d) \/ CloseDrops(d)
           \/ OpenCancelled(d) \/ OpenTimeout(d) \/ BridgeReturns(d)
           \/ SendFails(d) \/ BrowserGone(d)
  <2>1. /\ UNCHANGED <<conn, link, toCP, strays, sent, reader, hand, got, messages, relay>>
        /\ bridges' \subseteq bridges
    BY <1>3 DEF OpenWrite, OpenDisconnected, CloseDrops, OpenCancelled,
      OpenTimeout, BridgeReturns, SendFails, CloseWrites, BrowserGone, DropBridge
  <2> QED BY <1>q, <2>1
<1>4. CASE RelayCopies(d)
  <2>1. CASE d = b
    BY <1>h, <1>4, <2>1, FlowRelay
  <2>2. CASE d # b
    <3>1. /\ UNCHANGED <<conn, link, toCP, strays, sent, reader, hand, bridges>>
          /\ messages' = [messages EXCEPT ![d] = Tail(@)]
          /\ relay' = relay \/ relay' = [relay EXCEPT ![d] = "exited"]
          /\ got' = got \/ got' = [got EXCEPT ![d] = Append(@, Head(messages[d]))]
      BY <1>4 DEF RelayCopies
    <3>2. UNCHANGED <<got[b], messages[b], relay[b]>>
      BY <1>t, <2>2, <3>1
    <3> QED BY <1>q, <3>1, <3>2
  <2> QED BY <2>1, <2>2
<1>5. CASE RelayEnds(d)
  <2>1. /\ UNCHANGED <<conn, link, toCP, strays, sent, reader, hand, bridges, got, messages>>
        /\ relay' = [relay EXCEPT ![d] = "exited"]
    BY <1>5 DEF RelayEnds
  <2>2. relay'[b] # "exited" => relay[b] # "exited"
    BY <1>t, <2>1
  <2> QED BY <1>q, <2>1, <2>2
<1> QED BY <1>1, <1>2, <1>3, <1>4, <1>5 DEF Opener, Relay

\* The read loop.
LEMMA FlowReader ==
  ASSUME FlowHyp, Next, NEW b \in Bridge, Reader
  PROVE  FlowOK(b)'
<1> USE DEF linkVars, connVars, readVars, proxyVars, chanVars, nodeVars
<1>h. /\ TypeInv /\ LinkType /\ NoOrphanBridge /\ FreshInv /\ FlowOK(b)
  BY DEF FlowHyp, FlowInv, TypeInv
<1>f. Fresh(b)' => Fresh(b)
  BY <1>h, FreshBefore
<1>1. CASE DispatchUp \/ DispatchClose \/ DispatchErr
  <2>1. /\ UNCHANGED <<conn, link, strays, sent, reader, hand, got, messages, relay>>
        /\ bridges' \subseteq bridges
        /\ toCP # <<>> /\ toCP' = Tail(toCP) /\ Head(toCP).t # "msg"
    BY <1>1 DEF DispatchUp, DispatchClose, DispatchErr, DropBridge, Incoming
  <2>2. Held(b)' = Held(b) /\ ~IsMsg(Head(toCP), b.id)
    BY <2>1 DEF Held, IsMsg
  <2> QED BY <1>h, <1>f, <2>1, <2>2, FlowKept
<1>2. CASE DispatchMsg
  <2>1. /\ UNCHANGED <<conn, link, strays, sent, got, messages, relay, bridges>>
        /\ toCP # <<>> /\ toCP' = Tail(toCP) /\ Head(toCP).t = "msg"
        /\ reader = "read"
        /\ IF From \notin bridges THEN UNCHANGED <<reader, hand>>
           ELSE reader' = "send" /\ hand' = [to |-> From, n |-> Head(toCP).n]
    BY <1>2 DEF DispatchMsg, Incoming
  <2>2. CASE b = From /\ b \in bridges
    BY <1>h, <1>2, <2>2, FlowTake
  <2>3. CASE b = From /\ b \notin bridges
    <3>0. toCP \in Seq(NodeFrame)
      BY <1>h DEF LinkType
    <3>1. /\ reader' = "read" /\ ~Held(b) /\ ~Held(b)' /\ ~Wanted(b)'
      BY <2>1, <2>3 DEF Held, Wanted
    <3>2. CASE Fouled(b)
      <4>1. Fouled(b)'
        BY <2>1, <3>2 DEF Fouled
      <4> QED BY <4>1 DEF FlowOK
    <3>3. CASE ~Fouled(b)
      <4>1. Head(toCP) = toCP[1] /\ 1 \in 1 .. Len(toCP) /\ IsMsg(Head(toCP), b.id)
            /\ b.conn = conn
        BY <1>h, <2>1, <2>3, <3>0, TakeType, QueueTypes DEF IsMsg
      <4>2. ~Fresh(b)
        BY <3>3, <4>1, <1>h DEF FlowOK, NothingFor
      <4>3. \A i \in 1 .. Len(got'[b]) : got'[b][i] = i
        BY <1>h, <2>1, <3>3 DEF FlowOK
      <4>4. relay'[b] # "exited" => ChannelOK(b)'
        BY <1>h, <2>1, <3>1, <3>3 DEF FlowOK, ChannelOK
      <4> QED BY <1>f, <3>1, <4>2, <4>3, <4>4 DEF FlowOK
    <3> QED BY <3>2, <3>3
  <2>4. CASE b # From
    <3>1. b.conn = conn => ~IsMsg(Head(toCP), b.id)
      BY <1>h, <2>1, <2>4, TakeType, BridgeTypes DEF IsMsg
    <3>2. ~Held(b) /\ ~Held(b)'
      BY <2>1, <2>4 DEF Held
    <3> QED BY <1>h, <1>f, <2>1, <3>1, <3>2, FlowKept
  <2> QED BY <2>2, <2>3, <2>4
<1>3. CASE SendMsg
  <2>1. CASE b = hand.to
    BY <1>h, <1>3, <2>1, FlowSend
  <2>2. CASE b # hand.to
    <3>1. /\ UNCHANGED <<conn, link, toCP, strays, sent, got, relay, bridges>>
          /\ messages' = [messages EXCEPT ![hand.to] = Append(@, hand.n)]
          /\ reader = "send" /\ reader' = "read"
      BY <1>3 DEF SendMsg
    <3>2. messages'[b] = messages[b]
      BY <1>h, <2>2, <3>1 DEF TypeInv, ChanType
    <3>3. ~Held(b) /\ ~Held(b)'
      BY <2>2, <3>1 DEF Held
    <3> QED BY <1>h, <1>f, <3>1, <3>2, <3>3, FlowKept
  <2> QED BY <2>1, <2>2
<1>4. CASE \/ SendPanics \/ ReadError \/ ShutdownDrain \/ ShutdownDone
           \/ \E d \in Bridge : ShutdownClose(d)
  <2>1. /\ UNCHANGED <<conn, link, toCP, strays, sent, got, relay, messages>>
        /\ bridges' \subseteq bridges
        /\ reader' \notin {"read", "send"}
    BY <1>4 DEF SendPanics, ReadError, ShutdownDrain, ShutdownDone, ShutdownClose
  <2>2. ~Held(b)'
    BY <2>1 DEF Held
  <2> QED BY <1>h, <1>f, <2>1, <2>2, FlowKept
<1> QED BY <1>1, <1>2, <1>3, <1>4 DEF Reader

\* The node, and the uplink itself.
LEMMA FlowNode ==
  ASSUME FlowHyp, Next, NEW b \in Bridge, NEW d \in Bridge,
         NodeOpen \/ NodeClose \/ Socket(d) \/ LinkDrops \/ Reconnect
  PROVE  FlowOK(b)'
<1> USE DEF linkVars, connVars, readVars, proxyVars, chanVars, nodeVars
<1>h. /\ TypeInv /\ LinkType /\ LifeInv /\ NoOrphanBridge /\ FreshInv /\ SockInv
      /\ FlowOK(b)
  BY DEF FlowHyp, FlowInv, TypeInv
<1>f. Fresh(b)' => Fresh(b)
  BY <1>h, FreshBefore
<1>q. ASSUME UNCHANGED <<conn, link, strays, reader, hand, bridges, got, messages, relay>>,
             sent'[b] = sent[b], NEW f \in NodeFrame, f.t = "msg" =>
               (b.conn = conn => ~IsMsg(f, b.id)),
             toCP' = toCP \/ NodeSend(f)
      PROVE  FlowOK(b)'
  <2>1. Held(b)' = Held(b) /\ (b.conn = conn => ~IsMsg(f, b.id))
    BY <1>q DEF Held, IsMsg
  <2>2. toCP' = toCP \/ toCP' = Append(toCP, f)
    BY <1>q DEF NodeSend
  <2> QED BY <1>h, <1>f, <1>q, <2>1, <2>2, FlowKept
<1>1. CASE NodeOpen
  <2> DEFINE f == frame("err", Head(toNode).id, 0)
  <2>0. toNode # <<>>
    BY <1>1 DEF NodeOpen, FromCP
  <2>1. Here(Head(toNode).id).id = Head(toNode).id
    BY <1>h, <2>0, NodeTakeType
  <2>2. /\ UNCHANGED <<conn, link, strays, reader, hand, bridges, got, messages, relay, sent>>
        /\ toCP' = toCP \/ NodeSend(f)
    BY <1>1, <2>1 DEF NodeOpen
  <2>3. f \in NodeFrame /\ f.t = "err"
    BY <1>h, <2>0, NodeTakeType, FrameTypes, FrameFields
  <2> HIDE DEF f
  <2> QED BY <1>q, <2>2, <2>3
<1>2. CASE NodeClose
  <2>1. /\ UNCHANGED <<conn, link, strays, reader, hand, bridges, got, messages, relay, sent>>
        /\ toCP' = toCP
    BY <1>2 DEF NodeClose
  <2>2. Held(b)' = Held(b)
    BY <2>1 DEF Held
  <2> QED BY <1>h, <1>f, <2>1, <2>2, FlowKept
<1>3. CASE NodeUp(d) \/ NodeClosed(d)
  <2>1. /\ UNCHANGED <<conn, link, strays, reader, hand, bridges, got, messages, relay, sent>>
        /\ \E t \in {"up", "close"} : NodeSend(frame(t, d.id, 0))
    BY <1>3 DEF NodeUp, NodeClosed
  <2>2. PICK t \in {"up", "close"} : NodeSend(frame(t, d.id, 0))
    BY <2>1
  <2>3. frame(t, d.id, 0) \in NodeFrame /\ frame(t, d.id, 0).t # "msg"
    BY BridgeTypes, FrameTypes, FrameFields
  <2> QED BY <1>q, <2>1, <2>2, <2>3
<1>4. CASE NodeMsg(d)
  <2>1. CASE d = b
    BY <1>h, <1>4, <2>1, FlowSent
  <2>2. CASE d # b
    <3> DEFINE f == frame("msg", d.id, sent[d] + 1)
    <3>1. /\ UNCHANGED <<conn, link, strays, reader, hand, bridges, got, messages, relay>>
          /\ sock[d] = "open" /\ sent[d] < MaxMsgs
          /\ sent' = [sent EXCEPT ![d] = @ + 1] /\ NodeSend(f)
      BY <1>4 DEF NodeMsg
    <3>2. sent'[b] = sent[b] /\ sent[d] + 1 \in 1 .. MaxMsgs
      BY <1>h, <2>2, <3>1, Bounds DEF TypeInv, NodeType
    <3>3. f \in NodeFrame /\ f.id = d.id
      BY <3>2, BridgeTypes, FrameTypes, FrameFields
    <3> HIDE DEF f
    <3>4. CASE b.conn # conn \/ d.id # b.id
      BY <1>q, <3>1, <3>2, <3>3, <3>4 DEF IsMsg
    <3>5. CASE b.conn = conn /\ d.id = b.id
      <4>1. d.conn # conn
        BY <2>2, <3>5, BridgeTypes
      <4>2. d \in strays
        BY <1>h, <3>1, <4>1 DEF SockInv
      <4>3. d.conn < conn
        <5>1. ~Fresh(d)
          BY <1>h, <3>1 DEF FreshInv, Untouched
        <5>2. conn \in Int /\ d.conn \in Int
          BY <1>h, BridgeTypes, Bounds DEF LinkType
        <5> QED BY <4>1, <5>1, <5>2 DEF Fresh
      <4>4. Fouled(b)'
        BY <3>1, <3>5, <4>2, <4>3 DEF Fouled
      <4> QED BY <4>4 DEF FlowOK
    <3> QED BY <3>4, <3>5
  <2> QED BY <2>1, <2>2
<1>5. CASE LinkDrops
  BY <1>h, <1>5, FlowDropped
<1>6. CASE Reconnect
  <2>1. /\ UNCHANGED <<strays, hand, bridges, got, messages, relay>>
        /\ toCP' = <<>> /\ reader = "returned" /\ reader' = "read"
    BY <1>6 DEF Reconnect
  <2>2. bridges = {}
    BY <1>h, <2>1 DEF LifeInv, NoOrphanBridge
  <2>3. ~Held(b)' /\ ~Wanted(b)' /\ NothingFor(b)'
    BY <2>1, <2>2 DEF Held, Wanted, NothingFor
  <2>4. CASE Fouled(b)
    <3>1. Fouled(b)'
      BY <2>1, <2>4 DEF Fouled
    <3> QED BY <3>1 DEF FlowOK
  <2>5. CASE ~Fouled(b)
    <3>1. \A i \in 1 .. Len(got'[b]) : got'[b][i] = i
      BY <1>h, <2>1, <2>5 DEF FlowOK
    <3>2. relay'[b] # "exited" => ChannelOK(b)'
      BY <1>h, <2>1, <2>3, <2>5 DEF FlowOK, ChannelOK
    <3> QED BY <2>3, <3>1, <3>2 DEF FlowOK
  <2> QED BY <2>4, <2>5
<1> QED BY <1>1, <1>2, <1>3, <1>4, <1>5, <1>6 DEF Socket

\* Every action preserves FlowInv.
LEMMA FlowStep == FlowHyp /\ [Next]_vars => FlowInv'
<1> SUFFICES ASSUME FlowHyp, [Next]_vars, NEW b \in Bridge PROVE FlowOK(b)'
  BY DEF FlowInv
<1>1. CASE UNCHANGED vars
  <2>1. FlowOK(b)
    BY DEF FlowHyp, FlowInv
  <2> USE DEF vars, linkVars, connVars, readVars, proxyVars, chanVars, nodeVars
  <2>2. /\ (Fouled(b) <=> Fouled(b)') /\ (Held(b) <=> Held(b)')
        /\ (Fresh(b) <=> Fresh(b)') /\ (Wanted(b) <=> Wanted(b)')
        /\ (NothingFor(b) <=> NothingFor(b)')
    BY <1>1 DEF Fouled, Held, Fresh, Wanted, NothingFor
  <2>3. (ChannelOK(b) <=> ChannelOK(b)') /\ Passed(b)' = Passed(b)
    BY <1>1, <2>2 DEF ChannelOK, Passed
  <2>4. QueueOK(b) <=> QueueOK(b)'
    BY <1>1, <2>3 DEF QueueOK
  <2> QED BY <1>1, <2>1, <2>2, <2>3, <2>4 DEF FlowOK
<1>2. CASE Next
  BY <1>2, FlowProxy, FlowReader, FlowNode DEF Next
<1> QED BY <1>1, <1>2

-----------------------------------------------------------------------------
(* Who still waits for whom.                                               *)

\* A handler that has yet to return from OpenWS, to relay or to drop its bridge.
HeldStates == {"write", "select", "up", "dropping"}

\* A bridge that a handler holds is in the map, on shutdown's list or closed; one
\* in the map has its handler; shutdown's list is of the connection it ends.
HeldInv ==
  /\ \A b \in Bridge : open[b] \in HeldStates =>
       b \in bridges \/ b \in live \/ closes[b] > 0
  /\ \A b \in bridges : open[b] \in HeldStates
  /\ reader = "send" => hand.to \in bridges \/ closes[hand.to] > 0
  /\ live # {} => reader = "closing"
  /\ \A b \in live : b.conn = conn
  /\ conn \in done => reader = "returned"

\* dropBridge keeps it, whether the handler ends with it or not.
LEMMA HeldDropped ==
  ASSUME TypeInv, HeldInv, NEW b \in Bridge, DropBridge(b),
         NEW s \in {"keep", "failed", "closed"},
         open' = IF s = "keep" THEN open ELSE [open EXCEPT ![b] = s],
         UNCHANGED <<conn, live, done, reader, hand>>
  PROVE  HeldInv'
<1>1. /\ closes \in [Bridge -> Nat] /\ open \in [Bridge -> OpenStates]
      /\ bridges \subseteq Bridge
      /\ reader = "send" => hand.to \in Bridge
  BY DEF TypeInv, ChanType, ProxyType, ConnType, ReadType
<1>2. /\ \A d \in Bridge : d # b => closes'[d] = closes[d] /\ open'[d] = open[d]
      /\ bridges' = bridges \ {b}
      /\ b \in bridges => closes'[b] > 0
      /\ b \notin bridges => closes'[b] = closes[b]
      /\ open'[b] \in {open[b], "failed", "closed"}
  BY <1>1 DEF DropBridge
<1> QED BY <1>1, <1>2 DEF HeldInv, HeldStates

\* Every action preserves HeldInv.
LEMMA HeldStep ==
  TypeInv /\ LifeInv /\ NoOrphanBridge /\ HeldInv /\ [Next]_vars => HeldInv'
<1> SUFFICES ASSUME TypeInv, LifeInv, NoOrphanBridge, HeldInv, [Next]_vars
             PROVE  HeldInv'
  OBVIOUS
<1> USE DEF linkVars, connVars, readVars, proxyVars, chanVars, nodeVars
<1>t. /\ closes \in [Bridge -> Nat] /\ open \in [Bridge -> OpenStates]
      /\ bridges \subseteq Bridge /\ live \subseteq Bridge
      /\ reader = "send" => hand.to \in Bridge
  BY DEF TypeInv, ChanType, ProxyType, ConnType, ReadType
<1>0. ASSUME UNCHANGED <<conn, bridges, live, done, closes, reader, hand, open>>
      PROVE  HeldInv'
  BY <1>0 DEF HeldInv
<1>r. ASSUME UNCHANGED <<conn, bridges, live, done, closes, open>>,
             reader \notin {"closing", "returned"},
             reader' = "send" => hand'.to \in bridges
      PROVE  HeldInv'
  BY <1>r DEF HeldInv
<1>s. ASSUME NEW b \in Bridge, NEW s \in HeldStates, open[b] \in HeldStates,
             open' = [open EXCEPT ![b] = s],
             UNCHANGED <<conn, bridges, live, done, closes, reader, hand>>
      PROVE  HeldInv'
  BY <1>s, <1>t DEF HeldInv
<1>1. CASE OpenRegister
  <2> DEFINE b == Here(nextID + 1)
  <2>1. /\ bridges' = bridges \cup {b} /\ open' = [open EXCEPT ![b] = "write"]
        /\ UNCHANGED <<conn, live, done, closes, reader, hand>>
        /\ nextID + 1 \in Id
    BY <1>1, Bounds DEF OpenRegister, TypeInv, ConnType, Id
  <2>2. b \in Bridge
    BY <2>1, BridgeTypes DEF TypeInv, LinkType
  <2> HIDE DEF b
  <2> QED BY <1>t, <2>1, <2>2 DEF HeldInv, HeldStates
<1>2. ASSUME NEW b \in Bridge, OpenWrite(b) PROVE HeldInv'
  <2>1. CASE Connected(b)
    BY <1>2, <1>s, <2>1 DEF OpenWrite, HeldStates
  <2>2. CASE ~Connected(b)
    BY <1>2, <2>2, HeldDropped DEF OpenWrite
  <2> QED BY <2>1, <2>2
<1>3. ASSUME NEW b \in Bridge, OpenDisconnected(b) \/ CloseDrops(b) PROVE HeldInv'
  BY <1>3, HeldDropped DEF OpenDisconnected, CloseDrops
<1>4. ASSUME NEW b \in Bridge,
             OpenUp(b) \/ OpenCancelled(b) \/ OpenTimeout(b) \/ BridgeReturns(b)
               \/ SendFails(b)
      PROVE  HeldInv'
  BY <1>4, <1>s DEF OpenUp, OpenCancelled, OpenTimeout, BridgeReturns, SendFails,
    CloseWrites, HeldStates
<1>5. ASSUME NEW b \in Bridge,
             BrowserGone(b) \/ RelayCopies(b) \/ RelayEnds(b) \/ NodeUp(b)
               \/ NodeMsg(b) \/ NodeClosed(b)
      PROVE  HeldInv'
  BY <1>0, <1>5 DEF BrowserGone, RelayCopies, RelayEnds, NodeUp, NodeMsg, NodeClosed
<1>6. CASE DispatchClose
  <2>1. From \in Bridge
    BY <1>6, TakeType DEF DispatchClose, Incoming, TypeInv
  <2> QED BY <1>6, <2>1, HeldDropped DEF DispatchClose
<1>7. CASE DispatchMsg
  BY <1>7, <1>r DEF DispatchMsg, Incoming
<1>8. CASE SendMsg \/ SendPanics \/ ReadError
  BY <1>8, <1>r DEF SendMsg, SendPanics, ReadError
<1>9. CASE DispatchUp \/ DispatchErr \/ NodeOpen \/ NodeClose \/ LinkDrops
  BY <1>0, <1>9 DEF DispatchUp, DispatchErr, NodeOpen, NodeClose, LinkDrops
<1>10. CASE ShutdownDrain
  <2>1. /\ live = {} /\ live' = bridges /\ bridges' = {} /\ reader' = "closing"
        /\ conn \notin done /\ UNCHANGED <<conn, done, closes, open>>
    BY <1>10 DEF ShutdownDrain, HeldInv
  <2> QED BY <2>1 DEF HeldInv, NoOrphanBridge
<1>11. ASSUME NEW b \in Bridge, ShutdownClose(b) PROVE HeldInv'
  BY <1>11, <1>t DEF ShutdownClose, HeldInv
<1>12. CASE ShutdownDone
  BY <1>12 DEF ShutdownDone, HeldInv
<1>13. CASE Reconnect
  <2>1. /\ reader = "returned" /\ conn' = conn + 1 /\ reader' = "read"
        /\ UNCHANGED <<bridges, live, done, closes, open>>
    BY <1>13 DEF Reconnect
  <2>2. conn + 1 \notin done
    BY Bounds DEF TypeInv, LinkType, ConnType, LifeInv
  <2> QED BY <2>1, <2>2 DEF HeldInv
<1>14. CASE UNCHANGED vars
  BY <1>0, <1>14 DEF vars
<1> QED BY <1>1, <1>2, <1>3, <1>4, <1>5, <1>6, <1>7, <1>8, <1>9, <1>10, <1>11,
           <1>12, <1>13, <1>14 DEF Next, Opener, Relay, Reader, Socket

-----------------------------------------------------------------------------
(* What holds of every run.                                                *)

BridgeInv ==
  /\ TypeInv /\ LifeInv /\ NoOrphanBridge /\ FreshInv /\ CloseInv /\ RelayInv
  /\ SockInv /\ FlowInv

\* The inductive invariant of the bridges: what the code of conn.go, http.go and
\* uplink.ts keeps true of them at every step, whatever the bounds.
THEOREM BridgeInvariant == Spec => []BridgeInv
<1>1. Init => BridgeInv
  BY TypeInit, ConnInit, FlowInit DEF BridgeInv
<1>2. BridgeInv /\ [Next]_vars => BridgeInv'
  <2> SUFFICES ASSUME BridgeInv, [Next]_vars PROVE BridgeInv'
    OBVIOUS
  <2>1. TypeInv' /\ LifeInv' /\ NoOrphanBridge' /\ FreshInv'
    BY TypeStep, LifeStep, FreshStep DEF BridgeInv
  <2>2. CloseInv' /\ RelayInv' /\ SockInv'
    BY CloseStep, RelayStep, SockStep DEF BridgeInv
  <2>3. FlowInv'
    BY FlowStep DEF BridgeInv, FlowHyp
  <2> QED BY <2>1, <2>2, <2>3 DEF BridgeInv
<1> QED BY <1>1, <1>2, PTL DEF Spec

\* The variables keep their types.
THEOREM BridgeTypesHold == Spec => []TypeOK
<1>1. BridgeInv => TypeOK
  BY TypesSuffice DEF BridgeInv
<1> QED BY <1>1, BridgeInvariant, PTL

\* dropBridge, Bridge.Close and shutdown race to close Messages, and never close
\* it twice: the one that took the bridge out of the map closes it.
THEOREM MessagesCloseOnce == Spec => []ClosedOnce
<1>1. BridgeInv => ClosedOnce
  BY DEF BridgeInv, CloseInv
<1> QED BY <1>1, BridgeInvariant, PTL

\* OpenWS against shutdown: no bridge is registered on a connection that is
\* closed or is not the one being served.
THEOREM NoBridgeIsOrphaned == Spec => []NoOrphanBridge
<1>1. BridgeInv => NoOrphanBridge
  BY DEF BridgeInv
<1> QED BY <1>1, BridgeInvariant, PTL

\* shutdown, dropBridge and dispatch: nobody waits on a connection that is gone,
\* and the read loop for nobody.
THEOREM NobodyWaitsHolds == Spec => []NobodyWaitsOnABridge
<1>1. Init => HeldInv
  BY DEF Init, HeldInv, HeldStates
<1>2. BridgeInv /\ HeldInv /\ [Next]_vars => HeldInv'
  BY HeldStep DEF BridgeInv
<1>3. BridgeInv /\ HeldInv => NobodyWaitsOnABridge
  <2> SUFFICES ASSUME BridgeInv, HeldInv PROVE NobodyWaitsOnABridge
    OBVIOUS
  <2>1. ASSUME NEW b \in Bridge, open[b] \in {"write", "select", "up"},
               b.conn \in done
        PROVE  closes[b] > 0
    <3>1. b \notin bridges
      BY <2>1 DEF BridgeInv, TypeInv, ConnType, NoOrphanBridge
    <3>2. b \notin live
      BY <2>1 DEF HeldInv
    <3> QED BY <2>1, <3>1, <3>2 DEF HeldInv, HeldStates
  <2>2. reader = "send" => closes[hand.to] > 0 \/ open[hand.to] \in HeldStates
    BY DEF HeldInv
  <2> QED BY <2>1, <2>2 DEF NobodyWaitsOnABridge, HeldStates
<1> QED BY <1>1, <1>2, <1>3, BridgeInvariant, PTL DEF Spec

\* dispatch and bridgeOpen: a browser receives its own socket's messages, in
\* order and without gaps, over any number of connections that reuse the ids,
\* unless a socket of an earlier one outlived its uplink.
THEOREM BridgesKeepOrder == Spec => []BridgeIntegrity
<1>1. BridgeInv => BridgeIntegrity
  BY DEF BridgeInv, FlowInv, FlowOK, BridgeIntegrity
<1> QED BY <1>1, BridgeInvariant, PTL
=============================================================================

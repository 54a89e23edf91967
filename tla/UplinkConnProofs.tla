-------------------------- MODULE UplinkConnProofs --------------------------
(***************************************************************************)
(* TLAPS proofs about UplinkConn, for any set of requests, any number of   *)
(* chunks, any buffer size and a node that may mis-sequence its frames.    *)
(***************************************************************************)
EXTENDS UplinkRefinement, TLAPS

-----------------------------------------------------------------------------
(* The inductive invariant.                                                *)

\* TypeOK, and dispatch holds a chunk for a request while it sends.
TypeInv == TypeOK /\ (reader = "send" => hand \in [id : Req, item : Item])

\* Where the read loop is, against the flags that shutdown sets: live is the
\* list of a shutdown under way, and is empty again when done closes.
LifeInv ==
  /\ closed <=> reader \in {"closing", "stopped", "returned"}
  /\ done <=> reader \in {"stopped", "returned"}
  /\ reader # "closing" => live = {}
  /\ panicked => reader \notin {"read", "send"}

\* A request that was registered is still so, or shutdown holds it, or its
\* chunks are closed.
ReleaseInv ==
  \A r \in Req : do[r] \notin {"idle", "refused"}
                 => r \in pending \/ r \in live \/ chunksClosed[r]

\* A pump and a body exist only after Do returned a head.
BodyInv ==
  \A r \in Req : do[r] # "head" => pump[r] = "none" /\ body[r] = "none"

\* A req frame is sent once, and the node takes it up once: one still in
\* flight, or not yet written, finds the node idle.
ReqInv ==
  /\ \A r \in Req : do[r] \in {"idle", "write"} => node[r] = "idle"
  /\ \A i \in 1 .. Len(toNode) : toNode[i].t = "req" =>
       node[toNode[i].id] = "idle" /\ do[toNode[i].id] \notin {"idle", "write"}
  /\ \A i, j \in 1 .. Len(toNode) :
       toNode[i].t = "req" /\ toNode[j].t = "req" /\ toNode[i].id = toNode[j].id
       => i = j

\* An end frame tells the truth about the node that sent it.
FrameInv ==
  \A i \in 1 .. Len(toCP) : toCP[i].t = "end" =>
     node[toCP[i].id] = "ended" /\ toCP[i].chunks = produced[toCP[i].id]

\* What dispatch holds: the last chunk it counted, or the nil of a response
\* whose chunks it has all counted.
HandInv ==
  reader = "send" =>
    IF hand.item = Nil
    THEN node[hand.id] = "ended" /\ nextSeq[hand.id] = produced[hand.id]
    ELSE hand.item = nextSeq[hand.id] - 1

\* Chunks the pump has taken out of the channel.
Taken(r) == IF pump[r] = "write" THEN Len(delivered[r]) + 1
            ELSE Len(delivered[r])

\* One in flight between lookup and send, if it is a chunk of r.
Held(r) == IF reader = "send" /\ hand.id = r /\ hand.item # Nil THEN 1 ELSE 0

\* Up to its first nil the channel holds consecutive chunks, starting with the
\* one after those taken; that nil stands right after the node's last chunk.
ChannelOK(r) ==
  pump[r] # "exited" =>
    \A i \in 1 .. Len(chunks[r]) :
      (\A j \in 1 .. i - 1 : chunks[r][j] # Nil) =>
        IF chunks[r][i] = Nil
        THEN node[r] = "ended" /\ produced[r] = Taken(r) + i - 1
        ELSE chunks[r][i] = Taken(r) + i - 1

\* nextSeq counts the chunks that were taken, wait in the channel or are held.
CountOK(r) ==
  (/\ pump[r] # "exited" /\ ~panicked
   /\ \A j \in 1 .. Len(chunks[r]) : chunks[r][j] # Nil)
  => nextSeq[r] = Taken(r) + Len(chunks[r]) + Held(r)

\* The chunk the pump is writing is the next one of the body, and the body is
\* not at its end.
WritingOK(r) ==
  /\ pump[r] = "write" => item[r] = Len(delivered[r])
  /\ body[r] = "eof" => pump[r] = "exited"

\* StreamIntegrity and CleanEOF, of one request.
DeliveredOK(r) ==
  /\ \A i \in 1 .. Len(delivered[r]) : delivered[r][i] = i - 1
  /\ body[r] = "eof" => node[r] = "ended" /\ Len(delivered[r]) = produced[r]

ResponseOK(r) == ChannelOK(r) /\ CountOK(r) /\ WritingOK(r) /\ DeliveredOK(r)

StreamInv == FrameInv /\ HandInv /\ \A r \in Req : ResponseOK(r)

-----------------------------------------------------------------------------
(* Types.                                                                  *)

\* The frames each side writes are frames, and what a frame carries.
LEMMA FrameTypes ==
  /\ \A r \in Req : /\ [t |-> "req", id |-> r] \in ToNodeFrame
                    /\ [t |-> "cancel", id |-> r] \in ToNodeFrame
                    /\ [t |-> "head", id |-> r] \in ToCPFrame
                    /\ [t |-> "err", id |-> r] \in ToCPFrame
  /\ \A r \in Req, n \in 0 .. MaxChunks :
       /\ [t |-> "data", id |-> r, seq |-> n] \in ToCPFrame
       /\ [t |-> "end", id |-> r, chunks |-> n] \in ToCPFrame
  /\ \A f \in ToNodeFrame : f.id \in Req
  /\ \A f \in ToCPFrame : /\ f.id \in Req
                          /\ f.t = "data" => f.seq \in 0 .. MaxChunks
                          /\ f.t = "end" => f.chunks \in 0 .. MaxChunks
BY DEF ToNodeFrame, ToCPFrame

\* The empty queue is a queue.
LEMMA EmptyType == /\ <<>> \in Seq(ToNodeFrame) /\ <<>> \in Seq(ToCPFrame)
                   /\ <<>> \in Seq(Item)
OBVIOUS

\* write keeps the queue toward the node well typed.
LEMMA WriteType == ASSUME LinkType, NEW f \in ToNodeFrame, Write(f)
                   PROVE toNode' \in Seq(ToNodeFrame)
BY DEF LinkType, Write

\* send keeps the queue toward the control plane well typed.
LEMMA SendType == ASSUME LinkType, NEW f \in ToCPFrame, NodeSend(f)
                  PROVE toCP' \in Seq(ToCPFrame)
BY DEF LinkType, NodeSend

\* What is read from a queue is a frame, and a queue remains.
LEMMA ReceiveType ==
  ASSUME LinkType
  PROVE /\ toCP # <<>> => /\ Head(toCP) \in ToCPFrame
                         /\ Tail(toCP) \in Seq(ToCPFrame)
        /\ toNode # <<>> => /\ Head(toNode) \in ToNodeFrame
                           /\ Tail(toNode) \in Seq(ToNodeFrame)
BY DEF LinkType

\* Init establishes the type invariant.
LEMMA TypeInit == Init => TypeInv
<1> SUFFICES ASSUME Init PROVE TypeInv
  OBVIOUS
<1>1. LinkType /\ ConnType
  BY EmptyType DEF Init, LinkType, ConnType
<1>2. ReadType /\ CallType
  BY DEF Init, ReadType, CallType, ReaderStates, DoStates
<1>3. ChanType /\ NodeType
  BY BoundsAssumption DEF Init, ChanType, NodeType, NodeStates
<1>4. PumpType
  BY DEF Init, PumpType, PumpStates, BodyStates, Item
<1> QED BY <1>1, <1>2, <1>3, <1>4 DEF Init, TypeInv, TypeOK

\* Every action preserves the type invariant.
LEMMA TypeStep == TypeInv /\ [Next]_vars => TypeInv'
<1> SUFFICES ASSUME TypeInv, [Next]_vars PROVE TypeInv'
  OBVIOUS
<1> USE BoundsAssumption
    DEF TypeInv, TypeOK, Item, Nil, ReaderStates, DoStates, PumpStates,
        BodyStates, NodeStates
<1>1. ASSUME NEW r \in Req, DoRegister(r) PROVE TypeInv'
  <2>1. LinkType' /\ ReadType' /\ ChanType' /\ PumpType' /\ NodeType'
    BY <1>1 DEF DoRegister, LinkType, linkVars, ReadType, readVars, ChanType,
      chanVars, PumpType, pumpVars, NodeType, nodeVars
  <2>2. ConnType'
    BY <1>1 DEF DoRegister, Refused, ConnType
  <2>3. CallType'
    BY <1>1 DEF DoRegister, Refused, CallType
  <2>4. reader' = "send" => hand' \in [id : Req, item : Item]
    BY <1>1 DEF DoRegister, readVars
  <2> QED BY <2>1, <2>2, <2>3, <2>4
<1>2. ASSUME NEW r \in Req, CtxDone(r) PROVE TypeInv'
  <2>1. LinkType' /\ ConnType' /\ ReadType' /\ ChanType' /\ PumpType'
        /\ NodeType'
    BY <1>2 DEF CtxDone, LinkType, linkVars, ConnType, connVars, ReadType,
      readVars, ChanType, chanVars, PumpType, pumpVars, NodeType, nodeVars
  <2>2. CallType'
    BY <1>2 DEF CtxDone, CallType
  <2>3. reader' = "send" => hand' \in [id : Req, item : Item]
    BY <1>2 DEF CtxDone, readVars
  <2> QED BY <2>1, <2>2, <2>3
<1>3. ASSUME NEW r \in Req, BodyClose(r) PROVE TypeInv'
  <2>1. ConnType' /\ ReadType' /\ CallType' /\ ChanType' /\ NodeType'
    BY <1>3 DEF BodyClose, ConnType, connVars, ReadType, readVars, CallType,
      callVars, ChanType, chanVars, NodeType, nodeVars
  <2>2. LinkType'
    BY <1>3, WriteType, FrameTypes DEF BodyClose, Cancel, LinkType
  <2>3. PumpType'
    BY <1>3 DEF BodyClose, Cancel, Write, PumpType
  <2>4. reader' = "send" => hand' \in [id : Req, item : Item]
    BY <1>3 DEF BodyClose, readVars
  <2> QED BY <2>1, <2>2, <2>3, <2>4
<1>4. ASSUME NEW r \in Req, DoWrite(r) PROVE TypeInv'
  <2>1. ReadType' /\ PumpType' /\ NodeType'
    BY <1>4 DEF DoWrite, ReadType, readVars, PumpType, pumpVars, NodeType,
      nodeVars
  <2>2. LinkType'
    BY <1>4, WriteType, FrameTypes DEF DoWrite, LinkType
  <2>3. ConnType'
    BY <1>4 DEF DoWrite, Write, Settle, ConnType
  <2>4. CallType'
    BY <1>4 DEF DoWrite, Write, Settle, CallType
  <2>5. ChanType'
    BY <1>4 DEF DoWrite, Write, Settle, ChanType
  <2>6. reader' = "send" => hand' \in [id : Req, item : Item]
    BY <1>4 DEF DoWrite, readVars
  <2> QED BY <2>1, <2>2, <2>3, <2>4, <2>5, <2>6
<1>5. ASSUME NEW r \in Req, DoCancelled(r) PROVE TypeInv'
  <2>1. ConnType' /\ ReadType' /\ ChanType' /\ PumpType' /\ NodeType'
    BY <1>5 DEF DoCancelled, ConnType, connVars, ReadType, readVars, ChanType,
      chanVars, PumpType, pumpVars, NodeType, nodeVars
  <2>2. LinkType'
    BY <1>5, WriteType, FrameTypes DEF DoCancelled, Cancel, LinkType
  <2>3. CallType'
    BY <1>5 DEF DoCancelled, Cancel, Write, CallType
  <2>4. reader' = "send" => hand' \in [id : Req, item : Item]
    BY <1>5 DEF DoCancelled, readVars
  <2> QED BY <2>1, <2>2, <2>3, <2>4
<1>6. ASSUME NEW r \in Req, DoDisconnected(r) PROVE TypeInv'
  <2>1. LinkType' /\ ReadType' /\ PumpType' /\ NodeType'
    BY <1>6 DEF DoDisconnected, LinkType, linkVars, ReadType, readVars,
      PumpType, pumpVars, NodeType, nodeVars
  <2>2. ConnType'
    BY <1>6 DEF DoDisconnected, Settle, ConnType
  <2>3. CallType'
    BY <1>6 DEF DoDisconnected, Settle, CallType
  <2>4. ChanType'
    BY <1>6 DEF DoDisconnected, Settle, ChanType
  <2>5. reader' = "send" => hand' \in [id : Req, item : Item]
    BY <1>6 DEF DoDisconnected, readVars
  <2> QED BY <2>1, <2>2, <2>3, <2>4, <2>5
<1>7. ASSUME NEW r \in Req, DoFailed(r) PROVE TypeInv'
  <2>1. LinkType' /\ ReadType' /\ PumpType' /\ NodeType'
    BY <1>7 DEF DoFailed, LinkType, linkVars, ReadType, readVars, PumpType,
      pumpVars, NodeType, nodeVars
  <2>2. ConnType'
    BY <1>7 DEF DoFailed, Settle, ConnType
  <2>3. CallType'
    BY <1>7 DEF DoFailed, Settle, CallType
  <2>4. ChanType'
    BY <1>7 DEF DoFailed, Settle, ChanType
  <2>5. reader' = "send" => hand' \in [id : Req, item : Item]
    BY <1>7 DEF DoFailed, readVars
  <2> QED BY <2>1, <2>2, <2>3, <2>4, <2>5
<1>8. ASSUME NEW r \in Req, DoHead(r) PROVE TypeInv'
  <2>1. LinkType' /\ ConnType' /\ ReadType' /\ ChanType' /\ NodeType'
    BY <1>8 DEF DoHead, LinkType, linkVars, ConnType, connVars, ReadType,
      readVars, ChanType, chanVars, NodeType, nodeVars
  <2>2. CallType'
    BY <1>8 DEF DoHead, CallType
  <2>3. PumpType'
    BY <1>8 DEF DoHead, PumpType
  <2>4. reader' = "send" => hand' \in [id : Req, item : Item]
    BY <1>8 DEF DoHead, readVars
  <2> QED BY <2>1, <2>2, <2>3, <2>4
<1>9. ASSUME NEW r \in Req, PumpRecv(r) PROVE TypeInv'
  <2>1. LinkType' /\ ConnType' /\ ReadType' /\ CallType' /\ NodeType'
    BY <1>9 DEF PumpRecv, LinkType, linkVars, ConnType, connVars, ReadType,
      readVars, CallType, callVars, NodeType, nodeVars
  <2>2. ChanType'
    BY <1>9 DEF PumpRecv, ChanType
  <2>3. PumpType'
    BY <1>9 DEF PumpRecv, PumpType, ChanType
  <2>4. reader' = "send" => hand' \in [id : Req, item : Item]
    BY <1>9 DEF PumpRecv, readVars
  <2> QED BY <2>1, <2>2, <2>3, <2>4
<1>10. ASSUME NEW r \in Req, PumpEnd(r) PROVE TypeInv'
  <2>1. LinkType' /\ ReadType' /\ CallType' /\ NodeType'
    BY <1>10 DEF PumpEnd, LinkType, linkVars, ReadType, readVars, CallType,
      callVars, NodeType, nodeVars
  <2>2. ConnType'
    BY <1>10 DEF PumpEnd, Settle, ConnType
  <2>3. ChanType'
    BY <1>10 DEF PumpEnd, Settle, ChanType
  <2>4. PumpType'
    BY <1>10 DEF PumpEnd, Settle, PumpType
  <2>5. reader' = "send" => hand' \in [id : Req, item : Item]
    BY <1>10 DEF PumpEnd, readVars
  <2> QED BY <2>1, <2>2, <2>3, <2>4, <2>5
<1>11. ASSUME NEW r \in Req, PumpClosed(r) PROVE TypeInv'
  <2>1. LinkType' /\ ReadType' /\ CallType' /\ NodeType'
    BY <1>11 DEF PumpClosed, LinkType, linkVars, ReadType, readVars, CallType,
      callVars, NodeType, nodeVars
  <2>2. ConnType'
    BY <1>11 DEF PumpClosed, Settle, ConnType
  <2>3. ChanType'
    BY <1>11 DEF PumpClosed, Settle, ChanType
  <2>4. PumpType'
    BY <1>11 DEF PumpClosed, Settle, PumpType
  <2>5. reader' = "send" => hand' \in [id : Req, item : Item]
    BY <1>11 DEF PumpClosed, readVars
  <2> QED BY <2>1, <2>2, <2>3, <2>4, <2>5
<1>12. ASSUME NEW r \in Req, PumpWrite(r) PROVE TypeInv'
  <2>1. LinkType' /\ ConnType' /\ ReadType' /\ CallType' /\ ChanType'
        /\ NodeType'
    BY <1>12 DEF PumpWrite, LinkType, linkVars, ConnType, connVars, ReadType,
      readVars, CallType, callVars, ChanType, chanVars, NodeType, nodeVars
  <2>2. PumpType'
    BY <1>12 DEF PumpWrite, PumpType
  <2>3. reader' = "send" => hand' \in [id : Req, item : Item]
    BY <1>12 DEF PumpWrite, readVars
  <2> QED BY <2>1, <2>2, <2>3
<1>13. ASSUME NEW r \in Req, PumpWriteError(r) PROVE TypeInv'
  <2>1. ReadType' /\ CallType' /\ NodeType'
    BY <1>13 DEF PumpWriteError, ReadType, readVars, CallType, callVars,
      NodeType, nodeVars
  <2>2. LinkType'
    BY <1>13, WriteType, FrameTypes DEF PumpWriteError, Cancel, LinkType
  <2>3. ConnType'
    BY <1>13 DEF PumpWriteError, Cancel, Write, Settle, ConnType
  <2>4. ChanType'
    BY <1>13 DEF PumpWriteError, Cancel, Write, Settle, ChanType
  <2>5. PumpType'
    BY <1>13 DEF PumpWriteError, Cancel, Write, Settle, PumpType
  <2>6. reader' = "send" => hand' \in [id : Req, item : Item]
    BY <1>13 DEF PumpWriteError, readVars
  <2> QED BY <2>1, <2>2, <2>3, <2>4, <2>5, <2>6
<1>14. ASSUME NEW r \in Req, NodeHead(r) PROVE TypeInv'
  <2>1. ConnType' /\ ReadType' /\ CallType' /\ ChanType' /\ PumpType'
    BY <1>14 DEF NodeHead, ConnType, connVars, ReadType, readVars, CallType,
      callVars, ChanType, chanVars, PumpType, pumpVars
  <2>2. LinkType'
    BY <1>14, SendType, FrameTypes DEF NodeHead, LinkType
  <2>3. NodeType'
    BY <1>14 DEF NodeHead, NodeSend, NodeType
  <2>4. reader' = "send" => hand' \in [id : Req, item : Item]
    BY <1>14 DEF NodeHead, readVars
  <2> QED BY <2>1, <2>2, <2>3, <2>4
<1>15. ASSUME NEW r \in Req, NodeData(r) PROVE TypeInv'
  <2>1. ConnType' /\ ReadType' /\ CallType' /\ ChanType' /\ PumpType'
    BY <1>15 DEF NodeData, ConnType, connVars, ReadType, readVars, CallType,
      callVars, ChanType, chanVars, PumpType, pumpVars
  <2>2. LinkType'
    BY <1>15, SendType, FrameTypes DEF NodeData, LinkType, NodeType
  <2>3. NodeType'
    BY <1>15 DEF NodeData, NodeSend, NodeType
  <2>4. reader' = "send" => hand' \in [id : Req, item : Item]
    BY <1>15 DEF NodeData, readVars
  <2> QED BY <2>1, <2>2, <2>3, <2>4
<1>16. ASSUME NEW r \in Req, NodeMisSequences(r) PROVE TypeInv'
  <2>1. ConnType' /\ ReadType' /\ CallType' /\ ChanType' /\ PumpType'
    BY <1>16 DEF NodeMisSequences, ConnType, connVars, ReadType, readVars,
      CallType, callVars, ChanType, chanVars, PumpType, pumpVars
  <2>2. LinkType'
    <3>1. CASE produced[r] > 0 /\ NodeSend([t |-> "data", id |-> r,
                                            seq |-> produced[r] - 1])
      <4>1. produced[r] - 1 \in 0 .. MaxChunks
        BY <3>1 DEF NodeType
      <4> QED BY <3>1, <4>1, <1>16, SendType, FrameTypes
                 DEF NodeMisSequences, LinkType
    <3>2. CASE UNCHANGED toCP
      BY <3>2, <1>16 DEF NodeMisSequences, LinkType
    <3> QED BY <3>1, <3>2, <1>16 DEF NodeMisSequences
  <2>3. NodeType'
    BY <1>16 DEF NodeMisSequences, NodeSend, NodeType
  <2>4. reader' = "send" => hand' \in [id : Req, item : Item]
    BY <1>16 DEF NodeMisSequences, readVars
  <2> QED BY <2>1, <2>2, <2>3, <2>4
<1>17. ASSUME NEW r \in Req, NodeEnd(r) PROVE TypeInv'
  <2>1. ConnType' /\ ReadType' /\ CallType' /\ ChanType' /\ PumpType'
    BY <1>17 DEF NodeEnd, ConnType, connVars, ReadType, readVars, CallType,
      callVars, ChanType, chanVars, PumpType, pumpVars
  <2>2. LinkType'
    BY <1>17, SendType, FrameTypes DEF NodeEnd, LinkType, NodeType
  <2>3. NodeType'
    BY <1>17 DEF NodeEnd, NodeSend, NodeType
  <2>4. reader' = "send" => hand' \in [id : Req, item : Item]
    BY <1>17 DEF NodeEnd, readVars
  <2> QED BY <2>1, <2>2, <2>3, <2>4
<1>18. ASSUME NEW r \in Req, NodeErr(r) PROVE TypeInv'
  <2>1. ConnType' /\ ReadType' /\ CallType' /\ ChanType' /\ PumpType'
    BY <1>18 DEF NodeErr, ConnType, connVars, ReadType, readVars, CallType,
      callVars, ChanType, chanVars, PumpType, pumpVars
  <2>2. LinkType'
    BY <1>18, SendType, FrameTypes DEF NodeErr, LinkType
  <2>3. NodeType'
    BY <1>18 DEF NodeErr, NodeSend, NodeType
  <2>4. reader' = "send" => hand' \in [id : Req, item : Item]
    BY <1>18 DEF NodeErr, readVars
  <2> QED BY <2>1, <2>2, <2>3, <2>4
<1>19. ASSUME NEW r \in Req, ShutdownClose(r) PROVE TypeInv'
  <2>1. LinkType' /\ ReadType' /\ CallType' /\ PumpType' /\ NodeType'
    BY <1>19 DEF ShutdownClose, LinkType, linkVars, ReadType, readVars,
      CallType,
      callVars, PumpType, pumpVars, NodeType, nodeVars
  <2>2. ConnType'
    BY <1>19 DEF ShutdownClose, ConnType
  <2>3. ChanType'
    BY <1>19 DEF ShutdownClose, ChanType
  <2>4. reader' = "send" => hand' \in [id : Req, item : Item]
    BY <1>19 DEF ShutdownClose, readVars
  <2> QED BY <2>1, <2>2, <2>3, <2>4
<1>20. CASE DispatchHead
  <2>1. ConnType' /\ ReadType' /\ ChanType' /\ PumpType' /\ NodeType'
    BY <1>20 DEF DispatchHead, ConnType, connVars, ReadType, readVars, ChanType,
      chanVars, PumpType, pumpVars, NodeType, nodeVars
  <2>2. LinkType'
    BY <1>20, ReceiveType DEF DispatchHead, Incoming, LinkType
  <2>3. CallType'
    BY <1>20, ReceiveType, FrameTypes DEF DispatchHead, Incoming, CallType
  <2>4. reader' = "send" => hand' \in [id : Req, item : Item]
    BY <1>20 DEF DispatchHead, readVars
  <2> QED BY <2>1, <2>2, <2>3, <2>4
<1>21. CASE DispatchData
  <2>1. ConnType' /\ CallType' /\ PumpType' /\ NodeType'
    BY <1>21 DEF DispatchData, ConnType, connVars, CallType, callVars, PumpType,
      pumpVars, NodeType, nodeVars
  <2>2. LinkType'
    BY <1>21, ReceiveType DEF DispatchData, Incoming, SeqAccepted, LinkType
  <2>3. ReadType'
    BY <1>21, ReceiveType, FrameTypes DEF DispatchData, Incoming, ReadType
  <2>4. ChanType'
    BY <1>21, ReceiveType, FrameTypes DEF DispatchData, Incoming, ChanType
  <2>5. reader' = "send" => hand' \in [id : Req, item : Item]
    BY <1>21, ReceiveType, FrameTypes DEF DispatchData, Incoming, SeqAccepted
  <2> QED BY <2>1, <2>2, <2>3, <2>4, <2>5
<1>22. CASE DispatchEnd
  <2>1. ConnType' /\ CallType' /\ ChanType' /\ PumpType' /\ NodeType'
    BY <1>22 DEF DispatchEnd, ConnType, connVars, CallType, callVars, ChanType,
      chanVars, PumpType, pumpVars, NodeType, nodeVars
  <2>2. LinkType'
    BY <1>22, ReceiveType DEF DispatchEnd, Incoming, CountAccepted, LinkType
  <2>3. ReadType'
    BY <1>22, ReceiveType, FrameTypes DEF DispatchEnd, Incoming, ReadType
  <2>4. reader' = "send" => hand' \in [id : Req, item : Item]
    BY <1>22, ReceiveType, FrameTypes DEF DispatchEnd, Incoming, CountAccepted
  <2> QED BY <2>1, <2>2, <2>3, <2>4
<1>23. CASE DispatchErr
  <2>1. ConnType' /\ ReadType' /\ PumpType' /\ NodeType'
    BY <1>23 DEF DispatchErr, ConnType, connVars, ReadType, readVars, PumpType,
      pumpVars, NodeType, nodeVars
  <2>2. LinkType'
    BY <1>23, ReceiveType DEF DispatchErr, Incoming, LinkType
  <2>3. CallType'
    BY <1>23, ReceiveType, FrameTypes DEF DispatchErr, Incoming, CallType
  <2>4. ChanType'
    BY <1>23 DEF DispatchErr, Incoming, ChanType
  <2>5. reader' = "send" => hand' \in [id : Req, item : Item]
    BY <1>23 DEF DispatchErr, readVars
  <2> QED BY <2>1, <2>2, <2>3, <2>4, <2>5
<1>24. CASE SendChunk
  <2>1. LinkType' /\ ConnType' /\ CallType' /\ PumpType' /\ NodeType'
    BY <1>24 DEF SendChunk, LinkType, linkVars, ConnType, connVars, CallType,
      callVars, PumpType, pumpVars, NodeType, nodeVars
  <2>2. ReadType'
    BY <1>24 DEF SendChunk, ReadType
  <2>3. ChanType'
    BY <1>24 DEF SendChunk, ChanType
  <2>4. reader' = "send" => hand' \in [id : Req, item : Item]
    BY <1>24 DEF SendChunk
  <2> QED BY <2>1, <2>2, <2>3, <2>4
<1>25. CASE SendPanics
  <2>1. LinkType' /\ ConnType' /\ CallType' /\ ChanType' /\ PumpType'
        /\ NodeType'
    BY <1>25 DEF SendPanics, LinkType, linkVars, ConnType, connVars, CallType,
      callVars, ChanType, chanVars, PumpType, pumpVars, NodeType, nodeVars
  <2>2. ReadType'
    BY <1>25 DEF SendPanics, ReadType
  <2>3. reader' = "send" => hand' \in [id : Req, item : Item]
    BY <1>25 DEF SendPanics
  <2> QED BY <2>1, <2>2, <2>3
<1>26. CASE ReadError
  <2>1. LinkType' /\ ConnType' /\ CallType' /\ ChanType' /\ PumpType'
        /\ NodeType'
    BY <1>26 DEF ReadError, LinkType, linkVars, ConnType, connVars, CallType,
      callVars, ChanType, chanVars, PumpType, pumpVars, NodeType, nodeVars
  <2>2. ReadType'
    BY <1>26 DEF ReadError, ReadType
  <2>3. reader' = "send" => hand' \in [id : Req, item : Item]
    BY <1>26 DEF ReadError
  <2> QED BY <2>1, <2>2, <2>3
<1>27. CASE ShutdownDrain
  <2>1. LinkType' /\ CallType' /\ ChanType' /\ PumpType' /\ NodeType'
    BY <1>27 DEF ShutdownDrain, LinkType, linkVars, CallType, callVars,
      ChanType,
      chanVars, PumpType, pumpVars, NodeType, nodeVars
  <2>2. ConnType'
    BY <1>27 DEF ShutdownDrain, ConnType
  <2>3. ReadType'
    BY <1>27 DEF ShutdownDrain, ReadType
  <2>4. reader' = "send" => hand' \in [id : Req, item : Item]
    BY <1>27 DEF ShutdownDrain
  <2> QED BY <2>1, <2>2, <2>3, <2>4
<1>28. CASE ShutdownDone
  <2>1. LinkType' /\ CallType' /\ ChanType' /\ PumpType' /\ NodeType'
    BY <1>28 DEF ShutdownDone, LinkType, linkVars, CallType, callVars, ChanType,
      chanVars, PumpType, pumpVars, NodeType, nodeVars
  <2>2. ConnType'
    BY <1>28 DEF ShutdownDone, ConnType
  <2>3. ReadType'
    BY <1>28 DEF ShutdownDone, ReadType
  <2>4. reader' = "send" => hand' \in [id : Req, item : Item]
    BY <1>28 DEF ShutdownDone
  <2> QED BY <2>1, <2>2, <2>3, <2>4
<1>29. CASE HandlerReturns
  <2>1. ConnType' /\ CallType' /\ ChanType' /\ PumpType'
    BY <1>29 DEF HandlerReturns, ConnType, connVars, CallType, callVars,
      ChanType, chanVars, PumpType, pumpVars
  <2>2. LinkType'
    BY <1>29, EmptyType DEF HandlerReturns, NodeSeesClose, LinkType, linkVars
  <2>3. ReadType'
    BY <1>29 DEF HandlerReturns, NodeSeesClose, ReadType
  <2>4. NodeType'
    BY <1>29 DEF HandlerReturns, NodeSeesClose, NodeType
  <2>5. reader' = "send" => hand' \in [id : Req, item : Item]
    BY <1>29 DEF HandlerReturns, NodeSeesClose
  <2> QED BY <2>1, <2>2, <2>3, <2>4, <2>5
<1>30. CASE LinkDrops
  <2>1. ConnType' /\ ReadType' /\ CallType' /\ ChanType' /\ PumpType'
    BY <1>30 DEF LinkDrops, ConnType, connVars, ReadType, readVars, CallType,
      callVars, ChanType, chanVars, PumpType, pumpVars
  <2>2. LinkType'
    BY <1>30, EmptyType DEF LinkDrops, NodeSeesClose, LinkType
  <2>3. NodeType'
    BY <1>30 DEF LinkDrops, NodeSeesClose, NodeType
  <2>4. reader' = "send" => hand' \in [id : Req, item : Item]
    BY <1>30 DEF LinkDrops, readVars
  <2> QED BY <2>1, <2>2, <2>3, <2>4
<1>31. CASE HeartbeatLost
  <2>1. ConnType' /\ ReadType' /\ CallType' /\ ChanType' /\ PumpType'
    BY <1>31 DEF HeartbeatLost, ConnType, connVars, ReadType, readVars,
      CallType,
      callVars, ChanType, chanVars, PumpType, pumpVars
  <2>2. LinkType'
    BY <1>31, EmptyType DEF HeartbeatLost, NodeSeesClose, ReaderStuck, LinkType
  <2>3. NodeType'
    BY <1>31 DEF HeartbeatLost, NodeSeesClose, ReaderStuck, NodeType
  <2>4. reader' = "send" => hand' \in [id : Req, item : Item]
    BY <1>31 DEF HeartbeatLost, readVars
  <2> QED BY <2>1, <2>2, <2>3, <2>4
<1>32. CASE NodeReq
  <2>1. ConnType' /\ ReadType' /\ CallType' /\ ChanType' /\ PumpType'
    BY <1>32 DEF NodeReq, ConnType, connVars, ReadType, readVars, CallType,
      callVars, ChanType, chanVars, PumpType, pumpVars
  <2>2. LinkType'
    BY <1>32, ReceiveType DEF NodeReq, LinkType
  <2>3. NodeType'
    BY <1>32, ReceiveType, FrameTypes DEF NodeReq, NodeType
  <2>4. reader' = "send" => hand' \in [id : Req, item : Item]
    BY <1>32 DEF NodeReq, readVars
  <2> QED BY <2>1, <2>2, <2>3, <2>4
<1>33. CASE NodeCancel
  <2>1. ConnType' /\ ReadType' /\ CallType' /\ ChanType' /\ PumpType'
    BY <1>33 DEF NodeCancel, ConnType, connVars, ReadType, readVars, CallType,
      callVars, ChanType, chanVars, PumpType, pumpVars
  <2>2. LinkType'
    BY <1>33, ReceiveType DEF NodeCancel, LinkType
  <2>3. NodeType'
    BY <1>33, ReceiveType, FrameTypes DEF NodeCancel, NodeType
  <2>4. reader' = "send" => hand' \in [id : Req, item : Item]
    BY <1>33 DEF NodeCancel, readVars
  <2> QED BY <2>1, <2>2, <2>3, <2>4
<1>34. CASE UNCHANGED vars
  BY <1>34 DEF vars, linkVars, connVars, readVars, callVars, chanVars,
       pumpVars, nodeVars, LinkType, ConnType, ReadType, CallType, ChanType,
       PumpType, NodeType
<1> QED BY <1>1, <1>2, <1>3, <1>4, <1>5, <1>6, <1>7, <1>8, <1>9, <1>10, <1>11,
     <1>12, <1>13, <1>14, <1>15, <1>16, <1>17, <1>18, <1>19, <1>20, <1>21,
     <1>22, <1>23, <1>24, <1>25, <1>26, <1>27, <1>28, <1>29, <1>30, <1>31,
     <1>32, <1>33, <1>34 DEF Next, Browser, Caller, Pump, NodeServes, Reader

\* The type invariant of UplinkConn holds in every reachable state.
THEOREM TypeCorrect == Spec => []TypeOK
<1>1. TypeInv => TypeOK
  BY DEF TypeInv
<1> QED BY <1>1, TypeInit, TypeStep, PTL DEF Spec

-----------------------------------------------------------------------------
(* Registration and release.                                               *)

ConnInv == LifeInv /\ NothingAfterClosed /\ ReleaseInv /\ SlotOwned /\ BodyInv

\* settle: a registered request stays so or has its chunks closed, and closed
\* chunks stay closed.
LEMMA SettleReleases ==
  ASSUME ChanType, NEW r \in Req, Settle(r)
  PROVE \A q \in Req : /\ q \in pending => q \in pending' \/ chunksClosed'[q]
                       /\ chunksClosed[q] => chunksClosed'[q]
<1> TAKE q \in Req
<1>1. CASE q = r
  BY <1>1 DEF Settle, ChanType
<1>2. CASE q # r
  BY <1>2 DEF Settle, ChanType
<1> QED BY <1>1, <1>2

\* Init establishes it.
LEMMA ConnInit == Init => ConnInv
BY DEF Init, ConnInv, LifeInv, NothingAfterClosed, ReleaseInv, SlotOwned,
  BodyInv

\* Every action preserves it.
LEMMA ConnStep == TypeInv /\ ConnInv /\ [Next]_vars => ConnInv'
<1> SUFFICES ASSUME TypeInv, ConnInv, [Next]_vars PROVE ConnInv'
  OBVIOUS
<1> USE DEF TypeInv, TypeOK, ConnType, ReadType, CallType, ChanType, PumpType,
        ReaderStates, DoStates, PumpStates, BodyStates,
        ConnInv, LifeInv, NothingAfterClosed, ReleaseInv, SlotOwned, BodyInv,
        linkVars, connVars, readVars, callVars, chanVars, pumpVars, nodeVars
<1>1. ASSUME NEW r \in Req, DoRegister(r) PROVE ConnInv'
  <2>1. LifeInv'
    BY <1>1 DEF DoRegister, Refused
  <2>2. NothingAfterClosed'
    BY <1>1 DEF DoRegister, Refused
  <2>3. ReleaseInv'
    BY <1>1 DEF DoRegister, Refused
  <2>4. SlotOwned'
    BY <1>1 DEF DoRegister, Refused
  <2>5. BodyInv'
    BY <1>1 DEF DoRegister, Refused
  <2> QED BY <2>1, <2>2, <2>3, <2>4, <2>5
<1>2. ASSUME NEW r \in Req, CtxDone(r) PROVE ConnInv'
  BY <1>2 DEF CtxDone
<1>3. ASSUME NEW r \in Req, BodyClose(r) PROVE ConnInv'
  BY <1>3 DEF BodyClose, Cancel, Write
<1>4. ASSUME NEW r \in Req, DoWrite(r) PROVE ConnInv'
  <2>1. LifeInv'
    BY <1>4 DEF DoWrite, Write, Settle
  <2>2. NothingAfterClosed'
    BY <1>4 DEF DoWrite, Write, Settle
  <2>3. ReleaseInv'
    <3>1. \A q \in Req : do'[q] \notin {"idle", "refused"}
                         => do[q] \notin {"idle", "refused"}
      BY <1>4 DEF DoWrite
    <3>2. CASE link = "up"
      <4>1. UNCHANGED <<pending, live, chunksClosed>>
        BY <1>4, <3>2 DEF DoWrite
      <4> QED BY <3>1, <4>1
    <3>3. CASE link # "up"
      <4>1. Settle(r) /\ UNCHANGED live
        BY <1>4, <3>3 DEF DoWrite
      <4> HIDE DEF ChanType
      <4> QED BY <3>1, <4>1, SettleReleases
    <3> QED BY <3>2, <3>3
  <2>4. SlotOwned'
    <3>1. CASE link = "up"
      <4>1. do' = [do EXCEPT ![r] = "select"] /\ UNCHANGED <<pending, pump>>
        BY <1>4, <3>1 DEF DoWrite
      <4> QED BY <4>1
    <3>2. CASE link # "up"
      BY <1>4, <3>2 DEF DoWrite, Settle
    <3> QED BY <3>1, <3>2
  <2>5. BodyInv'
    BY <1>4 DEF DoWrite, Write, Settle
  <2> QED BY <2>1, <2>2, <2>3, <2>4, <2>5
<1>5. ASSUME NEW r \in Req, DoCancelled(r) PROVE ConnInv'
  BY <1>5 DEF DoCancelled, Cancel, Write
<1>6. ASSUME NEW r \in Req, DoDisconnected(r) PROVE ConnInv'
  BY <1>6 DEF DoDisconnected, Settle
<1>7. ASSUME NEW r \in Req, DoFailed(r) PROVE ConnInv'
  BY <1>7 DEF DoFailed, Settle
<1>8. ASSUME NEW r \in Req, DoHead(r) PROVE ConnInv'
  BY <1>8 DEF DoHead
<1>9. ASSUME NEW r \in Req, PumpRecv(r) PROVE ConnInv'
  BY <1>9 DEF PumpRecv
<1>10. ASSUME NEW r \in Req, PumpEnd(r) PROVE ConnInv'
  <2>1. LifeInv'
    BY <1>10 DEF PumpEnd, Settle
  <2>2. NothingAfterClosed'
    BY <1>10 DEF PumpEnd, Settle
  <2>3. ReleaseInv'
    BY ZenonT(40), <1>10 DEF PumpEnd, Settle
  <2>4. SlotOwned'
    BY <1>10 DEF PumpEnd, Settle
  <2>5. BodyInv'
    BY <1>10 DEF PumpEnd, Settle
  <2> QED BY <2>1, <2>2, <2>3, <2>4, <2>5
<1>11. ASSUME NEW r \in Req, PumpClosed(r) PROVE ConnInv'
  BY <1>11 DEF PumpClosed, Settle
<1>12. ASSUME NEW r \in Req, PumpWrite(r) PROVE ConnInv'
  BY <1>12 DEF PumpWrite
<1>13. ASSUME NEW r \in Req, PumpWriteError(r) PROVE ConnInv'
  BY <1>13 DEF PumpWriteError, Cancel, Write, Settle
<1>14. ASSUME NEW r \in Req, NodeHead(r) PROVE ConnInv'
  BY <1>14 DEF NodeHead, NodeSend
<1>15. ASSUME NEW r \in Req, NodeData(r) PROVE ConnInv'
  BY <1>15 DEF NodeData, NodeSend
<1>16. ASSUME NEW r \in Req, NodeMisSequences(r) PROVE ConnInv'
  BY <1>16 DEF NodeMisSequences, NodeSend
<1>17. ASSUME NEW r \in Req, NodeEnd(r) PROVE ConnInv'
  BY <1>17 DEF NodeEnd, NodeSend
<1>18. ASSUME NEW r \in Req, NodeErr(r) PROVE ConnInv'
  BY <1>18 DEF NodeErr, NodeSend
<1>19. ASSUME NEW r \in Req, ShutdownClose(r) PROVE ConnInv'
  BY <1>19 DEF ShutdownClose
<1>20. CASE DispatchHead
  BY <1>20 DEF DispatchHead, Incoming
<1>21. CASE DispatchData
  BY <1>21 DEF DispatchData, Incoming, SeqAccepted
<1>22. CASE DispatchEnd
  BY <1>22 DEF DispatchEnd, Incoming, CountAccepted
<1>23. CASE DispatchErr
  <2>1. LifeInv'
    BY <1>23 DEF DispatchErr, Incoming
  <2>2. NothingAfterClosed'
    BY <1>23 DEF DispatchErr, Incoming
  <2>3. ReleaseInv'
    <3>1. Head(toCP).id \in Req
      BY <1>23, ReceiveType, FrameTypes DEF DispatchErr, Incoming
    <3>2. \/ UNCHANGED chunksClosed
          \/ chunksClosed' = [chunksClosed EXCEPT ![Head(toCP).id] = TRUE]
      BY <1>23 DEF DispatchErr
    <3>3. \A q \in Req : chunksClosed[q] => chunksClosed'[q]
      BY ZenonT(40), <3>1, <3>2 DEF ChanType
    <3>4. UNCHANGED <<do, pending, live>>
      BY <1>23 DEF DispatchErr
    <3> QED BY <3>3, <3>4
  <2>4. SlotOwned'
    BY <1>23 DEF DispatchErr, Incoming
  <2>5. BodyInv'
    BY <1>23 DEF DispatchErr, Incoming
  <2> QED BY <2>1, <2>2, <2>3, <2>4, <2>5
<1>24. CASE SendChunk
  BY <1>24 DEF SendChunk
<1>25. CASE SendPanics
  BY <1>25 DEF SendPanics
<1>26. CASE ReadError
  BY <1>26 DEF ReadError
<1>27. CASE ShutdownDrain
  BY <1>27 DEF ShutdownDrain
<1>28. CASE ShutdownDone
  BY <1>28 DEF ShutdownDone
<1>29. CASE HandlerReturns
  BY <1>29 DEF HandlerReturns, NodeSeesClose
<1>30. CASE LinkDrops
  BY <1>30 DEF LinkDrops, NodeSeesClose
<1>31. CASE HeartbeatLost
  BY <1>31 DEF HeartbeatLost, NodeSeesClose, ReaderStuck
<1>32. CASE NodeReq
  BY <1>32 DEF NodeReq
<1>33. CASE NodeCancel
  BY <1>33 DEF NodeCancel
<1>34. CASE UNCHANGED vars
  BY <1>34 DEF vars
<1> QED BY <1>1, <1>2, <1>3, <1>4, <1>5, <1>6, <1>7, <1>8, <1>9, <1>10, <1>11,
     <1>12, <1>13, <1>14, <1>15, <1>16, <1>17, <1>18, <1>19, <1>20, <1>21,
     <1>22, <1>23, <1>24, <1>25, <1>26, <1>27, <1>28, <1>29, <1>30, <1>31,
     <1>32, <1>33, <1>34 DEF Next, Browser, Caller, Pump, NodeServes, Reader

\* No request is registered on a connection whose shutdown has begun.
THEOREM NothingAfterClosedHolds == Spec => []NothingAfterClosed
<1>1. ConnInv => NothingAfterClosed
  BY DEF ConnInv
<1> QED BY <1>1, TypeInit, TypeStep, ConnInit, ConnStep, PTL DEF Spec

\* When shutdown closes done, every request somebody still works on has had its
\* chunks closed.
THEOREM DoneReleasesHolds == Spec => []DoneReleases
<1>1. ConnInv => DoneReleases
  BY DEF ConnInv, LifeInv, NothingAfterClosed, ReleaseInv, BodyInv,
    DoneReleases
<1> QED BY <1>1, TypeInit, TypeStep, ConnInit, ConnStep, PTL DEF Spec

\* A registered slot has a caller or a pump that settles it, or its caller's
\* context ended.
THEOREM SlotOwnedHolds == Spec => []SlotOwned
<1>1. ConnInv => SlotOwned
  BY DEF ConnInv
<1> QED BY <1>1, TypeInit, TypeStep, ConnInit, ConnStep, PTL DEF Spec

-----------------------------------------------------------------------------
(* The response stream.                                                  *)

\* Steps that write no req and take none up keep ReqInv.
LEMMA ReqKept ==
  ASSUME TypeInv, ReqInv,
         \A q \in Req : /\ do'[q] \in {"idle", "write"} => do[q] \in {"idle", "write"}
                        /\ node[q] = "idle" => node'[q] = "idle",
         \/ toNode' = toNode \/ toNode' = <<>>
         \/ toNode # <<>> /\ toNode' = Tail(toNode)
         \/ \E q \in Req : toNode' = Append(toNode, [t |-> "cancel", id |-> q])
  PROVE  ReqInv'
<1> USE FrameTypes DEF TypeInv, TypeOK, LinkType, ReqInv
<1>1. \A q \in Req : do'[q] \in {"idle", "write"} => node'[q] = "idle"
  OBVIOUS
<1>2. \A i \in 1 .. Len(toNode) : toNode[i].id \in Req
  OBVIOUS
<1>3. CASE toNode' = toNode
  BY <1>1, <1>2, <1>3
<1>4. CASE toNode' = <<>>
  BY <1>1, <1>4
<1>5. CASE toNode # <<>> /\ toNode' = Tail(toNode)
  <2>1. /\ Len(toNode') = Len(toNode) - 1
        /\ \A i \in 1 .. Len(toNode) - 1 : toNode'[i] = toNode[i + 1]
    BY <1>5
  <2>2. Len(toNode) \in Nat
    OBVIOUS
  <2>3. \A i \in 1 .. Len(toNode') : i + 1 \in 1 .. Len(toNode)
    BY <2>1, <2>2
  <2>4. ASSUME NEW i \in 1 .. Len(toNode'), toNode'[i].t = "req"
        PROVE  /\ node'[toNode'[i].id] = "idle"
               /\ do'[toNode'[i].id] \notin {"idle", "write"}
    <3>1. toNode'[i] = toNode[i + 1] /\ i + 1 \in 1 .. Len(toNode)
      BY <2>1, <2>2, <2>3
    <3>2. /\ node[toNode[i + 1].id] = "idle" /\ toNode[i + 1].id \in Req
          /\ do[toNode[i + 1].id] \notin {"idle", "write"}
      BY <1>2, <2>4, <3>1
    <3> QED BY <3>1, <3>2
  <2>5. ASSUME NEW i \in 1 .. Len(toNode'), NEW j \in 1 .. Len(toNode'),
               toNode'[i].t = "req", toNode'[j].t = "req",
               toNode'[i].id = toNode'[j].id
        PROVE  i = j
    <3>1. i + 1 = j + 1
      BY SMTT(30), <2>1, <2>2, <2>3, <2>5
    <3> QED BY <3>1
  <2> QED BY <1>1, <2>4, <2>5
<1>6. ASSUME NEW q \in Req, toNode' = Append(toNode, [t |-> "cancel", id |-> q])
      PROVE  ReqInv'
  <2>1. /\ Len(toNode') = Len(toNode) + 1
        /\ \A i \in 1 .. Len(toNode) : toNode'[i] = toNode[i]
        /\ toNode'[Len(toNode) + 1].t # "req"
    BY <1>6
  <2> QED BY <1>1, <1>2, <2>1
<1> QED BY <1>3, <1>4, <1>5, <1>6

\* Init establishes ReqInv, and every action preserves it.
LEMMA ReqInit == Init => ReqInv
BY DEF Init, ReqInv

\* Every action preserves ReqInv.
LEMMA ReqStep == TypeInv /\ ReqInv /\ [Next]_vars => ReqInv'
<1> SUFFICES ASSUME TypeInv, ReqInv, [Next]_vars PROVE ReqInv'
  OBVIOUS
<1> USE DEF TypeInv, TypeOK, LinkType, CallType, NodeType, ReqInv,
        linkVars, connVars, readVars, callVars, chanVars, pumpVars, nodeVars
<1>1. ASSUME NEW r \in Req, DoRegister(r) PROVE ReqInv'
  BY <1>1, ReqKept DEF DoRegister, Refused
<1>2. ASSUME NEW r \in Req, CtxDone(r) PROVE ReqInv'
  BY <1>2, ReqKept DEF CtxDone
<1>3. ASSUME NEW r \in Req, BodyClose(r) PROVE ReqInv'
  BY <1>3, ReqKept DEF BodyClose, Cancel, Write
<1>4. ASSUME NEW r \in Req, DoWrite(r) PROVE ReqInv'
  <2>1. CASE link = "up"
    <3> DEFINE f == [t |-> "req", id |-> r]
    <3>1. /\ toNode' = Append(toNode, f) /\ do[r] = "write"
          /\ do' = [do EXCEPT ![r] = "select"] /\ UNCHANGED node
      BY <1>4, <2>1 DEF DoWrite, Write
    <3>2. /\ Len(toNode') = Len(toNode) + 1
          /\ \A i \in 1 .. Len(toNode) : toNode'[i] = toNode[i]
          /\ toNode'[Len(toNode) + 1] = f
      BY <3>1
    <3>3. /\ f.t = "req" /\ f.id = r
          /\ \A i \in 1 .. Len(toNode) : toNode[i].id \in Req
      BY FrameTypes
    <3> HIDE DEF f
    <3>4. \A i \in 1 .. Len(toNode) : toNode[i].t = "req" => toNode[i].id # r
      BY <3>1
    <3> QED BY <3>1, <3>2, <3>3, <3>4
  <2>2. CASE link # "up"
    BY <1>4, <2>2, ReqKept DEF DoWrite, Settle
  <2> QED BY <2>1, <2>2
<1>5. ASSUME NEW r \in Req, DoCancelled(r) PROVE ReqInv'
  BY <1>5, ReqKept DEF DoCancelled, Cancel, Write
<1>6. ASSUME NEW r \in Req, DoDisconnected(r) PROVE ReqInv'
  BY <1>6, ReqKept DEF DoDisconnected, Settle
<1>7. ASSUME NEW r \in Req, DoFailed(r) PROVE ReqInv'
  BY <1>7, ReqKept DEF DoFailed, Settle
<1>8. ASSUME NEW r \in Req, DoHead(r) PROVE ReqInv'
  BY <1>8, ReqKept DEF DoHead
<1>9. ASSUME NEW r \in Req, PumpRecv(r) PROVE ReqInv'
  BY <1>9, ReqKept DEF PumpRecv
<1>10. ASSUME NEW r \in Req, PumpEnd(r) PROVE ReqInv'
  BY <1>10, ReqKept DEF PumpEnd, Settle
<1>11. ASSUME NEW r \in Req, PumpClosed(r) PROVE ReqInv'
  BY <1>11, ReqKept DEF PumpClosed, Settle
<1>12. ASSUME NEW r \in Req, PumpWrite(r) PROVE ReqInv'
  BY <1>12, ReqKept DEF PumpWrite
<1>13. ASSUME NEW r \in Req, PumpWriteError(r) PROVE ReqInv'
  BY <1>13, ReqKept DEF PumpWriteError, Cancel, Write, Settle
<1>14. ASSUME NEW r \in Req, NodeHead(r) PROVE ReqInv'
  BY <1>14, ReqKept DEF NodeHead, NodeSend
<1>15. ASSUME NEW r \in Req, NodeData(r) PROVE ReqInv'
  BY <1>15, ReqKept DEF NodeData, NodeSend
<1>16. ASSUME NEW r \in Req, NodeMisSequences(r) PROVE ReqInv'
  BY <1>16, ReqKept DEF NodeMisSequences, NodeSend
<1>17. ASSUME NEW r \in Req, NodeEnd(r) PROVE ReqInv'
  BY <1>17, ReqKept DEF NodeEnd, NodeSend
<1>18. ASSUME NEW r \in Req, NodeErr(r) PROVE ReqInv'
  BY <1>18, ReqKept DEF NodeErr, NodeSend
<1>19. ASSUME NEW r \in Req, ShutdownClose(r) PROVE ReqInv'
  BY <1>19, ReqKept DEF ShutdownClose
<1>20. CASE DispatchHead
  BY <1>20, ReqKept DEF DispatchHead, Incoming
<1>21. CASE DispatchData
  BY <1>21, ReqKept DEF DispatchData, Incoming, SeqAccepted
<1>22. CASE DispatchEnd
  BY <1>22, ReqKept DEF DispatchEnd, Incoming, CountAccepted
<1>23. CASE DispatchErr
  BY <1>23, ReqKept DEF DispatchErr, Incoming
<1>24. CASE SendChunk
  BY <1>24, ReqKept DEF SendChunk
<1>25. CASE SendPanics
  BY <1>25, ReqKept DEF SendPanics
<1>26. CASE ReadError
  BY <1>26, ReqKept DEF ReadError
<1>27. CASE ShutdownDrain
  BY <1>27, ReqKept DEF ShutdownDrain
<1>28. CASE ShutdownDone
  BY <1>28, ReqKept DEF ShutdownDone
<1>29. CASE HandlerReturns
  BY <1>29, ReqKept DEF HandlerReturns, NodeSeesClose
<1>30. CASE LinkDrops
  BY <1>30, ReqKept DEF LinkDrops, NodeSeesClose
<1>31. CASE HeartbeatLost
  BY <1>31, ReqKept DEF HeartbeatLost, NodeSeesClose, ReaderStuck
<1>32. CASE NodeReq
  <2> DEFINE q == Head(toNode).id
  <2>1. /\ toNode # <<>> /\ toNode' = Tail(toNode) /\ UNCHANGED do
        /\ Head(toNode).t = "req" /\ node' = [node EXCEPT ![q] = "serving"]
    BY <1>32 DEF NodeReq
  <2>2. /\ Len(toNode') = Len(toNode) - 1 /\ toNode[1] = Head(toNode)
        /\ \A i \in 1 .. Len(toNode) - 1 : toNode'[i] = toNode[i + 1]
    BY <2>1
  <2>3. q \in Req /\ do[q] \notin {"idle", "write"}
    BY <2>1, <2>2, ReceiveType, FrameTypes
  <2>4. \A i \in 1 .. Len(toNode') : toNode'[i].t = "req" => toNode'[i].id # q
    BY <2>1, <2>2
  <2>5. \A i \in 1 .. Len(toNode') : toNode'[i].id \in Req
    <3>1. \A i \in 1 .. Len(toNode) : toNode[i].id \in Req
      BY FrameTypes
    <3> QED BY <2>1, <2>2, <3>1
  <2> HIDE DEF q
  <2> QED BY <2>1, <2>2, <2>3, <2>4, <2>5
<1>33. CASE NodeCancel
  BY <1>33, ReqKept DEF NodeCancel
<1>34. CASE UNCHANGED vars
  BY <1>34 DEF vars
<1> QED BY <1>1, <1>2, <1>3, <1>4, <1>5, <1>6, <1>7, <1>8, <1>9, <1>10, <1>11,
     <1>12, <1>13, <1>14, <1>15, <1>16, <1>17, <1>18, <1>19, <1>20, <1>21,
     <1>22, <1>23, <1>24, <1>25, <1>26, <1>27, <1>28, <1>29, <1>30, <1>31,
     <1>32, <1>33, <1>34 DEF Next, Browser, Caller, Pump, NodeServes, Reader

\* What an ended response was is final.
EndKept == \A q \in Req : node[q] = "ended" =>
             node'[q] = "ended" /\ produced'[q] = produced[q]

\* No step revives a response the node has ended: only a second req could.
LEMMA EndIsFinal == TypeInv /\ ReqInv /\ [Next]_vars => EndKept
<1> SUFFICES ASSUME TypeInv, ReqInv, [Next]_vars PROVE EndKept
  OBVIOUS
<1> USE DEF TypeInv, TypeOK, LinkType, NodeType, ReqInv, EndKept,
        linkVars, connVars, readVars, callVars, chanVars, pumpVars, nodeVars
<1>1. ASSUME NEW r \in Req, DoRegister(r) PROVE EndKept
  BY <1>1 DEF DoRegister, Refused
<1>2. ASSUME NEW r \in Req, CtxDone(r) PROVE EndKept
  BY <1>2 DEF CtxDone
<1>3. ASSUME NEW r \in Req, BodyClose(r) PROVE EndKept
  BY <1>3 DEF BodyClose, Cancel, Write
<1>4. ASSUME NEW r \in Req, DoWrite(r) PROVE EndKept
  BY <1>4 DEF DoWrite, Write, Settle
<1>5. ASSUME NEW r \in Req, DoCancelled(r) PROVE EndKept
  BY <1>5 DEF DoCancelled, Cancel, Write
<1>6. ASSUME NEW r \in Req, DoDisconnected(r) PROVE EndKept
  BY <1>6 DEF DoDisconnected, Settle
<1>7. ASSUME NEW r \in Req, DoFailed(r) PROVE EndKept
  BY <1>7 DEF DoFailed, Settle
<1>8. ASSUME NEW r \in Req, DoHead(r) PROVE EndKept
  BY <1>8 DEF DoHead
<1>9. ASSUME NEW r \in Req, PumpRecv(r) PROVE EndKept
  BY <1>9 DEF PumpRecv
<1>10. ASSUME NEW r \in Req, PumpEnd(r) PROVE EndKept
  BY <1>10 DEF PumpEnd, Settle
<1>11. ASSUME NEW r \in Req, PumpClosed(r) PROVE EndKept
  BY <1>11 DEF PumpClosed, Settle
<1>12. ASSUME NEW r \in Req, PumpWrite(r) PROVE EndKept
  BY <1>12 DEF PumpWrite
<1>13. ASSUME NEW r \in Req, PumpWriteError(r) PROVE EndKept
  BY <1>13 DEF PumpWriteError, Cancel, Write, Settle
<1>14. ASSUME NEW r \in Req, NodeHead(r) PROVE EndKept
  BY <1>14 DEF NodeHead, NodeSend
<1>15. ASSUME NEW r \in Req, NodeData(r) PROVE EndKept
  BY <1>15 DEF NodeData, NodeSend
<1>16. ASSUME NEW r \in Req, NodeMisSequences(r) PROVE EndKept
  BY <1>16 DEF NodeMisSequences, NodeSend
<1>17. ASSUME NEW r \in Req, NodeEnd(r) PROVE EndKept
  BY <1>17 DEF NodeEnd, NodeSend
<1>18. ASSUME NEW r \in Req, NodeErr(r) PROVE EndKept
  BY <1>18 DEF NodeErr, NodeSend
<1>19. ASSUME NEW r \in Req, ShutdownClose(r) PROVE EndKept
  BY <1>19 DEF ShutdownClose
<1>20. CASE DispatchHead
  BY <1>20 DEF DispatchHead, Incoming
<1>21. CASE DispatchData
  BY <1>21 DEF DispatchData, Incoming, SeqAccepted
<1>22. CASE DispatchEnd
  BY <1>22 DEF DispatchEnd, Incoming, CountAccepted
<1>23. CASE DispatchErr
  BY <1>23 DEF DispatchErr, Incoming
<1>24. CASE SendChunk
  BY <1>24 DEF SendChunk
<1>25. CASE SendPanics
  BY <1>25 DEF SendPanics
<1>26. CASE ReadError
  BY <1>26 DEF ReadError
<1>27. CASE ShutdownDrain
  BY <1>27 DEF ShutdownDrain
<1>28. CASE ShutdownDone
  BY <1>28 DEF ShutdownDone
<1>29. CASE HandlerReturns
  BY <1>29 DEF HandlerReturns, NodeSeesClose
<1>30. CASE LinkDrops
  BY <1>30 DEF LinkDrops, NodeSeesClose
<1>31. CASE HeartbeatLost
  BY <1>31 DEF HeartbeatLost, NodeSeesClose
<1>32. CASE NodeReq
  <2>1. toNode # <<>> /\ Head(toNode) = toNode[1] /\ Head(toNode).t = "req"
    BY <1>32 DEF NodeReq
  <2>2. node[Head(toNode).id] = "idle"
    BY <2>1
  <2> QED BY <1>32, <2>2 DEF NodeReq
<1>33. CASE NodeCancel
  BY <1>33 DEF NodeCancel
<1>34. CASE UNCHANGED vars
  BY <1>34 DEF vars
<1> QED BY <1>1, <1>2, <1>3, <1>4, <1>5, <1>6, <1>7, <1>8, <1>9, <1>10, <1>11,
     <1>12, <1>13, <1>14, <1>15, <1>16, <1>17, <1>18, <1>19, <1>20, <1>21,
     <1>22, <1>23, <1>24, <1>25, <1>26, <1>27, <1>28, <1>29, <1>30, <1>31,
     <1>32, <1>33, <1>34 DEF Next, Browser, Caller, Pump, NodeServes, Reader

\* Frames that leave the queue, and a new one that is true, keep FrameInv.
LEMMA FrameKept ==
  ASSUME TypeInv, FrameInv, EndKept,
         \/ toCP' = toCP \/ toCP' = <<>>
         \/ toCP # <<>> /\ toCP' = Tail(toCP)
         \/ \E n \in 0 .. Len(toCP) : toCP' = SubSeq(toCP, 1, n)
         \/ \E f \in ToCPFrame :
              /\ toCP' = Append(toCP, f)
              /\ f.t = "end" => node'[f.id] = "ended" /\ f.chunks = produced'[f.id]
  PROVE  FrameInv'
<1> USE DEF TypeInv, TypeOK, LinkType, FrameInv
<1>1. \A i \in 1 .. Len(toCP) : toCP[i].t = "end" =>
        /\ node'[toCP[i].id] = "ended"
        /\ toCP[i].chunks = produced'[toCP[i].id]
  BY FrameTypes DEF EndKept
<1>2. CASE toCP' = toCP
  BY <1>1, <1>2
<1>3. CASE toCP' = <<>>
  BY <1>3
<1>4. CASE toCP # <<>> /\ toCP' = Tail(toCP)
  <2>1. \A i \in 1 .. Len(toCP') : /\ i + 1 \in 1 .. Len(toCP)
                                   /\ toCP'[i] = toCP[i + 1]
    BY <1>4
  <2> QED BY <1>1, <2>1
<1>5. ASSUME NEW n \in 0 .. Len(toCP), toCP' = SubSeq(toCP, 1, n)
      PROVE  FrameInv'
  <2>1. \A i \in 1 .. Len(toCP') : /\ i \in 1 .. Len(toCP)
                                   /\ toCP'[i] = toCP[i]
    BY <1>5
  <2> QED BY <1>1, <2>1
<1>6. ASSUME NEW f \in ToCPFrame, toCP' = Append(toCP, f),
             f.t = "end" => node'[f.id] = "ended" /\ f.chunks = produced'[f.id]
      PROVE  FrameInv'
  <2>1. \A i \in 1 .. Len(toCP') : \/ toCP'[i] = f
                                   \/ /\ i \in 1 .. Len(toCP)
                                      /\ toCP'[i] = toCP[i]
    BY <1>6
  <2> QED BY <1>1, <1>6, <2>1
<1> QED BY <1>2, <1>3, <1>4, <1>5, <1>6

\* Every action preserves FrameInv.
LEMMA FrameStep == TypeInv /\ ReqInv /\ FrameInv /\ [Next]_vars => FrameInv'
<1> SUFFICES ASSUME TypeInv, ReqInv, FrameInv, [Next]_vars PROVE FrameInv'
  OBVIOUS
<1>a. EndKept
  BY EndIsFinal
<1> USE FrameTypes
    DEF TypeInv, TypeOK, linkVars, connVars, readVars, callVars, chanVars,
        pumpVars, nodeVars
<1>1. ASSUME NEW r \in Req, DoRegister(r) PROVE FrameInv'
  BY <1>1, <1>a, FrameKept DEF DoRegister, Refused
<1>2. ASSUME NEW r \in Req, CtxDone(r) PROVE FrameInv'
  BY <1>2, <1>a, FrameKept DEF CtxDone
<1>3. ASSUME NEW r \in Req, BodyClose(r) PROVE FrameInv'
  BY <1>3, <1>a, FrameKept DEF BodyClose, Cancel, Write
<1>4. ASSUME NEW r \in Req, DoWrite(r) PROVE FrameInv'
  BY <1>4, <1>a, FrameKept DEF DoWrite, Write, Settle
<1>5. ASSUME NEW r \in Req, DoCancelled(r) PROVE FrameInv'
  BY <1>5, <1>a, FrameKept DEF DoCancelled, Cancel, Write
<1>6. ASSUME NEW r \in Req, DoDisconnected(r) PROVE FrameInv'
  BY <1>6, <1>a, FrameKept DEF DoDisconnected, Settle
<1>7. ASSUME NEW r \in Req, DoFailed(r) PROVE FrameInv'
  BY <1>7, <1>a, FrameKept DEF DoFailed, Settle
<1>8. ASSUME NEW r \in Req, DoHead(r) PROVE FrameInv'
  BY <1>8, <1>a, FrameKept DEF DoHead
<1>9. ASSUME NEW r \in Req, PumpRecv(r) PROVE FrameInv'
  BY <1>9, <1>a, FrameKept DEF PumpRecv
<1>10. ASSUME NEW r \in Req, PumpEnd(r) PROVE FrameInv'
  BY <1>10, <1>a, FrameKept DEF PumpEnd, Settle
<1>11. ASSUME NEW r \in Req, PumpClosed(r) PROVE FrameInv'
  BY <1>11, <1>a, FrameKept DEF PumpClosed, Settle
<1>12. ASSUME NEW r \in Req, PumpWrite(r) PROVE FrameInv'
  BY <1>12, <1>a, FrameKept DEF PumpWrite
<1>13. ASSUME NEW r \in Req, PumpWriteError(r) PROVE FrameInv'
  BY <1>13, <1>a, FrameKept DEF PumpWriteError, Cancel, Write, Settle
<1>14. ASSUME NEW r \in Req, NodeHead(r) PROVE FrameInv'
  BY <1>14, <1>a, FrameKept DEF NodeHead, NodeSend
<1>15. ASSUME NEW r \in Req, NodeData(r) PROVE FrameInv'
  <2>1. [t |-> "data", id |-> r, seq |-> produced[r]] \in ToCPFrame
    BY FrameTypes DEF NodeType
  <2>2. toCP' = Append(toCP, [t |-> "data", id |-> r, seq |-> produced[r]])
    BY <1>15 DEF NodeData, NodeSend
  <2> QED BY <1>a, <2>1, <2>2, FrameKept
<1>16. ASSUME NEW r \in Req, NodeMisSequences(r) PROVE FrameInv'
  <2> DEFINE f == [t |-> "data", id |-> r, seq |-> produced[r] - 1]
  <2>1. \/ toCP' = toCP
        \/ produced[r] > 0 /\ toCP' = Append(toCP, f)
    BY <1>16 DEF NodeMisSequences, NodeSend
  <2>2. produced[r] > 0 => f \in ToCPFrame
    <3>1. produced[r] > 0 => produced[r] - 1 \in 0 .. MaxChunks
      BY BoundsAssumption DEF NodeType
    <3> QED BY <3>1
  <2> QED BY <1>a, <2>1, <2>2, FrameKept
<1>17. ASSUME NEW r \in Req, NodeEnd(r) PROVE FrameInv'
  <2> DEFINE f == [t |-> "end", id |-> r, chunks |-> produced[r]]
  <2>1. /\ toCP' = Append(toCP, f) /\ produced' = produced
        /\ node' = [node EXCEPT ![r] = "ended"]
    BY <1>17 DEF NodeEnd, NodeSend
  <2>2. node'[r] = "ended" /\ f.id = r /\ f.chunks = produced'[r]
    BY <2>1 DEF NodeType
  <2>3. f \in ToCPFrame
    BY FrameTypes DEF NodeType
  <2> HIDE DEF f
  <2> QED BY <1>a, <2>1, <2>2, <2>3, FrameKept
<1>18. ASSUME NEW r \in Req, NodeErr(r) PROVE FrameInv'
  BY <1>18, <1>a, FrameKept DEF NodeErr, NodeSend
<1>19. ASSUME NEW r \in Req, ShutdownClose(r) PROVE FrameInv'
  BY <1>19, <1>a, FrameKept DEF ShutdownClose
<1>20. CASE DispatchHead
  BY <1>20, <1>a, FrameKept DEF DispatchHead, Incoming
<1>21. CASE DispatchData
  BY <1>21, <1>a, FrameKept DEF DispatchData, Incoming, SeqAccepted
<1>22. CASE DispatchEnd
  BY <1>22, <1>a, FrameKept DEF DispatchEnd, Incoming, CountAccepted
<1>23. CASE DispatchErr
  BY <1>23, <1>a, FrameKept DEF DispatchErr, Incoming
<1>24. CASE SendChunk
  BY <1>24, <1>a, FrameKept DEF SendChunk
<1>25. CASE SendPanics
  BY <1>25, <1>a, FrameKept DEF SendPanics
<1>26. CASE ReadError
  BY <1>26, <1>a, FrameKept DEF ReadError
<1>27. CASE ShutdownDrain
  BY <1>27, <1>a, FrameKept DEF ShutdownDrain
<1>28. CASE ShutdownDone
  BY <1>28, <1>a, FrameKept DEF ShutdownDone
<1>29. CASE HandlerReturns
  BY <1>29, <1>a, FrameKept DEF HandlerReturns, NodeSeesClose
<1>30. CASE LinkDrops
  BY <1>30, <1>a, FrameKept DEF LinkDrops, NodeSeesClose
<1>31. CASE HeartbeatLost
  BY <1>31, <1>a, FrameKept DEF HeartbeatLost, NodeSeesClose, ReaderStuck
<1>32. CASE NodeReq
  BY <1>32, <1>a, FrameKept DEF NodeReq
<1>33. CASE NodeCancel
  BY <1>33, <1>a, FrameKept DEF NodeCancel
<1>34. CASE UNCHANGED vars
  BY <1>34, <1>a, FrameKept DEF vars
<1> QED BY <1>1, <1>2, <1>3, <1>4, <1>5, <1>6, <1>7, <1>8, <1>9, <1>10, <1>11,
     <1>12, <1>13, <1>14, <1>15, <1>16, <1>17, <1>18, <1>19, <1>20, <1>21,
     <1>22, <1>23, <1>24, <1>25, <1>26, <1>27, <1>28, <1>29, <1>30, <1>31,
     <1>32, <1>33, <1>34 DEF Next, Browser, Caller, Pump, NodeServes, Reader

\* Steps that do not touch what dispatch holds keep HandInv.
LEMMA HandKept ==
  ASSUME TypeInv, HandInv, EndKept,
         reader' = "send" => UNCHANGED <<reader, hand, nextSeq>>
  PROVE  HandInv'
<1>1. CASE reader' = "send"
  <2>1. /\ reader = "send" /\ hand' = hand /\ nextSeq' = nextSeq
        /\ hand.id \in Req
    BY <1>1 DEF TypeInv
  <2>2. node[hand.id] = "ended" => /\ node'[hand.id] = "ended"
                                  /\ produced'[hand.id] = produced[hand.id]
    BY <2>1 DEF EndKept
  <2> QED BY <2>1, <2>2 DEF HandInv
<1>2. CASE reader' # "send"
  BY <1>2 DEF HandInv
<1> QED BY <1>1, <1>2

\* Every action preserves HandInv.
LEMMA HandStep ==
  TypeInv /\ ReqInv /\ FrameInv /\ HandInv /\ [Next]_vars => HandInv'
<1> SUFFICES ASSUME TypeInv, ReqInv, FrameInv, HandInv, [Next]_vars
             PROVE  HandInv'
  OBVIOUS
<1>a. EndKept
  BY EndIsFinal
<1> USE DEF TypeInv, TypeOK, linkVars, connVars, readVars, callVars, chanVars,
        pumpVars, nodeVars
<1>1. ASSUME NEW r \in Req, DoRegister(r) PROVE HandInv'
  BY <1>1, <1>a, HandKept DEF DoRegister, Refused
<1>2. ASSUME NEW r \in Req, CtxDone(r) PROVE HandInv'
  BY <1>2, <1>a, HandKept DEF CtxDone
<1>3. ASSUME NEW r \in Req, BodyClose(r) PROVE HandInv'
  BY <1>3, <1>a, HandKept DEF BodyClose, Cancel, Write
<1>4. ASSUME NEW r \in Req, DoWrite(r) PROVE HandInv'
  BY <1>4, <1>a, HandKept DEF DoWrite, Write, Settle
<1>5. ASSUME NEW r \in Req, DoCancelled(r) PROVE HandInv'
  BY <1>5, <1>a, HandKept DEF DoCancelled, Cancel, Write
<1>6. ASSUME NEW r \in Req, DoDisconnected(r) PROVE HandInv'
  BY <1>6, <1>a, HandKept DEF DoDisconnected, Settle
<1>7. ASSUME NEW r \in Req, DoFailed(r) PROVE HandInv'
  BY <1>7, <1>a, HandKept DEF DoFailed, Settle
<1>8. ASSUME NEW r \in Req, DoHead(r) PROVE HandInv'
  BY <1>8, <1>a, HandKept DEF DoHead
<1>9. ASSUME NEW r \in Req, PumpRecv(r) PROVE HandInv'
  BY <1>9, <1>a, HandKept DEF PumpRecv
<1>10. ASSUME NEW r \in Req, PumpEnd(r) PROVE HandInv'
  BY <1>10, <1>a, HandKept DEF PumpEnd, Settle
<1>11. ASSUME NEW r \in Req, PumpClosed(r) PROVE HandInv'
  BY <1>11, <1>a, HandKept DEF PumpClosed, Settle
<1>12. ASSUME NEW r \in Req, PumpWrite(r) PROVE HandInv'
  BY <1>12, <1>a, HandKept DEF PumpWrite
<1>13. ASSUME NEW r \in Req, PumpWriteError(r) PROVE HandInv'
  BY <1>13, <1>a, HandKept DEF PumpWriteError, Cancel, Write, Settle
<1>14. ASSUME NEW r \in Req, NodeHead(r) PROVE HandInv'
  BY <1>14, <1>a, HandKept DEF NodeHead, NodeSend
<1>15. ASSUME NEW r \in Req, NodeData(r) PROVE HandInv'
  BY <1>15, <1>a, HandKept DEF NodeData, NodeSend
<1>16. ASSUME NEW r \in Req, NodeMisSequences(r) PROVE HandInv'
  BY <1>16, <1>a, HandKept DEF NodeMisSequences, NodeSend
<1>17. ASSUME NEW r \in Req, NodeEnd(r) PROVE HandInv'
  BY <1>17, <1>a, HandKept DEF NodeEnd, NodeSend
<1>18. ASSUME NEW r \in Req, NodeErr(r) PROVE HandInv'
  BY <1>18, <1>a, HandKept DEF NodeErr, NodeSend
<1>19. ASSUME NEW r \in Req, ShutdownClose(r) PROVE HandInv'
  BY <1>19, <1>a, HandKept DEF ShutdownClose
<1>20. CASE DispatchHead
  BY <1>20, <1>a, HandKept DEF DispatchHead, Incoming
<1>21. CASE DispatchData
  <2> DEFINE f == Head(toCP)
  <2>1. CASE reader' = "send"
    <3>1. /\ hand' = [id |-> f.id, item |-> f.seq] /\ f.seq = nextSeq[f.id]
          /\ nextSeq' = [nextSeq EXCEPT ![f.id] = @ + 1]
          /\ toCP # <<>> /\ f.t = "data"
      BY <1>21, <2>1 DEF DispatchData, Incoming, SeqAccepted
    <3>2. f.id \in Req /\ f.seq \in 0 .. MaxChunks
      BY <3>1, ReceiveType, FrameTypes
    <3> HIDE DEF f
    <3>3. hand'.id = f.id /\ hand'.item = f.seq /\ nextSeq'[f.id] = f.seq + 1
      BY <3>1, <3>2 DEF ChanType
    <3> QED BY <3>2, <3>3 DEF HandInv, Nil
  <2>2. CASE reader' # "send"
    BY <2>2 DEF HandInv
  <2> QED BY <2>1, <2>2
<1>22. CASE DispatchEnd
  <2> DEFINE f == Head(toCP)
  <2>1. CASE reader' = "send"
    <3>1. /\ hand' = [id |-> f.id, item |-> Nil] /\ f.chunks = nextSeq[f.id]
          /\ toCP # <<>> /\ f.t = "end"
          /\ UNCHANGED <<nextSeq, node, produced>>
      BY <1>22, <2>1 DEF DispatchEnd, Incoming, CountAccepted
    <3>2. node[f.id] = "ended" /\ f.chunks = produced[f.id]
      <4>1. f = toCP[1] /\ 1 \in 1 .. Len(toCP)
        BY <3>1 DEF LinkType
      <4> HIDE DEF f
      <4> QED BY <3>1, <4>1 DEF FrameInv
    <3> HIDE DEF f
    <3> QED BY <3>1, <3>2 DEF HandInv
  <2>2. CASE reader' # "send"
    BY <2>2 DEF HandInv
  <2> QED BY <2>1, <2>2
<1>23. CASE DispatchErr
  BY <1>23, <1>a, HandKept DEF DispatchErr, Incoming
<1>24. CASE SendChunk
  BY <1>24, <1>a, HandKept DEF SendChunk
<1>25. CASE SendPanics
  BY <1>25, <1>a, HandKept DEF SendPanics
<1>26. CASE ReadError
  BY <1>26, <1>a, HandKept DEF ReadError
<1>27. CASE ShutdownDrain
  BY <1>27, <1>a, HandKept DEF ShutdownDrain
<1>28. CASE ShutdownDone
  BY <1>28, <1>a, HandKept DEF ShutdownDone
<1>29. CASE HandlerReturns
  BY <1>29, <1>a, HandKept DEF HandlerReturns, NodeSeesClose
<1>30. CASE LinkDrops
  BY <1>30, <1>a, HandKept DEF LinkDrops, NodeSeesClose
<1>31. CASE HeartbeatLost
  BY <1>31, <1>a, HandKept DEF HeartbeatLost, NodeSeesClose, ReaderStuck
<1>32. CASE NodeReq
  BY <1>32, <1>a, HandKept DEF NodeReq
<1>33. CASE NodeCancel
  BY <1>33, <1>a, HandKept DEF NodeCancel
<1>34. CASE UNCHANGED vars
  BY <1>34, <1>a, HandKept DEF vars
<1> QED BY <1>1, <1>2, <1>3, <1>4, <1>5, <1>6, <1>7, <1>8, <1>9, <1>10, <1>11,
     <1>12, <1>13, <1>14, <1>15, <1>16, <1>17, <1>18, <1>19, <1>20, <1>21,
     <1>22, <1>23, <1>24, <1>25, <1>26, <1>27, <1>28, <1>29, <1>30, <1>31,
     <1>32, <1>33, <1>34 DEF Next, Browser, Caller, Pump, NodeServes, Reader

\* What a step leaves alone of the response q.
Kept(q) ==
  /\ chunks'[q] = chunks[q] /\ pump'[q] = pump[q] /\ item'[q] = item[q]
  /\ delivered'[q] = delivered[q] /\ body'[q] = body[q]
  /\ nextSeq'[q] = nextSeq[q] /\ Held(q)' = Held(q) /\ panicked' = panicked

\* Such a step keeps the response in order.
LEMMA ResponseKept ==
  ASSUME NEW q \in Req, ResponseOK(q), EndKept, Kept(q)
  PROVE  ResponseOK(q)'
<1>1. Taken(q)' = Taken(q)
  BY DEF Kept, Taken
<1>2. node[q] = "ended" => node'[q] = "ended" /\ produced'[q] = produced[q]
  BY DEF EndKept
<1>3. ChannelOK(q)'
  BY <1>1, <1>2 DEF ResponseOK, ChannelOK, Kept
<1>4. CountOK(q)'
  BY <1>1 DEF ResponseOK, CountOK, Kept
<1>5. WritingOK(q)' /\ DeliveredOK(q)'
  BY <1>2 DEF ResponseOK, WritingOK, DeliveredOK, Kept
<1> QED BY <1>3, <1>4, <1>5 DEF ResponseOK

\* Every action keeps every response in order.
LEMMA ResponseStep ==
  ASSUME TypeInv, ConnInv, ReqInv, StreamInv, [Next]_vars, NEW q \in Req
  PROVE  ResponseOK(q)'
<1>a. EndKept /\ ResponseOK(q) /\ HandInv /\ LifeInv /\ BodyInv
  BY EndIsFinal DEF StreamInv, ConnInv
<1> USE <1>a
    DEF TypeInv, TypeOK, linkVars, connVars, readVars, callVars, chanVars,
        pumpVars, nodeVars
<1>1. ASSUME NEW r \in Req, DoRegister(r) PROVE ResponseOK(q)'
  BY <1>1, <1>a, ResponseKept DEF Kept, Held, DoRegister, Refused
<1>2. ASSUME NEW r \in Req, CtxDone(r) PROVE ResponseOK(q)'
  BY <1>2, <1>a, ResponseKept DEF Kept, Held, CtxDone
<1>3. ASSUME NEW r \in Req, BodyClose(r) PROVE ResponseOK(q)'
  BY <1>3, <1>a, ResponseKept DEF Kept, Held, BodyClose, Cancel, Write
<1>4. ASSUME NEW r \in Req, DoWrite(r) PROVE ResponseOK(q)'
  BY <1>4, <1>a, ResponseKept DEF Kept, Held, DoWrite, Write, Settle
<1>5. ASSUME NEW r \in Req, DoCancelled(r) PROVE ResponseOK(q)'
  BY <1>5, <1>a, ResponseKept DEF Kept, Held, DoCancelled, Cancel, Write
<1>6. ASSUME NEW r \in Req, DoDisconnected(r) PROVE ResponseOK(q)'
  BY <1>6, <1>a, ResponseKept DEF Kept, Held, DoDisconnected, Settle
<1>7. ASSUME NEW r \in Req, DoFailed(r) PROVE ResponseOK(q)'
  BY <1>7, <1>a, ResponseKept DEF Kept, Held, DoFailed, Settle
<1>8. ASSUME NEW r \in Req, DoHead(r) PROVE ResponseOK(q)'
  <2>1. CASE q # r
    BY <1>8, <2>1, <1>a, ResponseKept DEF Kept, Held, DoHead
  <2>2. CASE q = r
    <3>1. /\ pump[q] = "none" /\ pump'[q] = "recv" /\ body'[q] = "open"
          /\ UNCHANGED <<chunks, nextSeq, delivered, item, reader, hand,
                         panicked, node, produced>>
      BY <1>8, <2>2 DEF DoHead, BodyInv, PumpType
    <3>2. Taken(q)' = Taken(q) /\ Held(q)' = Held(q)
      BY <3>1 DEF Taken, Held
    <3> QED BY <3>1, <3>2 DEF ResponseOK, ChannelOK, CountOK, WritingOK,
                              DeliveredOK
  <2> QED BY <2>1, <2>2
<1>9. ASSUME NEW r \in Req, PumpRecv(r) PROVE ResponseOK(q)'
  <2>1. CASE q # r
    BY <1>9, <2>1, <1>a, ResponseKept DEF Kept, Held, PumpRecv
  <2>2. CASE q = r
    <3>1. /\ pump[q] = "recv" /\ pump'[q] = "write" /\ chunks[q] # <<>>
          /\ chunks[q][1] # Nil /\ item'[q] = chunks[q][1]
          /\ chunks'[q] = Tail(chunks[q])
          /\ UNCHANGED <<nextSeq, delivered, body, reader, hand, panicked,
                         node, produced>>
      BY <1>9, <2>2 DEF PumpRecv, PumpType, ChanType
    <3>2. Taken(q)' = Taken(q) + 1 /\ Held(q)' = Held(q)
      BY <3>1 DEF Taken, Held
    <3>3. /\ Taken(q) = Len(delivered[q]) /\ Taken(q) \in Nat
          /\ Len(chunks[q]) \in Nat /\ Len(chunks[q]) >= 1
      BY <3>1 DEF Taken, PumpType, ChanType
    <3>4. /\ Len(chunks'[q]) = Len(chunks[q]) - 1
          /\ \A i \in 1 .. Len(chunks[q]) - 1 : chunks'[q][i] = chunks[q][i + 1]
      BY <3>1 DEF ChanType
    <3>5. item'[q] = Len(delivered[q])
      BY <3>1, <3>3 DEF ResponseOK, ChannelOK
    <3>6. ChannelOK(q)'
      <4>1. SUFFICES ASSUME NEW i \in 1 .. Len(chunks'[q]),
                            \A j \in 1 .. i - 1 : chunks'[q][j] # Nil
                     PROVE  IF chunks'[q][i] = Nil
                            THEN /\ node'[q] = "ended"
                                 /\ produced'[q] = Taken(q)' + i - 1
                            ELSE chunks'[q][i] = Taken(q)' + i - 1
        BY DEF ChannelOK
      <4>2. i + 1 \in 1 .. Len(chunks[q]) /\ chunks'[q][i] = chunks[q][i + 1]
        BY <3>3, <3>4
      <4>3. ASSUME NEW j \in 1 .. (i + 1) - 1 PROVE chunks[q][j] # Nil
        <5>1. CASE j = 1
          BY <5>1, <3>1
        <5>2. CASE j # 1
          <6>1. j - 1 \in 1 .. i - 1 /\ j - 1 \in 1 .. Len(chunks[q]) - 1
            BY <3>3, <3>4, <5>2
          <6>2. chunks'[q][j - 1] = chunks[q][(j - 1) + 1]
            BY <3>4, <6>1
          <6> QED BY <4>1, <6>1, <6>2
        <5> QED BY <5>1, <5>2
      <4>4. IF chunks[q][i + 1] = Nil
            THEN node[q] = "ended" /\ produced[q] = Taken(q) + (i + 1) - 1
            ELSE chunks[q][i + 1] = Taken(q) + (i + 1) - 1
        BY <3>1, <4>2, <4>3 DEF ResponseOK, ChannelOK
      <4> QED BY <3>1, <3>2, <3>3, <4>2, <4>4
    <3>7. CountOK(q)'
      <4>1. SUFFICES ASSUME ~panicked',
                            \A j \in 1 .. Len(chunks'[q]) : chunks'[q][j] # Nil
                     PROVE  nextSeq'[q] = Taken(q)' + Len(chunks'[q]) + Held(q)'
        BY DEF CountOK
      <4>2. ASSUME NEW j \in 1 .. Len(chunks[q]) PROVE chunks[q][j] # Nil
        <5>1. CASE j = 1
          BY <5>1, <3>1
        <5>2. CASE j # 1
          <6>1. j - 1 \in 1 .. Len(chunks'[q])
            BY <3>3, <3>4, <5>2
          <6>2. chunks'[q][j - 1] = chunks[q][(j - 1) + 1]
            BY <3>4, <6>1
          <6> QED BY <4>1, <6>1, <6>2
        <5> QED BY <5>1, <5>2
      <4>3. nextSeq[q] = Taken(q) + Len(chunks[q]) + Held(q)
        BY <3>1, <4>1, <4>2 DEF ResponseOK, CountOK
      <4>4. Held(q) \in Nat
        BY DEF Held
      <4>5. nextSeq'[q] = nextSeq[q]
        BY <3>1
      <4>6. Taken(q)' + Len(chunks'[q]) + Held(q)'
             = (Taken(q) + 1) + (Len(chunks[q]) - 1) + Held(q)
        BY <3>2, <3>4
      <4>7. (Taken(q) + 1) + (Len(chunks[q]) - 1) + Held(q)
             = Taken(q) + Len(chunks[q]) + Held(q)
        <5>1. \A a, b, c \in Nat : (a + 1) + (b - 1) + c = a + b + c
          OBVIOUS
        <5> QED BY <3>3, <4>4, <5>1
      <4> QED BY <4>3, <4>5, <4>6, <4>7
    <3> QED BY <3>1, <3>5, <3>6, <3>7 DEF ResponseOK, WritingOK, DeliveredOK
  <2> QED BY <2>1, <2>2
<1>10. ASSUME NEW r \in Req, PumpEnd(r) PROVE ResponseOK(q)'
  <2>1. CASE q # r
    BY <1>10, <2>1, <1>a, ResponseKept DEF Kept, Held, PumpEnd, Settle
  <2>2. CASE q = r
    <3>1. /\ pump[q] = "recv" /\ pump'[q] = "exited" /\ chunks[q] # <<>>
          /\ chunks[q][1] = Nil /\ body'[q] = "eof"
          /\ UNCHANGED <<delivered, node, produced>>
      BY <1>10, <2>2 DEF PumpEnd, PumpType, ChanType
    <3>2. node[q] = "ended" /\ produced[q] = Len(delivered[q])
      <4>1. 1 \in 1 .. Len(chunks[q])
        BY <3>1 DEF ChanType
      <4>2. node[q] = "ended" /\ produced[q] = Taken(q) + 1 - 1
        BY <3>1, <4>1 DEF ResponseOK, ChannelOK
      <4>3. Taken(q) = Len(delivered[q]) /\ Taken(q) \in Nat
        BY <3>1 DEF Taken, PumpType
      <4> QED BY <4>2, <4>3
    <3> QED BY <3>1, <3>2 DEF ResponseOK, ChannelOK, CountOK, WritingOK,
                              DeliveredOK
  <2> QED BY <2>1, <2>2
<1>11. ASSUME NEW r \in Req, PumpClosed(r) PROVE ResponseOK(q)'
  <2>1. CASE q # r
    BY <1>11, <2>1, <1>a, ResponseKept DEF Kept, Held, PumpClosed, Settle
  <2>2. CASE q = r
    <3>1. /\ pump'[q] = "exited" /\ body'[q] = "error"
          /\ UNCHANGED delivered
      BY <1>11, <2>2 DEF PumpClosed, PumpType
    <3> QED BY <3>1 DEF ResponseOK, ChannelOK, CountOK, WritingOK, DeliveredOK
  <2> QED BY <2>1, <2>2
<1>12. ASSUME NEW r \in Req, PumpWrite(r) PROVE ResponseOK(q)'
  <2>1. CASE q # r
    BY <1>12, <2>1, <1>a, ResponseKept DEF Kept, Held, PumpWrite
  <2>2. CASE q = r
    <3>1. /\ pump[q] = "write" /\ pump'[q] = "recv"
          /\ delivered'[q] = Append(delivered[q], item[q])
          /\ UNCHANGED <<chunks, nextSeq, item, body, reader, hand, panicked,
                         node, produced>>
      BY <1>12, <2>2 DEF PumpWrite, PumpType
    <3>2. /\ item[q] = Len(delivered[q]) /\ Len(delivered[q]) \in Nat
          /\ body[q] # "eof"
      BY <3>1 DEF ResponseOK, WritingOK, PumpType
    <3>3. /\ Len(delivered'[q]) = Len(delivered[q]) + 1
          /\ \A i \in 1 .. Len(delivered[q]) : delivered'[q][i] = delivered[q][i]
          /\ delivered'[q][Len(delivered[q]) + 1] = item[q]
      BY <3>1 DEF PumpType
    <3>4. Taken(q)' = Taken(q) /\ Held(q)' = Held(q)
      BY <3>1, <3>3 DEF Taken, Held
    <3>5. ChannelOK(q)' /\ CountOK(q)'
      BY <3>1, <3>4 DEF ResponseOK, ChannelOK, CountOK
    <3>6. DeliveredOK(q)'
      <4>1. \A i \in 1 .. Len(delivered'[q]) : delivered'[q][i] = i - 1
        <5> TAKE i \in 1 .. Len(delivered'[q])
        <5>1. CASE i \in 1 .. Len(delivered[q])
          BY <3>3, <5>1 DEF ResponseOK, DeliveredOK
        <5>2. CASE i = Len(delivered[q]) + 1
          BY <3>2, <3>3, <5>2
        <5> QED BY <3>2, <3>3, <5>1, <5>2
      <4> QED BY <3>1, <3>2, <4>1 DEF DeliveredOK
    <3> QED BY <3>1, <3>2, <3>5, <3>6 DEF ResponseOK, WritingOK
  <2> QED BY <2>1, <2>2
<1>13. ASSUME NEW r \in Req, PumpWriteError(r) PROVE ResponseOK(q)'
  <2>1. CASE q # r
    BY <1>13, <2>1, <1>a, ResponseKept DEF Kept, Held, PumpWriteError, Settle
  <2>2. CASE q = r
    <3>1. /\ pump'[q] = "exited" /\ body'[q] = "error"
          /\ UNCHANGED delivered
      BY <1>13, <2>2 DEF PumpWriteError, PumpType
    <3> QED BY <3>1 DEF ResponseOK, ChannelOK, CountOK, WritingOK, DeliveredOK
  <2> QED BY <2>1, <2>2
<1>14. ASSUME NEW r \in Req, NodeHead(r) PROVE ResponseOK(q)'
  BY <1>14, <1>a, ResponseKept DEF Kept, Held, NodeHead, NodeSend
<1>15. ASSUME NEW r \in Req, NodeData(r) PROVE ResponseOK(q)'
  BY <1>15, <1>a, ResponseKept DEF Kept, Held, NodeData, NodeSend
<1>16. ASSUME NEW r \in Req, NodeMisSequences(r) PROVE ResponseOK(q)'
  BY <1>16, <1>a, ResponseKept DEF Kept, Held, NodeMisSequences, NodeSend
<1>17. ASSUME NEW r \in Req, NodeEnd(r) PROVE ResponseOK(q)'
  BY <1>17, <1>a, ResponseKept DEF Kept, Held, NodeEnd, NodeSend
<1>18. ASSUME NEW r \in Req, NodeErr(r) PROVE ResponseOK(q)'
  BY <1>18, <1>a, ResponseKept DEF Kept, Held, NodeErr, NodeSend
<1>19. ASSUME NEW r \in Req, ShutdownClose(r) PROVE ResponseOK(q)'
  BY <1>19, <1>a, ResponseKept DEF Kept, Held, ShutdownClose
<1>20. CASE DispatchHead
  BY <1>20, <1>a, ResponseKept DEF Kept, Held, DispatchHead, Incoming
<1>21. CASE DispatchData
  <2> DEFINE f == Head(toCP)
  <2>1. /\ reader = "read" /\ f.id \in Req
        /\ UNCHANGED <<chunks, pump, delivered, item, body, panicked, node,
                       produced>>
    BY <1>21, ReceiveType, FrameTypes DEF DispatchData, Incoming
  <2>2. CASE reader' = "send" /\ q = f.id
    <3>1. /\ hand' = [id |-> f.id, item |-> f.seq]
          /\ nextSeq' = [nextSeq EXCEPT ![f.id] = @ + 1]
          /\ f.seq \in 0 .. MaxChunks
      BY <1>21, <2>2, ReceiveType, FrameTypes DEF DispatchData, Incoming
    <3>2. Held(q) = 0 /\ Held(q)' = 1 /\ Taken(q)' = Taken(q)
      BY <2>1, <2>2, <3>1 DEF Held, Taken, Nil
    <3>3. nextSeq'[q] = nextSeq[q] + 1
      BY <2>1, <2>2, <3>1 DEF ChanType
    <3> HIDE DEF f
    <3>4. Taken(q) \in Nat /\ Len(chunks[q]) \in Nat
      BY DEF Taken, PumpType, ChanType
    <3>5. CountOK(q)'
      BY <2>1, <3>2, <3>3, <3>4 DEF ResponseOK, CountOK
    <3> QED BY <2>1, <3>2, <3>5 DEF ResponseOK, ChannelOK, WritingOK,
        DeliveredOK
  <2>3. CASE ~(reader' = "send" /\ q = f.id)
    <3>1. nextSeq'[q] = nextSeq[q] /\ Held(q)' = Held(q)
      BY <1>21, <2>1, <2>3 DEF DispatchData, ChanType, Held
    <3> QED BY <1>a, <2>1, <3>1, ResponseKept DEF Kept
  <2> QED BY <2>2, <2>3
<1>22. CASE DispatchEnd
  <2>1. Held(q)' = Held(q)
    BY <1>22 DEF DispatchEnd, Incoming, Held
  <2> QED BY <1>22, <1>a, <2>1, ResponseKept DEF DispatchEnd, Kept
<1>23. CASE DispatchErr
  BY <1>23, <1>a, ResponseKept DEF Kept, Held, DispatchErr, Incoming
<1>24. CASE SendChunk
  <2>1. /\ reader = "send" /\ reader' = "read" /\ hand.id \in Req
        /\ chunks' = [chunks EXCEPT ![hand.id] = Append(@, hand.item)]
        /\ UNCHANGED <<nextSeq, pump, delivered, item, body, panicked, node,
                       produced>>
    BY <1>24 DEF SendChunk
  <2>2. CASE q # hand.id
    BY <1>a, <2>1, <2>2, ResponseKept DEF Kept, Held, ChanType
  <2>3. CASE q = hand.id
    <3> DEFINE n == Len(chunks[q])
    <3>1. /\ n \in Nat /\ Len(chunks'[q]) = n + 1
          /\ \A i \in 1 .. n : chunks'[q][i] = chunks[q][i]
          /\ chunks'[q][n + 1] = hand.item
      BY <2>1, <2>3 DEF ChanType
    <3>2. Taken(q)' = Taken(q) /\ Held(q)' = 0 /\ Taken(q) \in Nat
      BY <2>1 DEF Taken, Held, PumpType
    <3>3. ~panicked
      BY <2>1 DEF LifeInv
    <3> HIDE DEF n
    <3>4. ASSUME pump[q] # "exited", \A j \in 1 .. n : chunks[q][j] # Nil
          PROVE  IF hand.item = Nil
                 THEN node[q] = "ended" /\ produced[q] = Taken(q) + n
                 ELSE hand.item = Taken(q) + n /\ nextSeq[q] = Taken(q) + n + 1
      <4>1. nextSeq[q] = Taken(q) + n + Held(q)
        BY <3>3, <3>4 DEF ResponseOK, CountOK, n
      <4>2. CASE hand.item = Nil
        BY <2>1, <2>3, <3>1, <3>2, <4>1, <4>2 DEF HandInv, Held
      <4>3. CASE hand.item # Nil
        BY <2>1, <2>3, <3>1, <3>2, <4>1, <4>3 DEF HandInv, Held
      <4> QED BY <4>2, <4>3
    <3>5. ChannelOK(q)'
      <4>1. SUFFICES ASSUME pump'[q] # "exited", NEW i \in 1 .. n + 1,
                            \A j \in 1 .. i - 1 : chunks'[q][j] # Nil
                     PROVE  IF chunks'[q][i] = Nil
                            THEN /\ node'[q] = "ended"
                                 /\ produced'[q] = Taken(q)' + i - 1
                            ELSE chunks'[q][i] = Taken(q)' + i - 1
        BY <3>1 DEF ChannelOK
      <4>2. ASSUME NEW j \in 1 .. i - 1 PROVE chunks[q][j] # Nil
        <5>1. j \in 1 .. n
          BY <3>1
        <5> QED BY <3>1, <4>1, <5>1
      <4>3. CASE i \in 1 .. n
        BY <2>1, <3>1, <3>2, <4>1, <4>2, <4>3 DEF ResponseOK, ChannelOK, n
      <4>4. CASE i = n + 1
        BY <2>1, <3>1, <3>2, <3>4, <4>1, <4>2, <4>4
      <4> QED BY <3>1, <4>3, <4>4
    <3>6. CountOK(q)'
      <4>1. SUFFICES ASSUME pump'[q] # "exited",
                            \A j \in 1 .. n + 1 : chunks'[q][j] # Nil
                     PROVE  nextSeq'[q] = Taken(q)' + (n + 1) + Held(q)'
        BY <3>1 DEF CountOK
      <4>2. /\ n + 1 \in 1 .. n + 1
            /\ \A j \in 1 .. n : j \in 1 .. n + 1
        BY <3>1
      <4>3. hand.item # Nil /\ \A j \in 1 .. n : chunks[q][j] # Nil
        BY <3>1, <4>1, <4>2
      <4> QED BY <2>1, <3>1, <3>2, <3>4, <4>1, <4>3
    <3> QED BY <2>1, <3>5, <3>6 DEF ResponseOK, WritingOK, DeliveredOK
  <2> QED BY <2>2, <2>3
<1>25. CASE SendPanics
  <2>1. /\ panicked'
        /\ UNCHANGED <<chunks, pump, delivered, item, body, node, produced>>
    BY <1>25 DEF SendPanics
  <2>2. Taken(q)' = Taken(q)
    BY <2>1 DEF Taken
  <2> QED BY <2>1, <2>2 DEF ResponseOK, ChannelOK, CountOK, WritingOK,
                            DeliveredOK
<1>26. CASE ReadError
  BY <1>26, <1>a, ResponseKept DEF Kept, Held, ReadError
<1>27. CASE ShutdownDrain
  BY <1>27, <1>a, ResponseKept DEF Kept, Held, ShutdownDrain
<1>28. CASE ShutdownDone
  BY <1>28, <1>a, ResponseKept DEF Kept, Held, ShutdownDone
<1>29. CASE HandlerReturns
  BY <1>29, <1>a, ResponseKept DEF Kept, Held, HandlerReturns
<1>30. CASE LinkDrops
  BY <1>30, <1>a, ResponseKept DEF Kept, Held, LinkDrops
<1>31. CASE HeartbeatLost
  BY <1>31, <1>a, ResponseKept DEF Kept, Held, HeartbeatLost
<1>32. CASE NodeReq
  BY <1>32, <1>a, ResponseKept DEF Kept, Held, NodeReq
<1>33. CASE NodeCancel
  BY <1>33, <1>a, ResponseKept DEF Kept, Held, NodeCancel
<1>34. CASE UNCHANGED vars
  BY <1>34, <1>a, ResponseKept DEF Kept, Held, vars
<1> QED BY <1>1, <1>2, <1>3, <1>4, <1>5, <1>6, <1>7, <1>8, <1>9, <1>10, <1>11,
     <1>12, <1>13, <1>14, <1>15, <1>16, <1>17, <1>18, <1>19, <1>20, <1>21,
     <1>22, <1>23, <1>24, <1>25, <1>26, <1>27, <1>28, <1>29, <1>30, <1>31,
     <1>32, <1>33, <1>34 DEF Next, Browser, Caller, Pump, NodeServes, Reader

\* Init establishes the stream invariant.
LEMMA StreamInit == Init => StreamInv
<1> SUFFICES ASSUME Init PROVE StreamInv
  OBVIOUS
<1>1. FrameInv /\ HandInv
  BY DEF Init, FrameInv, HandInv
<1>2. \A r \in Req : Taken(r) = 0 /\ Held(r) = 0
  BY DEF Init, Taken, Held
<1>3. \A r \in Req : ResponseOK(r)
  BY <1>2 DEF Init, ResponseOK, ChannelOK, CountOK, WritingOK, DeliveredOK
<1> QED BY <1>1, <1>3 DEF StreamInv

\* Every action preserves it.
LEMMA StreamStep ==
  TypeInv /\ ConnInv /\ ReqInv /\ StreamInv /\ [Next]_vars => StreamInv'
<1> SUFFICES ASSUME TypeInv, ConnInv, ReqInv, StreamInv, [Next]_vars
             PROVE  StreamInv'
  OBVIOUS
<1>1. FrameInv' /\ HandInv'
  BY FrameStep, HandStep DEF StreamInv
<1>2. \A r \in Req : ResponseOK(r)'
  BY ResponseStep
<1> QED BY <1>1, <1>2 DEF StreamInv

\* The reader of a body receives a gapless prefix of what the node produced,
\* whatever the node does to its sequence numbers.
THEOREM StreamIntegrityHolds == Spec => []StreamIntegrity
<1>1. StreamInv => StreamIntegrity
  BY DEF StreamInv, ResponseOK, DeliveredOK, StreamIntegrity
<1> QED BY <1>1, TypeInit, TypeStep, ConnInit, ConnStep, ReqInit, ReqStep,
           StreamInit, StreamStep, PTL DEF Spec

\* A body ends cleanly only when all the node produced was delivered.
THEOREM CleanEOFHolds == Spec => []CleanEOF
<1>1. StreamInv => CleanEOF
  BY DEF StreamInv, ResponseOK, DeliveredOK, CleanEOF
<1> QED BY <1>1, TypeInit, TypeStep, ConnInit, ConnStep, ReqInit, ReqStep,
           StreamInit, StreamStep, PTL DEF Spec

-----------------------------------------------------------------------------
(* UplinkConn implements RequestContract.                                  *)

\* The node has begun to answer, or never will.
Begun(s) == s \notin {"idle", "serving"}

\* A head is true of the node that sent it, and a chunk has been produced.
TruthInv ==
  /\ \A r \in Req : head[r] => Begun(node[r])
  /\ \A r \in Req : nextSeq[r] <= produced[r]
  /\ \A i \in 1 .. Len(toCP) :
       /\ toCP[i].t = "head" => Begun(node[toCP[i].id])
       /\ toCP[i].t = "data" => toCP[i].seq < produced[toCP[i].id]

\* So has every chunk between dispatch and the reader of the body; a pump at
\* work writes into an open body.
CarryOK(r) ==
  /\ \A i \in 1 .. Len(chunks[r]) : chunks[r][i] < produced[r]
  /\ pump[r] = "write" => item[r] < produced[r]
  /\ pump[r] \in {"recv", "write"} => body[r] = "open"

CarryInv == \A r \in Req : CarryOK(r)

\* The node takes back neither a chunk nor the beginning of an answer.
OnlyMore ==
  \A r \in Req : produced'[r] >= produced[r] /\ (Begun(node[r]) => Begun(node'[r]))

\* Steps that leave heads and counts as they are, and take frames away or add a
\* true one, keep TruthInv.
LEMMA TruthKept ==
  ASSUME TypeInv, TypeInv', TruthInv, OnlyMore,
         \A r \in Req : head'[r] => head[r] \/ Begun(node'[r]),
         \A r \in Req : nextSeq'[r] <= produced'[r],
         \/ toCP' = toCP \/ toCP' = <<>>
         \/ toCP # <<>> /\ toCP' = Tail(toCP)
         \/ \E n \in 0 .. Len(toCP) : toCP' = SubSeq(toCP, 1, n)
         \/ \E f \in ToCPFrame :
              /\ toCP' = Append(toCP, f)
              /\ f.t = "head" => Begun(node'[f.id])
              /\ f.t = "data" => f.seq < produced'[f.id]
  PROVE  TruthInv'
<1> DEFINE True(f) == /\ f.t = "head" => Begun(node'[f.id])
                      /\ f.t = "data" => f.seq < produced'[f.id]
<1>1. \A i \in 1 .. Len(toCP) : True(toCP[i])
  <2> SUFFICES ASSUME NEW i \in 1 .. Len(toCP) PROVE True(toCP[i])
    OBVIOUS
  <2>1. toCP[i] \in ToCPFrame
    BY DEF TypeInv, TypeOK, LinkType
  <2>2. toCP[i].id \in Req /\ (toCP[i].t = "data" => toCP[i].seq \in Nat)
    BY <2>1, FrameTypes, BoundsAssumption
  <2>3. produced[toCP[i].id] \in Nat /\ produced'[toCP[i].id] \in Nat
    BY <2>2, BoundsAssumption DEF TypeInv, TypeOK, NodeType
  <2>4. toCP[i].t = "head" => Begun(node'[toCP[i].id])
    BY <2>2 DEF TruthInv, OnlyMore
  <2>5. toCP[i].t = "data" => toCP[i].seq < produced'[toCP[i].id]
    <3>1. produced'[toCP[i].id] >= produced[toCP[i].id]
      BY <2>2 DEF OnlyMore
    <3>2. toCP[i].t = "data" => toCP[i].seq < produced[toCP[i].id]
      BY DEF TruthInv
    <3> QED BY <2>2, <2>3, <3>1, <3>2
  <2> QED BY <2>4, <2>5
<1>2. \A i \in 1 .. Len(toCP') : True(toCP'[i])
  <2> USE <1>1 DEF TypeInv, TypeOK, LinkType
  <2> HIDE DEF True
  <2>1. CASE toCP' = toCP \/ toCP' = <<>>
    BY <2>1
  <2>2. CASE toCP # <<>> /\ toCP' = Tail(toCP)
    <3>1. \A i \in 1 .. Len(toCP') : /\ i + 1 \in 1 .. Len(toCP)
                                     /\ toCP'[i] = toCP[i + 1]
      BY <2>2
    <3> QED BY <3>1
  <2>3. ASSUME NEW n \in 0 .. Len(toCP), toCP' = SubSeq(toCP, 1, n)
        PROVE  \A i \in 1 .. Len(toCP') : True(toCP'[i])
    <3>1. \A i \in 1 .. Len(toCP') : /\ i \in 1 .. Len(toCP)
                                     /\ toCP'[i] = toCP[i]
      BY <2>3
    <3> QED BY <3>1
  <2>4. ASSUME NEW f \in ToCPFrame, toCP' = Append(toCP, f), True(f)
        PROVE  \A i \in 1 .. Len(toCP') : True(toCP'[i])
    <3>1. \A i \in 1 .. Len(toCP') : \/ toCP'[i] = f
                                     \/ /\ i \in 1 .. Len(toCP)
                                        /\ toCP'[i] = toCP[i]
      BY <2>4
    <3> QED BY <2>4, <3>1
  <2> QED BY <2>1, <2>2, <2>3, <2>4 DEF True
<1>3. \A r \in Req : head'[r] => Begun(node'[r])
  BY DEF TruthInv, OnlyMore
<1> QED BY <1>2, <1>3 DEF TruthInv, Begun

\* Init establishes TruthInv, and every action preserves it.
LEMMA TruthInit == Init => TruthInv
BY BoundsAssumption DEF Init, TruthInv

\* Every action preserves TruthInv.
LEMMA TruthStep == TypeInv /\ ReqInv /\ TruthInv /\ [Next]_vars => TruthInv'
<1> SUFFICES ASSUME TypeInv, ReqInv, TruthInv, [Next]_vars PROVE TruthInv'
  OBVIOUS
<1> USE TypeStep
<1> USE DEF linkVars, connVars, readVars, callVars, chanVars, pumpVars, nodeVars
<1>0. ASSUME UNCHANGED <<toCP, head, nextSeq, node, produced>> PROVE TruthInv'
  BY <1>0 DEF TruthInv
<1>n. \A r \in Req : nextSeq[r] \in Nat /\ produced[r] \in Nat
  BY BoundsAssumption DEF TypeInv, TypeOK, ChanType, NodeType
<1>k. ASSUME UNCHANGED <<node, produced>> PROVE OnlyMore
  BY <1>k, <1>n DEF OnlyMore
<1>1. ASSUME NEW r \in Req, DoRegister(r) PROVE TruthInv'
  BY <1>0, <1>1 DEF DoRegister
<1>2. ASSUME NEW r \in Req, CtxDone(r) PROVE TruthInv'
  BY <1>0, <1>2 DEF CtxDone
<1>3. ASSUME NEW r \in Req, BodyClose(r) PROVE TruthInv'
  BY <1>0, <1>3 DEF BodyClose
<1>4. ASSUME NEW r \in Req, DoWrite(r) PROVE TruthInv'
  BY <1>0, <1>4 DEF DoWrite
<1>5. ASSUME NEW r \in Req, DoCancelled(r) PROVE TruthInv'
  BY <1>0, <1>5 DEF DoCancelled
<1>6. ASSUME NEW r \in Req, DoDisconnected(r) PROVE TruthInv'
  BY <1>0, <1>6 DEF DoDisconnected
<1>7. ASSUME NEW r \in Req, DoFailed(r) PROVE TruthInv'
  BY <1>0, <1>7 DEF DoFailed
<1>8. ASSUME NEW r \in Req, DoHead(r) PROVE TruthInv'
  <2>1. UNCHANGED <<toCP, nextSeq, node, produced>>
    BY <1>8 DEF DoHead
  <2>2. \A q \in Req : head'[q] => head[q]
    BY <1>8 DEF DoHead, TypeInv, TypeOK, CallType
  <2> QED BY <2>1, <2>2 DEF TruthInv
<1>9. ASSUME NEW r \in Req, PumpRecv(r) PROVE TruthInv'
  BY <1>0, <1>9 DEF PumpRecv
<1>10. ASSUME NEW r \in Req, PumpEnd(r) PROVE TruthInv'
  BY <1>0, <1>10 DEF PumpEnd
<1>11. ASSUME NEW r \in Req, PumpClosed(r) PROVE TruthInv'
  BY <1>0, <1>11 DEF PumpClosed
<1>12. ASSUME NEW r \in Req, PumpWrite(r) PROVE TruthInv'
  BY <1>0, <1>12 DEF PumpWrite
<1>13. ASSUME NEW r \in Req, PumpWriteError(r) PROVE TruthInv'
  BY <1>0, <1>13 DEF PumpWriteError
<1>14. ASSUME NEW r \in Req, NodeHead(r) PROVE TruthInv'
  <2> DEFINE f == [t |-> "head", id |-> r]
  <2>1. /\ toCP' = Append(toCP, f) /\ f \in ToCPFrame
        /\ f.t = "head" /\ f.id = r
    BY <1>14, FrameTypes DEF NodeHead, NodeSend
  <2>2. UNCHANGED <<head, nextSeq, produced>>
    BY <1>14 DEF NodeHead
  <2>3. node' = [node EXCEPT ![r] = "streaming"] /\ Begun("streaming")
    BY <1>14 DEF NodeHead, Begun
  <2>4. Begun(node'[r]) /\ (\A q \in Req : Begun(node[q]) => Begun(node'[q]))
    BY <2>3 DEF TypeInv, TypeOK, NodeType
  <2>5. OnlyMore
    BY <2>2, <2>4, <1>n DEF OnlyMore
  <2> HIDE DEF f
  <2>6. \A q \in Req : nextSeq'[q] <= produced'[q]
    BY <2>2 DEF TruthInv
  <2>7. f.t = "data" => f.seq < produced'[f.id]
    BY <2>1
  <2> QED BY <2>1, <2>2, <2>4, <2>5, <2>6, <2>7, TruthKept
<1>15. ASSUME NEW r \in Req, NodeData(r) PROVE TruthInv'
  <2> DEFINE f == [t |-> "data", id |-> r, seq |-> produced[r]]
  <2>1. /\ toCP' = Append(toCP, f) /\ f.t = "data" /\ f.id = r
        /\ f.seq = produced[r]
    BY <1>15 DEF NodeData, NodeSend
  <2>2. f \in ToCPFrame
    BY FrameTypes DEF TypeInv, TypeOK, NodeType
  <2>3. UNCHANGED <<head, nextSeq, node>>
    BY <1>15 DEF NodeData
  <2>4. produced' = [produced EXCEPT ![r] = @ + 1]
    BY <1>15 DEF NodeData
  <2>5. /\ produced'[r] = produced[r] + 1
        /\ \A q \in Req : produced'[q] >= produced[q]
    BY <2>4, <1>n DEF TypeInv, TypeOK, NodeType
  <2>6. produced'[r] \in Nat /\ \A q \in Req : produced'[q] \in Nat
    BY BoundsAssumption DEF TypeInv, TypeOK, NodeType
  <2> HIDE DEF f
  <2>7. OnlyMore
    BY <2>3, <2>5 DEF OnlyMore
  <2>8. \A q \in Req : nextSeq'[q] <= produced'[q]
    BY <2>3, <2>5, <2>6, <1>n DEF TruthInv
  <2>9. f.t = "data" => f.seq < produced'[f.id]
    BY <2>1, <2>5, <1>n
  <2> QED BY <2>1, <2>2, <2>3, <2>7, <2>8, <2>9, TruthKept
<1>16. ASSUME NEW r \in Req, NodeMisSequences(r) PROVE TruthInv'
  <2>1. UNCHANGED <<head, nextSeq, node>>
    BY <1>16 DEF NodeMisSequences
  <2>2. CASE produced' = [produced EXCEPT ![r] = @ + 1] /\ UNCHANGED toCP
    <3>1. \A q \in Req : produced'[q] >= produced[q] /\ produced'[q] \in Nat
      BY <2>2, <1>n DEF TypeInv, TypeOK, NodeType
    <3>2. OnlyMore
      BY <2>1, <3>1 DEF OnlyMore
    <3>3. \A q \in Req : nextSeq'[q] <= produced'[q]
      BY <2>1, <3>1, <1>n DEF TruthInv
    <3> QED BY <2>1, <2>2, <3>2, <3>3, TruthKept
  <2>3. CASE /\ produced[r] > 0 /\ UNCHANGED produced
             /\ NodeSend([t |-> "data", id |-> r, seq |-> produced[r] - 1])
    <3> DEFINE f == [t |-> "data", id |-> r, seq |-> produced[r] - 1]
    <3>1. /\ toCP' = Append(toCP, f) /\ f.t = "data" /\ f.id = r
          /\ f.seq = produced[r] - 1
      BY <2>3 DEF NodeSend
    <3>2. f \in ToCPFrame
      <4>1. produced[r] - 1 \in 0 .. MaxChunks
        BY <2>3, BoundsAssumption DEF TypeInv, TypeOK, NodeType
      <4> QED BY <4>1, FrameTypes
    <3> HIDE DEF f
    <3>3. f.t = "data" => f.seq < produced'[f.id]
      BY <2>3, <3>1, <1>n
    <3>4. \A q \in Req : nextSeq'[q] <= produced'[q]
      BY <2>1, <2>3 DEF TruthInv
    <3>5. f.t # "head"
      BY <3>1
    <3> QED BY <2>1, <2>3, <3>1, <3>2, <3>3, <3>4, <3>5, <1>k, TruthKept
  <2> QED BY <1>16, <2>2, <2>3 DEF NodeMisSequences
<1>17. ASSUME NEW r \in Req, NodeEnd(r) PROVE TruthInv'
  <2> DEFINE f == [t |-> "end", id |-> r, chunks |-> produced[r]]
  <2>1. toCP' = Append(toCP, f) /\ f.t = "end"
    BY <1>17 DEF NodeEnd, NodeSend
  <2>2. f \in ToCPFrame
    BY FrameTypes DEF TypeInv, TypeOK, NodeType
  <2>3. UNCHANGED <<head, nextSeq, produced>>
    BY <1>17 DEF NodeEnd
  <2>4. node' = [node EXCEPT ![r] = "ended"] /\ Begun("ended")
    BY <1>17 DEF NodeEnd, Begun
  <2>5. \A q \in Req : Begun(node[q]) => Begun(node'[q])
    BY <2>4 DEF TypeInv, TypeOK, NodeType
  <2> HIDE DEF f
  <2>6. OnlyMore
    BY <2>3, <2>5, <1>n DEF OnlyMore
  <2>7. \A q \in Req : nextSeq'[q] <= produced'[q]
    BY <2>3 DEF TruthInv
  <2>8. f.t # "head" /\ f.t # "data"
    BY <2>1
  <2> QED BY <2>1, <2>2, <2>3, <2>6, <2>7, <2>8, TruthKept
<1>18. ASSUME NEW r \in Req, NodeErr(r) PROVE TruthInv'
  <2> DEFINE f == [t |-> "err", id |-> r]
  <2>1. toCP' = Append(toCP, f) /\ f.t = "err" /\ f \in ToCPFrame
    BY <1>18, FrameTypes DEF NodeErr, NodeSend
  <2>2. UNCHANGED <<head, nextSeq, produced>>
    BY <1>18 DEF NodeErr
  <2>3. node' = [node EXCEPT ![r] = "failed"] /\ Begun("failed")
    BY <1>18 DEF NodeErr, Begun
  <2>4. \A q \in Req : Begun(node[q]) => Begun(node'[q])
    BY <2>3 DEF TypeInv, TypeOK, NodeType
  <2> HIDE DEF f
  <2>5. OnlyMore
    BY <2>2, <2>4, <1>n DEF OnlyMore
  <2>6. \A q \in Req : nextSeq'[q] <= produced'[q]
    BY <2>2 DEF TruthInv
  <2>7. f.t # "head" /\ f.t # "data"
    BY <2>1
  <2> QED BY <2>1, <2>2, <2>5, <2>6, <2>7, TruthKept
<1>19. ASSUME NEW r \in Req, ShutdownClose(r) PROVE TruthInv'
  BY <1>0, <1>19 DEF ShutdownClose
<1>f. ASSUME toCP # <<>>
      PROVE  /\ Head(toCP) \in ToCPFrame /\ Head(toCP).id \in Req
             /\ Head(toCP) = toCP[1] /\ 1 \in 1 .. Len(toCP)
  <2>1. Head(toCP) \in ToCPFrame
    BY <1>f, ReceiveType DEF TypeInv, TypeOK
  <2>2. Head(toCP) = toCP[1] /\ 1 \in 1 .. Len(toCP)
    BY <1>f DEF TypeInv, TypeOK, LinkType
  <2> QED BY <2>1, <2>2, FrameTypes
<1>20. CASE DispatchHead
  <2>1. /\ toCP # <<>> /\ toCP' = Tail(toCP) /\ Head(toCP).t = "head"
        /\ UNCHANGED <<nextSeq, node, produced>>
    BY <1>20 DEF DispatchHead, Incoming
  <2>2. Begun(node[Head(toCP).id])
    BY <2>1, <1>f DEF TruthInv
  <2>3. head' = [head EXCEPT ![Head(toCP).id] = @ \/ Head(toCP).id \in pending]
    BY <1>20 DEF DispatchHead
  <2>4. \A q \in Req : head'[q] => head[q] \/ q = Head(toCP).id
    BY <2>1, <2>3, <1>f DEF TypeInv, TypeOK, CallType
  <2>5. \A q \in Req : head'[q] => head[q] \/ Begun(node'[q])
    BY <2>1, <2>2, <2>4
  <2>6. \A q \in Req : nextSeq'[q] <= produced'[q]
    BY <2>1 DEF TruthInv
  <2> QED BY <2>1, <2>5, <2>6, <1>k, TruthKept
<1>21. CASE DispatchData
  <2> DEFINE f == Head(toCP)
  <2>1. /\ toCP # <<>> /\ toCP' = Tail(toCP) /\ f.t = "data"
        /\ UNCHANGED <<head, node, produced>>
    BY <1>21 DEF DispatchData, Incoming
  <2>2. f.seq < produced[f.id] /\ f.seq \in Nat /\ f.id \in Req
    <3>1. f.seq < produced[f.id] /\ f.id \in Req
      BY <2>1, <1>f DEF TruthInv
    <3>2. f.seq \in 0 .. MaxChunks
      BY <2>1, <1>f, FrameTypes
    <3> QED BY <3>1, <3>2, BoundsAssumption
  <2>3. \/ UNCHANGED nextSeq
        \/ f.seq = nextSeq[f.id] /\ nextSeq' = [nextSeq EXCEPT ![f.id] = @ + 1]
    BY <1>21 DEF DispatchData, SeqAccepted
  <2>4. nextSeq \in [Req -> Nat]
    BY DEF TypeInv, TypeOK, ChanType
  <2> HIDE DEF f
  <2>5. \A q \in Req : nextSeq'[q] <= produced'[q]
    BY <2>1, <2>2, <2>3, <2>4, <1>n DEF TruthInv
  <2> QED BY <2>1, <2>5, <1>k, TruthKept
<1>22. CASE DispatchEnd
  <2>1. /\ toCP # <<>> /\ toCP' = Tail(toCP)
        /\ UNCHANGED <<head, nextSeq, node, produced>>
    BY <1>22 DEF DispatchEnd, Incoming
  <2>2. \A q \in Req : nextSeq'[q] <= produced'[q]
    BY <2>1 DEF TruthInv
  <2> QED BY <2>1, <2>2, <1>k, TruthKept
<1>23. CASE DispatchErr
  <2>1. /\ toCP # <<>> /\ toCP' = Tail(toCP)
        /\ UNCHANGED <<head, nextSeq, node, produced>>
    BY <1>23 DEF DispatchErr, Incoming
  <2>2. \A q \in Req : nextSeq'[q] <= produced'[q]
    BY <2>1 DEF TruthInv
  <2> QED BY <2>1, <2>2, <1>k, TruthKept
<1>24. CASE SendChunk
  BY <1>0, <1>24 DEF SendChunk
<1>25. CASE SendPanics
  BY <1>0, <1>25 DEF SendPanics
<1>26. CASE ReadError
  BY <1>0, <1>26 DEF ReadError
<1>27. CASE ShutdownDrain
  BY <1>0, <1>27 DEF ShutdownDrain
<1>28. CASE ShutdownDone
  BY <1>0, <1>28 DEF ShutdownDone
<1>g. ASSUME NodeSeesClose, UNCHANGED <<head, nextSeq, produced>>,
             \/ toCP' = <<>>
             \/ \E n \in 0 .. Len(toCP) : toCP' = SubSeq(toCP, 1, n)
      PROVE  TruthInv'
  <2>1. \A q \in Req : Begun(node[q]) => Begun(node'[q])
    BY <1>g DEF NodeSeesClose, Begun
  <2>2. OnlyMore
    BY <1>g, <1>n, <2>1 DEF OnlyMore
  <2>3. \A q \in Req : nextSeq'[q] <= produced'[q]
    BY <1>g DEF TruthInv
  <2> QED BY <1>g, <2>2, <2>3, TruthKept
<1>29. CASE HandlerReturns
  <2>1. CASE panicked
    BY <1>0, <1>29, <2>1 DEF HandlerReturns
  <2>2. CASE ~panicked
    BY <1>29, <1>g, <2>2 DEF HandlerReturns
  <2> QED BY <2>1, <2>2
<1>30. CASE LinkDrops
  BY <1>30, <1>g DEF LinkDrops
<1>31. CASE HeartbeatLost
  BY <1>31, <1>g DEF HeartbeatLost
<1>32. CASE NodeReq
  <2> DEFINE q == Head(toNode).id
  <2>1. /\ toNode # <<>> /\ Head(toNode).t = "req"
        /\ node' = [node EXCEPT ![q] = "serving"]
        /\ UNCHANGED <<toCP, head, nextSeq, produced>>
    BY <1>32 DEF NodeReq
  <2>2. Head(toNode) = toNode[1] /\ 1 \in 1 .. Len(toNode)
    BY <2>1 DEF TypeInv, TypeOK, LinkType
  <2>3. node[q] = "idle" /\ ~Begun("idle")
    BY <2>1, <2>2 DEF ReqInv, Begun
  <2>4. \A s \in Req : Begun(node[s]) => Begun(node'[s])
    BY <2>1, <2>3 DEF TypeInv, TypeOK, NodeType
  <2>5. OnlyMore
    BY <2>1, <2>4, <1>n DEF OnlyMore
  <2>6. \A s \in Req : nextSeq'[s] <= produced'[s]
    BY <2>1 DEF TruthInv
  <2> QED BY <2>1, <2>5, <2>6, TruthKept
<1>33. CASE NodeCancel
  BY <1>0, <1>33 DEF NodeCancel
<1>34. CASE UNCHANGED vars
  BY <1>0, <1>34 DEF vars
<1> QED BY <1>1, <1>2, <1>3, <1>4, <1>5, <1>6, <1>7, <1>8, <1>9, <1>10, <1>11,
     <1>12, <1>13, <1>14, <1>15, <1>16, <1>17, <1>18, <1>19, <1>20, <1>21,
     <1>22, <1>23, <1>24, <1>25, <1>26, <1>27, <1>28, <1>29, <1>30, <1>31,
     <1>32, <1>33, <1>34 DEF Next, Browser, Caller, Pump, NodeServes, Reader

\* A step that takes chunks from the channel of q or adds one that has been
\* produced keeps CarryOK.
LEMMA CarryKept ==
  ASSUME TypeInv, TypeInv', NEW q \in Req, CarryOK(q),
         produced'[q] >= produced[q],
         \/ chunks'[q] = chunks[q]
         \/ chunks[q] # <<>> /\ chunks'[q] = Tail(chunks[q])
         \/ \E x \in Item : x < produced'[q]
                            /\ chunks'[q] = Append(chunks[q], x),
         pump'[q] = "write" => \/ pump[q] = "write" /\ item'[q] = item[q]
                               \/ item'[q] < produced'[q],
         pump'[q] \in {"recv", "write"} => body'[q] = "open"
  PROVE  CarryOK(q)'
<1>1. produced[q] \in Int /\ produced'[q] \in Int
  BY BoundsAssumption DEF TypeInv, TypeOK, NodeType
<1>2. chunks[q] \in Seq(Item) /\ item[q] \in Int /\ Item \subseteq Int
  BY BoundsAssumption DEF TypeInv, TypeOK, ChanType, PumpType, Item, Nil
<1>3. \A i \in 1 .. Len(chunks[q]) : chunks[q][i] < produced'[q]
  <2>1. \A i \in 1 .. Len(chunks[q]) : chunks[q][i] \in Item
    BY <1>2
  <2>2. \A x, y, z \in Int : x < y /\ z >= y => x < z
    OBVIOUS
  <2> QED BY <1>1, <1>2, <2>1, <2>2 DEF CarryOK
<1>4. \A i \in 1 .. Len(chunks'[q]) : chunks'[q][i] < produced'[q]
  <2>1. CASE chunks'[q] = chunks[q]
    BY <1>3, <2>1
  <2>2. CASE chunks[q] # <<>> /\ chunks'[q] = Tail(chunks[q])
    <3>1. \A i \in 1 .. Len(chunks'[q]) : /\ i + 1 \in 1 .. Len(chunks[q])
                                          /\ chunks'[q][i] = chunks[q][i + 1]
      BY <1>2, <2>2
    <3> QED BY <1>3, <3>1
  <2>3. ASSUME NEW x \in Item, x < produced'[q],
               chunks'[q] = Append(chunks[q], x)
        PROVE  \A i \in 1 .. Len(chunks'[q]) : chunks'[q][i] < produced'[q]
    <3>1. \A i \in 1 .. Len(chunks'[q]) : \/ chunks'[q][i] = x
                                          \/ /\ i \in 1 .. Len(chunks[q])
                                             /\ chunks'[q][i] = chunks[q][i]
      BY <1>2, <2>3
    <3> QED BY <1>3, <2>3, <3>1
  <2> QED BY <2>1, <2>2, <2>3
<1>5. pump'[q] = "write" => item'[q] < produced'[q]
  BY <1>1, <1>2 DEF CarryOK
<1> QED BY <1>4, <1>5 DEF CarryOK

\* Init establishes CarryInv, and every action preserves it.
LEMMA CarryInit == Init => CarryInv
BY DEF Init, CarryInv, CarryOK

\* Every action preserves CarryInv.
LEMMA CarryStep ==
  TypeInv /\ StreamInv /\ TruthInv /\ CarryInv /\ [Next]_vars => CarryInv'
<1> SUFFICES ASSUME TypeInv, StreamInv, TruthInv, CarryInv, [Next]_vars
             PROVE  CarryInv'
  OBVIOUS
<1> USE TypeStep
<1> USE DEF linkVars, connVars, readVars, callVars, chanVars, pumpVars, nodeVars
<1>0. ASSUME UNCHANGED <<chunks, pump, item, body, produced>> PROVE CarryInv'
  BY <1>0 DEF CarryInv, CarryOK
<1>n. \A q \in Req : produced[q] \in Int /\ produced'[q] \in Int
  BY BoundsAssumption DEF TypeInv, TypeOK, NodeType
<1>1. ASSUME NEW r \in Req, DoRegister(r) PROVE CarryInv'
  BY <1>0, <1>1 DEF DoRegister
<1>2. ASSUME NEW r \in Req, CtxDone(r) PROVE CarryInv'
  BY <1>0, <1>2 DEF CtxDone
<1>3. ASSUME NEW r \in Req, BodyClose(r) PROVE CarryInv'
  BY <1>0, <1>3 DEF BodyClose
<1>4. ASSUME NEW r \in Req, DoWrite(r) PROVE CarryInv'
  BY <1>0, <1>4 DEF DoWrite
<1>5. ASSUME NEW r \in Req, DoCancelled(r) PROVE CarryInv'
  BY <1>0, <1>5 DEF DoCancelled
<1>6. ASSUME NEW r \in Req, DoDisconnected(r) PROVE CarryInv'
  BY <1>0, <1>6 DEF DoDisconnected
<1>7. ASSUME NEW r \in Req, DoFailed(r) PROVE CarryInv'
  BY <1>0, <1>7 DEF DoFailed
<1>8. ASSUME NEW r \in Req, DoHead(r) PROVE CarryInv'
  <2>1. UNCHANGED <<chunks, item, produced>>
    BY <1>8 DEF DoHead
  <2>2. /\ pump' = [pump EXCEPT ![r] = "recv"]
        /\ body' = [body EXCEPT ![r] = "open"]
    BY <1>8 DEF DoHead
  <2>3. pump'[r] = "recv" /\ body'[r] = "open"
    BY <2>2 DEF TypeInv, TypeOK, PumpType
  <2>4. \A q \in Req : q # r => UNCHANGED <<pump[q], body[q]>>
    BY <2>2 DEF TypeInv, TypeOK, PumpType
  <2>5. CarryOK(r)'
    BY <2>1, <2>3 DEF CarryInv, CarryOK
  <2> QED BY <2>1, <2>4, <2>5 DEF CarryInv, CarryOK
<1>9. ASSUME NEW r \in Req, PumpRecv(r) PROVE CarryInv'
  <2>1. /\ pump[r] = "recv" /\ chunks[r] # <<>> /\ UNCHANGED <<body, produced>>
        /\ item' = [item EXCEPT ![r] = Head(chunks[r])]
        /\ chunks' = [chunks EXCEPT ![r] = Tail(@)]
        /\ pump' = [pump EXCEPT ![r] = "write"]
    BY <1>9 DEF PumpRecv
  <2>2. /\ item'[r] = Head(chunks[r]) /\ chunks'[r] = Tail(chunks[r])
        /\ pump'[r] = "write"
    BY <2>1 DEF TypeInv, TypeOK, PumpType, ChanType
  <2>3. \A q \in Req : q # r => UNCHANGED <<item[q], chunks[q], pump[q]>>
    BY <2>1 DEF TypeInv, TypeOK, PumpType, ChanType
  <2>4. Head(chunks[r]) = chunks[r][1] /\ 1 \in 1 .. Len(chunks[r])
    BY <2>1 DEF TypeInv, TypeOK, ChanType
  <2>5. item'[r] < produced'[r] /\ body'[r] = "open"
    BY <2>1, <2>2, <2>4 DEF CarryInv, CarryOK
  <2>6. CarryOK(r) /\ produced'[r] >= produced[r]
    BY <2>1, <1>n DEF CarryInv
  <2>7. CarryOK(r)'
    BY <2>1, <2>2, <2>5, <2>6, CarryKept
  <2> QED BY <2>1, <2>3, <2>7 DEF CarryInv, CarryOK
<1>10. ASSUME NEW r \in Req, PumpEnd(r) PROVE CarryInv'
  <2>1. /\ chunks[r] # <<>> /\ UNCHANGED <<item, produced>>
        /\ chunks' = [chunks EXCEPT ![r] = Tail(@)]
        /\ pump' = [pump EXCEPT ![r] = "exited"]
        /\ body' = [body EXCEPT ![r] = "eof"]
    BY <1>10 DEF PumpEnd
  <2>2. chunks'[r] = Tail(chunks[r]) /\ pump'[r] = "exited"
    BY <2>1 DEF TypeInv, TypeOK, PumpType, ChanType
  <2>3. \A q \in Req : q # r => UNCHANGED <<chunks[q], pump[q], body[q]>>
    BY <2>1 DEF TypeInv, TypeOK, PumpType, ChanType
  <2>4. CarryOK(r) /\ produced'[r] >= produced[r]
    BY <2>1, <1>n DEF CarryInv
  <2>5. CarryOK(r)'
    BY <2>1, <2>2, <2>4, CarryKept
  <2> QED BY <2>1, <2>3, <2>5 DEF CarryInv, CarryOK
<1>11. ASSUME NEW r \in Req, PumpClosed(r) PROVE CarryInv'
  <2>1. /\ UNCHANGED <<chunks, item, produced>>
        /\ pump' = [pump EXCEPT ![r] = "exited"]
        /\ body' = [body EXCEPT ![r] = "error"]
    BY <1>11 DEF PumpClosed
  <2>2. pump'[r] = "exited"
    BY <2>1 DEF TypeInv, TypeOK, PumpType
  <2>3. \A q \in Req : q # r => UNCHANGED <<pump[q], body[q]>>
    BY <2>1 DEF TypeInv, TypeOK, PumpType
  <2> QED BY <2>1, <2>2, <2>3 DEF CarryInv, CarryOK
<1>12. ASSUME NEW r \in Req, PumpWrite(r) PROVE CarryInv'
  <2>1. /\ UNCHANGED <<chunks, item, body, produced>>
        /\ pump[r] = "write" /\ pump' = [pump EXCEPT ![r] = "recv"]
    BY <1>12 DEF PumpWrite
  <2>2. pump'[r] = "recv" /\ \A q \in Req : q # r => pump'[q] = pump[q]
    BY <2>1 DEF TypeInv, TypeOK, PumpType
  <2> QED BY <2>1, <2>2 DEF CarryInv, CarryOK
<1>13. ASSUME NEW r \in Req, PumpWriteError(r) PROVE CarryInv'
  <2>1. /\ UNCHANGED <<chunks, item, produced>>
        /\ pump' = [pump EXCEPT ![r] = "exited"]
        /\ body' = [body EXCEPT ![r] = "error"]
    BY <1>13 DEF PumpWriteError
  <2>2. pump'[r] = "exited"
    BY <2>1 DEF TypeInv, TypeOK, PumpType
  <2>3. \A q \in Req : q # r => UNCHANGED <<pump[q], body[q]>>
    BY <2>1 DEF TypeInv, TypeOK, PumpType
  <2> QED BY <2>1, <2>2, <2>3 DEF CarryInv, CarryOK
<1>14. ASSUME NEW r \in Req, NodeHead(r) PROVE CarryInv'
  BY <1>0, <1>14 DEF NodeHead
<1>m. ASSUME NEW r \in Req, produced' = [produced EXCEPT ![r] = @ + 1],
             UNCHANGED <<chunks, pump, item, body>>
      PROVE  CarryInv'
  <2>1. \A q \in Req : produced'[q] >= produced[q]
    BY <1>m, <1>n DEF TypeInv, TypeOK, NodeType
  <2> SUFFICES ASSUME NEW q \in Req PROVE CarryOK(q)'
    BY DEF CarryInv
  <2>2. CarryOK(q)
    BY DEF CarryInv
  <2>3. pump'[q] \in {"recv", "write"} => body'[q] = "open"
    BY <1>m, <2>2 DEF CarryOK
  <2> QED BY <1>m, <2>1, <2>2, <2>3, CarryKept
<1>15. ASSUME NEW r \in Req, NodeData(r) PROVE CarryInv'
  BY <1>15, <1>m DEF NodeData
<1>16. ASSUME NEW r \in Req, NodeMisSequences(r) PROVE CarryInv'
  BY <1>16, <1>0, <1>m DEF NodeMisSequences
<1>17. ASSUME NEW r \in Req, NodeEnd(r) PROVE CarryInv'
  BY <1>0, <1>17 DEF NodeEnd
<1>18. ASSUME NEW r \in Req, NodeErr(r) PROVE CarryInv'
  BY <1>0, <1>18 DEF NodeErr
<1>19. ASSUME NEW r \in Req, ShutdownClose(r) PROVE CarryInv'
  BY <1>0, <1>19 DEF ShutdownClose
<1>20. CASE DispatchHead
  BY <1>0, <1>20 DEF DispatchHead
<1>21. CASE DispatchData
  BY <1>0, <1>21 DEF DispatchData
<1>22. CASE DispatchEnd
  BY <1>0, <1>22 DEF DispatchEnd
<1>23. CASE DispatchErr
  BY <1>0, <1>23 DEF DispatchErr
<1>24. CASE SendChunk
  <2> DEFINE r == hand.id
  <2>1. /\ reader = "send" /\ UNCHANGED <<pump, item, body, produced>>
        /\ chunks' = [chunks EXCEPT ![r] = Append(@, hand.item)]
    BY <1>24 DEF SendChunk
  <2>2. r \in Req /\ hand.item \in Item
    BY <2>1 DEF TypeInv
  <2>3. hand.item < produced'[r]
    <3>1. produced'[r] = produced[r] /\ produced[r] \in Nat
      BY <2>1, <2>2, BoundsAssumption DEF TypeInv, TypeOK, NodeType
    <3>2. CASE hand.item = Nil
      BY <3>1, <3>2 DEF Nil
    <3>3. CASE hand.item # Nil
      <4>1. hand.item = nextSeq[r] - 1
        BY <2>1, <3>3 DEF StreamInv, HandInv
      <4>2. nextSeq[r] <= produced[r] /\ nextSeq[r] \in Nat
        BY <2>2 DEF TruthInv, TypeInv, TypeOK, ChanType
      <4> QED BY <3>1, <4>1, <4>2
    <3> QED BY <3>2, <3>3
  <2> HIDE DEF r
  <2>4. chunks'[r] = Append(chunks[r], hand.item)
    BY <2>1, <2>2 DEF TypeInv, TypeOK, ChanType
  <2>5. \A q \in Req : q # r => chunks'[q] = chunks[q]
    BY <2>1, <2>2 DEF TypeInv, TypeOK, ChanType
  <2> SUFFICES ASSUME NEW q \in Req PROVE CarryOK(q)'
    BY DEF CarryInv
  <2>6. CarryOK(q) /\ produced'[q] >= produced[q]
    BY <2>1, <1>n DEF CarryInv
  <2>7. pump'[q] \in {"recv", "write"} => body'[q] = "open"
    BY <2>1, <2>6 DEF CarryOK
  <2>8. \/ chunks'[q] = chunks[q]
        \/ \E x \in Item : /\ x < produced'[q]
                           /\ chunks'[q] = Append(chunks[q], x)
    BY <2>2, <2>3, <2>4, <2>5
  <2> QED BY <2>1, <2>6, <2>7, <2>8, CarryKept
<1>25. CASE SendPanics
  BY <1>0, <1>25 DEF SendPanics
<1>26. CASE ReadError
  BY <1>0, <1>26 DEF ReadError
<1>27. CASE ShutdownDrain
  BY <1>0, <1>27 DEF ShutdownDrain
<1>28. CASE ShutdownDone
  BY <1>0, <1>28 DEF ShutdownDone
<1>29. CASE HandlerReturns
  BY <1>0, <1>29 DEF HandlerReturns
<1>30. CASE LinkDrops
  BY <1>0, <1>30 DEF LinkDrops
<1>31. CASE HeartbeatLost
  BY <1>0, <1>31 DEF HeartbeatLost
<1>32. CASE NodeReq
  BY <1>0, <1>32 DEF NodeReq
<1>33. CASE NodeCancel
  BY <1>0, <1>33 DEF NodeCancel
<1>34. CASE UNCHANGED vars
  BY <1>0, <1>34 DEF vars
<1> QED BY <1>1, <1>2, <1>3, <1>4, <1>5, <1>6, <1>7, <1>8, <1>9, <1>10, <1>11,
     <1>12, <1>13, <1>14, <1>15, <1>16, <1>17, <1>18, <1>19, <1>20, <1>21,
     <1>22, <1>23, <1>24, <1>25, <1>26, <1>27, <1>28, <1>29, <1>30, <1>31,
     <1>32, <1>33, <1>34 DEF Next, Browser, Caller, Pump, NodeServes, Reader

\* What UplinkConn may do between two states, as RequestContract sees it.
ContractStep == [Contract!ContractNext]_(Contract!contractVars)

\* One call, or one answer, that moves is one that moves behind the mapping.
LEMMA CallMoves ==
  ASSUME do \in [Req -> DoStates], NEW r \in Req, NEW s,
         do' = [do EXCEPT ![r] = s]
  PROVE  calls' = [calls EXCEPT ![r] = CallOf(s)] /\ calls[r] = CallOf(do[r])
BY DEF calls

LEMMA SourceMoves ==
  ASSUME node \in [Req -> NodeStates], NEW r \in Req, NEW s,
         node' = [node EXCEPT ![r] = s]
  PROVE  /\ sources' = [sources EXCEPT ![r] = SourceOf(s)]
         /\ sources[r] = SourceOf(node[r])
BY DEF sources

\* The steps of RequestContract about one request.
LEMMA ContractSteps ==
  ASSUME NEW r \in Req,
         \/ Contract!Ask(r) \/ Contract!Refuse(r) \/ Contract!Fail(r)
         \/ Contract!Answer(r) \/ Contract!Receive(r) \/ Contract!EndClean(r)
         \/ Contract!EndBroken(r) \/ Contract!Begin(r) \/ Contract!Open(r)
         \/ Contract!Produce(r) \/ Contract!Finish(r)
  PROVE  ContractStep
BY DEF ContractStep, Contract!ContractNext

\* What the contract cannot see.
LEMMA Unseen ==
  ASSUME UNCHANGED <<calls, sources, produced, delivered, body>>
  PROVE  ContractStep
BY DEF ContractStep, Contract!contractVars

\* A call that fails while it waits.
LEMMA CallFails ==
  ASSUME TypeOK, NEW r \in Req, NEW s \in {"failed", "cancelled", "disconnected",
                                           "writeError"},
         do[r] \in {"write", "select"}, do' = [do EXCEPT ![r] = s],
         UNCHANGED <<node, produced, delivered, body>>
  PROVE  ContractStep
<1>1. calls' = [calls EXCEPT ![r] = CallOf(s)] /\ calls[r] = CallOf(do[r])
  BY CallMoves DEF TypeOK, CallType
<1>2. CallOf(s) = "failed" /\ CallOf(do[r]) = "waiting"
  BY DEF CallOf
<1>3. UNCHANGED sources
  BY DEF sources
<1>4. Contract!Fail(r)
  BY <1>1, <1>2, <1>3 DEF Contract!Fail
<1> QED BY <1>4, ContractSteps

\* The node gives up, or its socket is lost under, the requests of R.
LEMMA WorkLost ==
  ASSUME NEW R \in SUBSET Req,
         \A r \in R : node[r] \in {"serving", "streaming"},
         \A r \in R : node'[r] \in {"failed", "gone"},
         \A r \in Req : r \notin R => node'[r] = node[r],
         UNCHANGED <<do, produced, delivered, body>>
  PROVE  ContractStep
<1>1. UNCHANGED calls
  BY DEF calls
<1>2. sources' = [r \in Req |-> IF r \in R THEN "lost" ELSE sources[r]]
  BY DEF sources, SourceOf
<1>3. \A r \in R : sources[r] \in {"working", "open"}
  BY DEF sources, SourceOf
<1>4. CASE R = {}
  <2>1. UNCHANGED sources
    BY <1>4 DEF sources
  <2> QED BY <1>1, <2>1, Unseen
<1>5. CASE R # {}
  <2>1. Contract!Lose(R)
    BY <1>1, <1>2, <1>3, <1>5 DEF Contract!Lose
  <2> QED BY <2>1 DEF ContractStep, Contract!ContractNext
<1> QED BY <1>4, <1>5

\* Init starts RequestContract, and every action is a step of it or unseen.
LEMMA RefineInit == Init => Contract!ContractInit
BY DEF Init, Contract!ContractInit, calls, sources, CallOf, SourceOf

\* Every action is a step of RequestContract, or none.
LEMMA RefineStep ==
  /\ TypeInv /\ ConnInv /\ ReqInv /\ StreamInv /\ StreamInv'
  /\ TruthInv /\ CarryInv /\ [Next]_vars
  => ContractStep
<1> SUFFICES ASSUME TypeInv, ConnInv, ReqInv, StreamInv, StreamInv',
                    TruthInv, CarryInv, [Next]_vars
             PROVE  ContractStep
  OBVIOUS
<1> USE DEF linkVars, connVars, readVars, callVars, chanVars, pumpVars, nodeVars
<1>0. ASSUME UNCHANGED <<do, node, produced, delivered, body>>
      PROVE  ContractStep
  BY <1>0, Unseen DEF calls, sources
<1>t. TypeOK /\ do \in [Req -> DoStates] /\ node \in [Req -> NodeStates]
  BY DEF TypeInv, TypeOK, CallType, NodeType
<1>1. ASSUME NEW r \in Req, DoRegister(r) PROVE ContractStep
  <2>1. do[r] = "idle" /\ CallOf(do[r]) = "idle" /\ UNCHANGED sources
    BY <1>1 DEF DoRegister, CallOf, sources
  <2>2. UNCHANGED <<produced, delivered, body>>
    BY <1>1 DEF DoRegister
  <2>3. CASE do' = [do EXCEPT ![r] = "refused"]
    <3>1. calls' = [calls EXCEPT ![r] = CallOf("refused")]
          /\ calls[r] = CallOf(do[r])
      BY <1>t, <2>3, CallMoves
    <3>2. Contract!Refuse(r)
      BY <2>1, <2>2, <3>1 DEF CallOf, Contract!Refuse
    <3> QED BY <3>2, ContractSteps
  <2>4. CASE do' = [do EXCEPT ![r] = "write"]
    <3>1. calls' = [calls EXCEPT ![r] = CallOf("write")]
          /\ calls[r] = CallOf(do[r])
      BY <1>t, <2>4, CallMoves
    <3>2. Contract!Ask(r)
      BY <2>1, <2>2, <3>1 DEF CallOf, Contract!Ask
    <3> QED BY <3>2, ContractSteps
  <2> QED BY <1>1, <2>3, <2>4 DEF DoRegister
<1>2. ASSUME NEW r \in Req, CtxDone(r) PROVE ContractStep
  BY <1>0, <1>2 DEF CtxDone
<1>3. ASSUME NEW r \in Req, BodyClose(r) PROVE ContractStep
  BY <1>0, <1>3 DEF BodyClose
<1>4. ASSUME NEW r \in Req, DoWrite(r) PROVE ContractStep
  <2>1. do[r] = "write" /\ UNCHANGED <<node, produced, delivered, body>>
    BY <1>4 DEF DoWrite
  <2>2. CASE do' = [do EXCEPT ![r] = "select"]
    <3>1. calls' = [calls EXCEPT ![r] = CallOf("select")]
          /\ calls[r] = CallOf(do[r])
      BY <1>t, <2>2, CallMoves
    <3>2. UNCHANGED calls
      BY <2>1, <3>1 DEF CallOf, calls
    <3>3. UNCHANGED sources
      BY <2>1 DEF sources
    <3> QED BY <2>1, <3>2, <3>3, Unseen
  <2>3. CASE do' = [do EXCEPT ![r] = "writeError"]
    BY <1>t, <2>1, <2>3, CallFails
  <2> QED BY <1>4, <2>2, <2>3 DEF DoWrite
<1>5. ASSUME NEW r \in Req, DoCancelled(r) PROVE ContractStep
  <2>1. /\ do[r] = "select" /\ do' = [do EXCEPT ![r] = "cancelled"]
        /\ UNCHANGED <<node, produced, delivered, body>>
    BY <1>5 DEF DoCancelled
  <2> QED BY <1>t, <2>1, CallFails
<1>6. ASSUME NEW r \in Req, DoDisconnected(r) PROVE ContractStep
  <2>1. /\ do[r] = "select" /\ do' = [do EXCEPT ![r] = "disconnected"]
        /\ UNCHANGED <<node, produced, delivered, body>>
    BY <1>6 DEF DoDisconnected
  <2> QED BY <1>t, <2>1, CallFails
<1>7. ASSUME NEW r \in Req, DoFailed(r) PROVE ContractStep
  <2>1. /\ do[r] = "select" /\ do' = [do EXCEPT ![r] = "failed"]
        /\ UNCHANGED <<node, produced, delivered, body>>
    BY <1>7 DEF DoFailed
  <2> QED BY <1>t, <2>1, CallFails
<1>8. ASSUME NEW r \in Req, DoHead(r) PROVE ContractStep
  <2>1. /\ do[r] = "select" /\ head[r] /\ do' = [do EXCEPT ![r] = "head"]
        /\ body' = [body EXCEPT ![r] = "open"]
        /\ UNCHANGED <<node, produced, delivered>>
    BY <1>8 DEF DoHead
  <2>2. calls' = [calls EXCEPT ![r] = CallOf("head")] /\ calls[r] = CallOf(do[r])
    BY <1>t, <2>1, CallMoves
  <2>3. CallOf("head") = "answered" /\ CallOf(do[r]) = "waiting"
    BY <2>1 DEF CallOf
  <2>4. sources[r] \in {"open", "ended", "lost"}
    BY <1>t, <2>1 DEF TruthInv, Begun, NodeStates, sources, SourceOf
  <2>5. UNCHANGED sources
    BY <2>1 DEF sources
  <2>6. Contract!Answer(r)
    BY <2>1, <2>2, <2>3, <2>4, <2>5 DEF Contract!Answer
  <2> QED BY <2>6, ContractSteps
<1>9. ASSUME NEW r \in Req, PumpRecv(r) PROVE ContractStep
  BY <1>0, <1>9 DEF PumpRecv
<1>10. ASSUME NEW r \in Req, PumpEnd(r) PROVE ContractStep
  <2>1. /\ pump[r] = "recv" /\ body' = [body EXCEPT ![r] = "eof"]
        /\ UNCHANGED <<do, node, produced, delivered>>
    BY <1>10 DEF PumpEnd
  <2>2. UNCHANGED <<calls, sources>>
    BY <2>1 DEF calls, sources
  <2>3. body[r] = "open"
    BY <2>1 DEF CarryInv, CarryOK
  <2>4. body'[r] = "eof"
    BY <2>1 DEF TypeInv, TypeOK, PumpType
  <2>5. node'[r] = "ended" /\ Len(delivered'[r]) = produced'[r]
    BY <2>4 DEF StreamInv, ResponseOK, DeliveredOK
  <2>6. sources[r] = "ended"
    BY <2>1, <2>5 DEF sources, SourceOf
  <2>7. Contract!EndClean(r)
    BY <2>1, <2>2, <2>3, <2>5, <2>6 DEF Contract!EndClean
  <2> QED BY <2>7, ContractSteps
<1>e. ASSUME NEW r \in Req, pump[r] \in {"recv", "write"},
             body' = [body EXCEPT ![r] = "error"],
             UNCHANGED <<do, node, produced, delivered>>
      PROVE  ContractStep
  <2>1. UNCHANGED <<calls, sources>>
    BY <1>e DEF calls, sources
  <2>2. body[r] = "open"
    BY <1>e DEF CarryInv, CarryOK
  <2>3. Contract!EndBroken(r)
    BY <1>e, <2>1, <2>2 DEF Contract!EndBroken
  <2> QED BY <2>3, ContractSteps
<1>11. ASSUME NEW r \in Req, PumpClosed(r) PROVE ContractStep
  BY <1>e, <1>11 DEF PumpClosed
<1>12. ASSUME NEW r \in Req, PumpWrite(r) PROVE ContractStep
  <2>1. /\ pump[r] = "write" /\ UNCHANGED <<do, node, produced, body>>
        /\ delivered' = [delivered EXCEPT ![r] = Append(@, item[r])]
    BY <1>12 DEF PumpWrite
  <2>2. item[r] = Len(delivered[r])
    BY <2>1 DEF StreamInv, ResponseOK, WritingOK
  <2>3. body[r] = "open" /\ Len(delivered[r]) < produced[r]
    BY <2>1, <2>2 DEF CarryInv, CarryOK
  <2>4. UNCHANGED <<calls, sources>>
    BY <2>1 DEF calls, sources
  <2>5. delivered' = [delivered EXCEPT ![r] = Append(@, Len(@))]
    BY <2>1, <2>2
  <2>6. Contract!Receive(r)
    BY <2>1, <2>3, <2>4, <2>5 DEF Contract!Receive
  <2> QED BY <2>6, ContractSteps
<1>13. ASSUME NEW r \in Req, PumpWriteError(r) PROVE ContractStep
  BY <1>e, <1>13 DEF PumpWriteError
<1>14. ASSUME NEW r \in Req, NodeHead(r) PROVE ContractStep
  <2>1. /\ node[r] = "serving" /\ node' = [node EXCEPT ![r] = "streaming"]
        /\ UNCHANGED <<do, produced, delivered, body>>
    BY <1>14 DEF NodeHead
  <2>2. /\ sources' = [sources EXCEPT ![r] = SourceOf("streaming")]
        /\ sources[r] = SourceOf(node[r])
    BY <1>t, <2>1, SourceMoves
  <2>3. UNCHANGED calls
    BY <2>1 DEF calls
  <2>4. Contract!Open(r)
    BY <2>1, <2>2, <2>3 DEF SourceOf, Contract!Open
  <2> QED BY <2>4, ContractSteps
<1>p. ASSUME NEW r \in Req, node[r] = "streaming",
             produced' = [produced EXCEPT ![r] = @ + 1],
             UNCHANGED <<do, node, delivered, body>>
      PROVE  ContractStep
  <2>1. UNCHANGED <<calls, sources>> /\ sources[r] = "open"
    BY <1>p DEF calls, sources, SourceOf
  <2>2. Contract!Produce(r)
    BY <1>p, <2>1 DEF Contract!Produce
  <2> QED BY <2>2, ContractSteps
<1>15. ASSUME NEW r \in Req, NodeData(r) PROVE ContractStep
  BY <1>p, <1>15 DEF NodeData
<1>16. ASSUME NEW r \in Req, NodeMisSequences(r) PROVE ContractStep
  BY <1>0, <1>p, <1>16 DEF NodeMisSequences
<1>17. ASSUME NEW r \in Req, NodeEnd(r) PROVE ContractStep
  <2>1. /\ node[r] = "streaming" /\ node' = [node EXCEPT ![r] = "ended"]
        /\ UNCHANGED <<do, produced, delivered, body>>
    BY <1>17 DEF NodeEnd
  <2>2. /\ sources' = [sources EXCEPT ![r] = SourceOf("ended")]
        /\ sources[r] = SourceOf(node[r])
    BY <1>t, <2>1, SourceMoves
  <2>3. UNCHANGED calls
    BY <2>1 DEF calls
  <2>4. Contract!Finish(r)
    BY <2>1, <2>2, <2>3 DEF SourceOf, Contract!Finish
  <2> QED BY <2>4, ContractSteps
<1>18. ASSUME NEW r \in Req, NodeErr(r) PROVE ContractStep
  <2>1. /\ node[r] \in {"serving", "streaming"}
        /\ node' = [node EXCEPT ![r] = "failed"]
        /\ UNCHANGED <<do, produced, delivered, body>>
    BY <1>18 DEF NodeErr
  <2>2. node'[r] = "failed" /\ \A q \in Req : q # r => node'[q] = node[q]
    BY <1>t, <2>1
  <2> QED BY <2>1, <2>2, WorkLost, {r} \in SUBSET Req
<1>19. ASSUME NEW r \in Req, ShutdownClose(r) PROVE ContractStep
  BY <1>0, <1>19 DEF ShutdownClose
<1>20. CASE DispatchHead
  BY <1>0, <1>20 DEF DispatchHead
<1>21. CASE DispatchData
  BY <1>0, <1>21 DEF DispatchData
<1>22. CASE DispatchEnd
  BY <1>0, <1>22 DEF DispatchEnd
<1>23. CASE DispatchErr
  BY <1>0, <1>23 DEF DispatchErr
<1>24. CASE SendChunk
  BY <1>0, <1>24 DEF SendChunk
<1>25. CASE SendPanics
  BY <1>0, <1>25 DEF SendPanics
<1>26. CASE ReadError
  BY <1>0, <1>26 DEF ReadError
<1>27. CASE ShutdownDrain
  BY <1>0, <1>27 DEF ShutdownDrain
<1>28. CASE ShutdownDone
  BY <1>0, <1>28 DEF ShutdownDone
<1>c. ASSUME NodeSeesClose, UNCHANGED <<do, produced, delivered, body>>
      PROVE  ContractStep
  <2> DEFINE R == {r \in Req : node[r] \in {"serving", "streaming"}}
  <2>1. /\ R \in SUBSET Req
        /\ \A r \in R : node[r] \in {"serving", "streaming"}
        /\ \A r \in R : node'[r] \in {"failed", "gone"}
        /\ \A r \in Req : r \notin R => node'[r] = node[r]
    BY <1>c DEF NodeSeesClose
  <2> HIDE DEF R
  <2> QED BY <1>c, <2>1, WorkLost
<1>29. CASE HandlerReturns
  BY <1>0, <1>c, <1>29 DEF HandlerReturns
<1>30. CASE LinkDrops
  BY <1>c, <1>30 DEF LinkDrops
<1>31. CASE HeartbeatLost
  BY <1>c, <1>31 DEF HeartbeatLost
<1>32. CASE NodeReq
  <2> DEFINE q == Head(toNode).id
  <2>1. /\ toNode # <<>> /\ Head(toNode).t = "req"
        /\ node' = [node EXCEPT ![q] = "serving"]
        /\ UNCHANGED <<do, produced, delivered, body>>
    BY <1>32 DEF NodeReq
  <2>2. Head(toNode) = toNode[1] /\ 1 \in 1 .. Len(toNode) /\ q \in Req
    BY <2>1, ReceiveType, FrameTypes DEF TypeInv, TypeOK, LinkType
  <2>3. node[q] = "idle" /\ do[q] \notin {"idle", "write"}
    BY <2>1, <2>2 DEF ReqInv
  <2> HIDE DEF q
  <2>4. /\ sources' = [sources EXCEPT ![q] = SourceOf("serving")]
        /\ sources[q] = SourceOf(node[q])
    BY <1>t, <2>1, <2>2, SourceMoves
  <2>5. UNCHANGED calls /\ calls[q] # "idle"
    BY <2>1, <2>2, <2>3 DEF calls, CallOf
  <2>6. Contract!Begin(q)
    BY <2>1, <2>3, <2>4, <2>5 DEF SourceOf, Contract!Begin
  <2> QED BY <2>2, <2>6, ContractSteps
<1>33. CASE NodeCancel
  BY <1>0, <1>33 DEF NodeCancel
<1>34. CASE UNCHANGED vars
  BY <1>0, <1>34 DEF vars
<1> QED BY <1>1, <1>2, <1>3, <1>4, <1>5, <1>6, <1>7, <1>8, <1>9, <1>10, <1>11,
     <1>12, <1>13, <1>14, <1>15, <1>16, <1>17, <1>18, <1>19, <1>20, <1>21,
     <1>22, <1>23, <1>24, <1>25, <1>26, <1>27, <1>28, <1>29, <1>30, <1>31,
     <1>32, <1>33, <1>34 DEF Next, Browser, Caller, Pump, NodeServes, Reader

\* conn.go, Do and Response.Body: whatever the interleaving, a caller sees only
\* what RequestContract allows, for any requests, buffer and node.
THEOREM ContractIsKept == Spec => ImplementsContract
<1>1. Init => Contract!ContractInit
  BY RefineInit
<1>2. /\ TypeInv /\ ConnInv /\ ReqInv /\ StreamInv /\ StreamInv'
      /\ TruthInv /\ CarryInv /\ [Next]_vars
      => [Contract!ContractNext]_(Contract!contractVars)
  BY RefineStep DEF ContractStep
<1> QED BY <1>1, <1>2, TypeInit, TypeStep, ConnInit, ConnStep, ReqInit, ReqStep,
           StreamInit, StreamStep, TruthInit, TruthStep, CarryInit, CarryStep,
           PTL DEF Spec, ImplementsContract, Contract!ContractSpec

-----------------------------------------------------------------------------
(* Who still waits for whom.                                               *)

Working == {"serving", "streaming"}
CancelOf(r) == [t |-> "cancel", id |-> r]
Abandoned(r) == do[r] = "cancelled" \/ bodyClosed[r]

\* A node without a socket works on nothing.  Once r is abandoned, a node at
\* work on it has been told or will read the cancel, and a req of r it has yet
\* to read has its cancel behind it.
TellInv ==
  /\ link = "down" => toNode = <<>> /\ \A r \in Req : node[r] \notin Working
  /\ \A r \in Req : bodyClosed[r] => do[r] = "head"
  /\ \A r \in Req : Abandoned(r) =>
       /\ node[r] \in Working =>
            aborted[r] \/ \E i \in 1 .. Len(toNode) : toNode[i] = CancelOf(r)
       /\ \A i \in 1 .. Len(toNode) :
            toNode[i].t = "req" /\ toNode[i].id = r =>
              \E j \in i + 1 .. Len(toNode) : toNode[j] = CancelOf(r)

IsHead(f, r) == f.t = "head" /\ f.id = r

\* A head is sent once: it is on the wire or in the slot, not in both.
HeadInv ==
  /\ \A i, j \in 1 .. Len(toCP) :
       IsHead(toCP[i], toCP[i].id) /\ IsHead(toCP[j], toCP[i].id) => i = j
  /\ \A r \in Req : head[r] => \A i \in 1 .. Len(toCP) : ~IsHead(toCP[i], r)

\* While the read loop runs, a caller that has not returned has its slot, and
\* its head comes before whatever else the node says of the request.
WaitOK(r) ==
  do[r] \in {"idle", "write", "select"} =>
    /\ do[r] # "idle" => r \in pending
    /\ node[r] = "streaming" =>
         head[r] \/ \E i \in 1 .. Len(toCP) : IsHead(toCP[i], r)
    /\ \A i \in 1 .. Len(toCP) :
         toCP[i].t \in {"data", "end"} /\ toCP[i].id = r =>
           head[r] \/ \E j \in 1 .. i - 1 : IsHead(toCP[j], r)
    /\ reader = "send" /\ hand.id = r => head[r]

WaitInv == /\ \A r \in Req : do[r] = "refused" => closed
           /\ reader \in {"read", "send"} => \A r \in Req : WaitOK(r)

\* A frame added behind those in flight leaves them where they were.
LEMMA AppendFacts ==
  ASSUME NEW S, NEW q \in Seq(S), NEW f \in S
  PROVE  /\ Len(q) \in Nat /\ Len(Append(q, f)) = Len(q) + 1
         /\ \A i \in 1 .. Len(q) : Append(q, f)[i] = q[i]
         /\ Append(q, f)[Len(q) + 1] = f
OBVIOUS

\* The first frame taken away moves the others up by one.
LEMMA TailFacts ==
  ASSUME NEW S, NEW q \in Seq(S), q # <<>>
  PROVE  /\ Len(q) \in Nat \ {0} /\ Len(Tail(q)) = Len(q) - 1
         /\ \A i \in 1 .. Len(q) - 1 : Tail(q)[i] = q[i + 1]
         /\ Head(q) = q[1] /\ Head(q) \in S
OBVIOUS

\* Steps that start no work, and either leave the queue toward the node alone
\* and abandon nothing, or send the cancel of all that they abandon, keep
\* TellInv.
LEMMA TellKept ==
  ASSUME TypeInv, TellInv, UNCHANGED <<link, aborted>>, NEW S,
         \A q \in Req : /\ node'[q] \in Working => node[q] \in Working
                        /\ bodyClosed'[q] => do'[q] = "head"
                        /\ Abandoned(q)' => Abandoned(q) \/ q \in S,
         \/ toNode' = toNode /\ S = {}
         \/ \E p \in Req : Cancel(p) /\ S \subseteq {p}
  PROVE  TellInv'
<1>q. toNode \in Seq(ToNodeFrame) /\ link \in {"up", "down"}
  BY DEF TypeInv, TypeOK, LinkType
<1>1. CASE toNode' = toNode /\ S = {}
  BY <1>1 DEF TellInv
<1>2. ASSUME NEW p \in Req, Cancel(p), S \subseteq {p} PROVE TellInv'
  <2>1. CASE link = "down"
    <3>1. toNode' = <<>> /\ \A q \in Req : node'[q] \notin Working
      BY <1>2, <2>1 DEF Cancel, Write, TellInv
    <3> QED BY <2>1, <3>1 DEF TellInv
  <2>2. CASE link = "up"
    <3> DEFINE n == Len(toNode)
    <3>1. toNode' = Append(toNode, CancelOf(p)) /\ CancelOf(p) \in ToNodeFrame
      BY <1>2, <2>2, FrameTypes DEF Cancel, Write, CancelOf
    <3>2. /\ n \in Nat /\ Len(toNode') = n + 1 /\ toNode'[n + 1] = CancelOf(p)
          /\ \A i \in 1 .. n : toNode'[i] = toNode[i]
      BY <1>q, <3>1, AppendFacts
    <3>3. CancelOf(p).t # "req"
      BY DEF CancelOf
    <3>4. link' # "down"
      BY <2>2
    <3>5. ASSUME NEW q \in Req, Abandoned(q)', node'[q] \in Working
          PROVE  \/ aborted'[q]
                 \/ \E i \in 1 .. Len(toNode') : toNode'[i] = CancelOf(q)
      <4>1. CASE q = p
        <5>1. n + 1 \in 1 .. Len(toNode')
          BY <3>2
        <5> QED BY <3>2, <4>1, <5>1
      <4>2. CASE q # p
        <5>1. Abandoned(q) /\ node[q] \in Working
          BY <1>2, <3>5, <4>2
        <5>2. aborted[q] \/ \E i \in 1 .. n : toNode[i] = CancelOf(q)
          BY <5>1 DEF TellInv
        <5>3. \A i \in 1 .. n : i \in 1 .. Len(toNode')
          BY <3>2
        <5> QED BY <3>2, <5>2, <5>3
      <4> QED BY <4>1, <4>2
    <3>6. ASSUME NEW q \in Req, Abandoned(q)', NEW i \in 1 .. Len(toNode'),
                 toNode'[i].t = "req", toNode'[i].id = q
          PROVE  \E j \in i + 1 .. Len(toNode') : toNode'[j] = CancelOf(q)
      <4> HIDE DEF n
      <4>0. i # n + 1
        BY <3>2, <3>3, <3>6
      <4>1. i \in 1 .. n
        BY <3>2, <4>0
      <4>2. CASE q = p
        <5>1. n + 1 \in i + 1 .. Len(toNode')
          BY <3>2, <4>1
        <5> QED BY <3>2, <4>2, <5>1
      <4>3. CASE q # p
        <5>1. Abandoned(q) /\ toNode[i].t = "req" /\ toNode[i].id = q
          BY <1>2, <3>2, <3>6, <4>1, <4>3
        <5>2. PICK j \in i + 1 .. n : toNode[j] = CancelOf(q)
          BY <4>1, <5>1 DEF TellInv, n
        <5>3. j \in i + 1 .. Len(toNode') /\ j \in 1 .. n
          BY <3>2, <4>1
        <5> QED BY <3>2, <5>2, <5>3
      <4> QED BY <4>2, <4>3
    <3> QED BY <3>4, <3>5, <3>6 DEF TellInv
  <2> QED BY <1>q, <2>1, <2>2
<1> QED BY <1>1, <1>2

\* Init establishes TellInv.
LEMMA TellInit == Init => TellInv
BY DEF Init, TellInv, Abandoned

\* Every action preserves TellInv.
LEMMA TellStep ==
  TypeInv /\ ConnInv /\ TellInv /\ [Next]_vars => TellInv'
<1> SUFFICES ASSUME TypeInv, ConnInv, TellInv, [Next]_vars
             PROVE  TellInv'
  OBVIOUS
<1> USE DEF linkVars, connVars, readVars, callVars, chanVars, pumpVars, nodeVars
<1>q. toNode \in Seq(ToNodeFrame) /\ link \in {"up", "down"}
  BY DEF TypeInv, TypeOK, LinkType
<1>d. /\ do \in [Req -> DoStates] /\ bodyClosed \in [Req -> BOOLEAN]
      /\ node \in [Req -> NodeStates] /\ aborted \in [Req -> BOOLEAN]
  BY DEF TypeInv, TypeOK, CallType, PumpType, NodeType
<1>o. \A q \in Req : bodyClosed[q] => do[q] = "head"
  BY DEF TellInv
<1>0. ASSUME UNCHANGED <<link, toNode, do, bodyClosed, node, aborted>>
      PROVE  TellInv'
  BY <1>0 DEF TellInv, Abandoned
<1>k. ASSUME UNCHANGED <<link, toNode, bodyClosed, node, aborted>>,
             \A q \in Req : /\ do'[q] = "cancelled" => do[q] = "cancelled"
                            /\ do[q] = "head" => do'[q] = "head"
      PROVE  TellInv'
  BY <1>k, <1>o, TellKept DEF Abandoned
<1>w. ASSUME UNCHANGED <<link, toNode, do, bodyClosed, aborted>>,
             NEW r \in Req, NEW s \in NodeStates, node' = [node EXCEPT ![r] = s],
             s \in Working => node[r] \in Working
      PROVE  TellInv'
  <2>1. \A q \in Req : node'[q] \in Working => node[q] \in Working
    BY <1>d, <1>w
  <2> QED BY <1>w, <1>o, <2>1, TellKept DEF Abandoned
<1>1. ASSUME NEW r \in Req, DoRegister(r) PROVE TellInv'
  <2>1. \A q \in Req : /\ do'[q] = "cancelled" => do[q] = "cancelled"
                       /\ do[q] = "head" => do'[q] = "head"
    BY <1>d, <1>1 DEF DoRegister
  <2> QED BY <1>k, <1>1, <2>1 DEF DoRegister
<1>2. ASSUME NEW r \in Req, CtxDone(r) PROVE TellInv'
  BY <1>0, <1>2 DEF CtxDone
<1>3. ASSUME NEW r \in Req, BodyClose(r) PROVE TellInv'
  <2>1. /\ Cancel(r) /\ UNCHANGED <<link, aborted, do, node>>
        /\ bodyClosed' = [bodyClosed EXCEPT ![r] = TRUE] /\ body[r] # "none"
    BY <1>3 DEF BodyClose
  <2>2. do[r] = "head"
    BY <2>1 DEF ConnInv, BodyInv
  <2>3. \A q \in Req : /\ bodyClosed'[q] => do'[q] = "head"
                       /\ Abandoned(q)' => Abandoned(q) \/ q \in {r}
    BY <1>d, <1>o, <2>1, <2>2 DEF Abandoned
  <2> QED BY <2>1, <2>3, TellKept
<1>4. ASSUME NEW r \in Req, DoWrite(r) PROVE TellInv'
  <2>1. CASE link = "up"
    <3> DEFINE f == [t |-> "req", id |-> r]
               n == Len(toNode)
    <3>1. /\ toNode' = Append(toNode, f) /\ do[r] = "write"
          /\ do' = [do EXCEPT ![r] = "select"]
          /\ UNCHANGED <<link, bodyClosed, node, aborted>>
      BY <1>4, <2>1 DEF DoWrite, Write
    <3>2. /\ n \in Nat /\ Len(toNode') = n + 1 /\ toNode'[n + 1] = f
          /\ \A i \in 1 .. n : toNode'[i] = toNode[i]
      BY <1>q, <3>1, FrameTypes, AppendFacts
    <3>3. f.id = r /\ ~bodyClosed[r]
      BY <3>1, <1>o
    <3>4. \A q \in Req : /\ Abandoned(q)' => Abandoned(q) /\ q # r
                         /\ bodyClosed'[q] => do'[q] = "head"
      BY <1>d, <1>o, <3>1, <3>3 DEF Abandoned
    <3> HIDE DEF f, n
    <3>5. ASSUME NEW q \in Req, Abandoned(q)', node'[q] \in Working
          PROVE  \/ aborted'[q]
                 \/ \E i \in 1 .. Len(toNode') : toNode'[i] = CancelOf(q)
      <4>1. aborted[q] \/ \E i \in 1 .. n : toNode[i] = CancelOf(q)
        BY <3>1, <3>4, <3>5 DEF TellInv, n
      <4>2. \A i \in 1 .. n : i \in 1 .. Len(toNode')
        BY <3>2
      <4> QED BY <3>1, <3>2, <4>1, <4>2
    <3>6. ASSUME NEW q \in Req, Abandoned(q)', NEW i \in 1 .. Len(toNode'),
                 toNode'[i].t = "req", toNode'[i].id = q
          PROVE  \E j \in i + 1 .. Len(toNode') : toNode'[j] = CancelOf(q)
      <4>0. i # n + 1
        BY <3>2, <3>3, <3>4, <3>6
      <4>1. i \in 1 .. n
        BY <3>2, <4>0
      <4>2. Abandoned(q) /\ toNode[i].t = "req" /\ toNode[i].id = q
        BY <3>2, <3>4, <3>6, <4>1
      <4>3. PICK j \in i + 1 .. n : toNode[j] = CancelOf(q)
        BY <4>1, <4>2 DEF TellInv, n
      <4>4. j \in i + 1 .. Len(toNode') /\ j \in 1 .. n
        BY <3>2, <4>1
      <4> QED BY <3>2, <4>3, <4>4
    <3>7. link' # "down"
      BY <2>1, <3>1
    <3> QED BY <3>4, <3>5, <3>6, <3>7 DEF TellInv
  <2>2. CASE link = "down"
    <3>1. do' = [do EXCEPT ![r] = "writeError"] /\ do[r] = "write"
      BY <1>4, <2>2 DEF DoWrite
    <3>2. \A q \in Req : /\ do'[q] = "cancelled" => do[q] = "cancelled"
                         /\ do[q] = "head" => do'[q] = "head"
      BY <1>d, <3>1
    <3> QED BY <1>k, <1>4, <2>2, <3>2 DEF DoWrite
  <2> QED BY <1>q, <2>1, <2>2
<1>5. ASSUME NEW r \in Req, DoCancelled(r) PROVE TellInv'
  <2>1. /\ Cancel(r) /\ UNCHANGED <<link, aborted, bodyClosed, node>>
        /\ do[r] = "select" /\ do' = [do EXCEPT ![r] = "cancelled"]
    BY <1>5 DEF DoCancelled
  <2>2. \A q \in Req : /\ bodyClosed'[q] => do'[q] = "head"
                       /\ Abandoned(q)' => Abandoned(q) \/ q \in {r}
    BY <1>d, <1>o, <2>1 DEF Abandoned
  <2> QED BY <2>1, <2>2, TellKept
<1>6. ASSUME NEW r \in Req, DoDisconnected(r) PROVE TellInv'
  <2>1. \A q \in Req : /\ do'[q] = "cancelled" => do[q] = "cancelled"
                       /\ do[q] = "head" => do'[q] = "head"
    BY <1>d, <1>6 DEF DoDisconnected
  <2> QED BY <1>k, <1>6, <2>1 DEF DoDisconnected
<1>7. ASSUME NEW r \in Req, DoFailed(r) PROVE TellInv'
  <2>1. \A q \in Req : /\ do'[q] = "cancelled" => do[q] = "cancelled"
                       /\ do[q] = "head" => do'[q] = "head"
    BY <1>d, <1>7 DEF DoFailed
  <2> QED BY <1>k, <1>7, <2>1 DEF DoFailed
<1>8. ASSUME NEW r \in Req, DoHead(r) PROVE TellInv'
  <2>1. \A q \in Req : /\ do'[q] = "cancelled" => do[q] = "cancelled"
                       /\ do[q] = "head" => do'[q] = "head"
    BY <1>d, <1>8 DEF DoHead
  <2> QED BY <1>k, <1>8, <2>1 DEF DoHead
<1>9. ASSUME NEW r \in Req, PumpRecv(r) PROVE TellInv'
  BY <1>0, <1>9 DEF PumpRecv
<1>10. ASSUME NEW r \in Req, PumpEnd(r) PROVE TellInv'
  BY <1>0, <1>10 DEF PumpEnd
<1>11. ASSUME NEW r \in Req, PumpClosed(r) PROVE TellInv'
  BY <1>0, <1>11 DEF PumpClosed
<1>12. ASSUME NEW r \in Req, PumpWrite(r) PROVE TellInv'
  BY <1>0, <1>12 DEF PumpWrite
<1>13. ASSUME NEW r \in Req, PumpWriteError(r) PROVE TellInv'
  <2>1. Cancel(r) /\ UNCHANGED <<link, aborted, do, bodyClosed, node>>
    BY <1>13 DEF PumpWriteError
  <2> QED BY <1>o, <2>1, TellKept DEF Abandoned
<1>14. ASSUME NEW r \in Req, NodeHead(r) PROVE TellInv'
  <2>1. /\ node' = [node EXCEPT ![r] = "streaming"] /\ node[r] \in Working
        /\ UNCHANGED <<link, toNode, do, bodyClosed, aborted>>
    BY <1>14 DEF NodeHead, Working
  <2> QED BY <1>w, <2>1 DEF NodeStates
<1>15. ASSUME NEW r \in Req, NodeEnd(r) PROVE TellInv'
  <2>1. /\ node' = [node EXCEPT ![r] = "ended"] /\ node[r] \in Working
        /\ UNCHANGED <<link, toNode, do, bodyClosed, aborted>>
    BY <1>15 DEF NodeEnd, Working
  <2> QED BY <1>w, <2>1 DEF NodeStates
<1>16. ASSUME NEW r \in Req, NodeErr(r) PROVE TellInv'
  <2>1. /\ node' = [node EXCEPT ![r] = "failed"] /\ node[r] \in Working
        /\ UNCHANGED <<link, toNode, do, bodyClosed, aborted>>
    BY <1>16 DEF NodeErr, Working
  <2> QED BY <1>w, <2>1 DEF NodeStates
<1>17. ASSUME NEW r \in Req, NodeData(r) PROVE TellInv'
  BY <1>0, <1>17 DEF NodeData
<1>18. ASSUME NEW r \in Req, NodeMisSequences(r) PROVE TellInv'
  BY <1>0, <1>18 DEF NodeMisSequences
<1>19. ASSUME NEW r \in Req, ShutdownClose(r) PROVE TellInv'
  BY <1>0, <1>19 DEF ShutdownClose
<1>20. CASE DispatchHead
  BY <1>0, <1>20 DEF DispatchHead
<1>21. CASE DispatchData
  BY <1>0, <1>21 DEF DispatchData
<1>22. CASE DispatchEnd
  BY <1>0, <1>22 DEF DispatchEnd
<1>23. CASE DispatchErr
  BY <1>0, <1>23 DEF DispatchErr
<1>24. CASE SendChunk
  BY <1>0, <1>24 DEF SendChunk
<1>25. CASE SendPanics
  BY <1>0, <1>25 DEF SendPanics
<1>26. CASE ReadError
  BY <1>0, <1>26 DEF ReadError
<1>27. CASE ShutdownDrain
  BY <1>0, <1>27 DEF ShutdownDrain
<1>28. CASE ShutdownDone
  BY <1>0, <1>28 DEF ShutdownDone
<1>g. ASSUME NodeSeesClose, UNCHANGED <<do, bodyClosed>> PROVE TellInv'
  <2>1. toNode' = <<>> /\ \A q \in Req : node'[q] \notin Working
    BY <1>g DEF NodeSeesClose, Working
  <2> QED BY <1>g, <1>o, <2>1 DEF TellInv
<1>29. CASE HandlerReturns
  <2>1. CASE panicked
    BY <1>0, <1>29, <2>1 DEF HandlerReturns
  <2>2. CASE ~panicked
    BY <1>g, <1>29, <2>2 DEF HandlerReturns
  <2> QED BY <2>1, <2>2
<1>30. CASE LinkDrops
  BY <1>g, <1>30 DEF LinkDrops
<1>31. CASE HeartbeatLost
  BY <1>g, <1>31 DEF HeartbeatLost
\* The frame the node reads, and where the others move.
<1>t. ASSUME toNode # <<>>, toNode' = Tail(toNode)
      PROVE  /\ Len(toNode) \in Nat \ {0} /\ Len(toNode') = Len(toNode) - 1
             /\ \A i \in 1 .. Len(toNode') : toNode'[i] = toNode[i + 1]
             /\ Head(toNode) = toNode[1] /\ Head(toNode).id \in Req
  BY <1>t, <1>q, TailFacts, FrameTypes
\* A cancel behind the first frame is still there when that one is read.
<1>u. ASSUME toNode # <<>>, toNode' = Tail(toNode), NEW q \in Req,
             Abandoned(q), NEW i \in 1 .. Len(toNode'),
             toNode'[i].t = "req", toNode'[i].id = q
      PROVE  \E j \in i + 1 .. Len(toNode') : toNode'[j] = CancelOf(q)
  <2> DEFINE m == Len(toNode)
             k == Len(toNode')
  <2>1. /\ m \in Nat \ {0} /\ k = m - 1
        /\ \A x \in 1 .. k : toNode'[x] = toNode[x + 1]
    BY <1>u, <1>t
  <2> HIDE DEF m, k
  <2>2. i \in 1 .. k /\ i + 1 \in 1 .. m
    BY <1>u, <2>1 DEF k
  <2>3. toNode[i + 1].t = "req" /\ toNode[i + 1].id = q
    BY <1>u, <2>1, <2>2
  <2>4. PICK j \in (i + 1) + 1 .. m : toNode[j] = CancelOf(q)
    BY <1>u, <2>2, <2>3 DEF TellInv, m
  <2>5. j - 1 \in i + 1 .. k /\ j - 1 \in 1 .. k /\ (j - 1) + 1 = j
    BY <2>1, <2>2, <2>4
  <2>6. toNode'[j - 1] = CancelOf(q)
    BY <2>1, <2>4, <2>5
  <2> QED BY <2>5, <2>6 DEF k
<1>32. CASE NodeReq
  <2> DEFINE p == Head(toNode).id
  <2>1. /\ link = "up" /\ toNode # <<>> /\ toNode' = Tail(toNode)
        /\ Head(toNode).t = "req" /\ node' = [node EXCEPT ![p] = "serving"]
        /\ UNCHANGED <<link, do, bodyClosed, aborted>>
    BY <1>32 DEF NodeReq
  <2>2. /\ Len(toNode) \in Nat \ {0} /\ Len(toNode') = Len(toNode) - 1
        /\ \A i \in 1 .. Len(toNode') : toNode'[i] = toNode[i + 1]
        /\ toNode[1].t = "req" /\ toNode[1].id = p /\ p \in Req
    BY <1>t, <2>1
  <2> HIDE DEF p
  <2>a. \A q \in Req : Abandoned(q)' <=> Abandoned(q)
    BY <2>1 DEF Abandoned
  <2>3. ASSUME NEW q \in Req, Abandoned(q)', node'[q] \in Working
        PROVE  \/ aborted'[q]
               \/ \E i \in 1 .. Len(toNode') : toNode'[i] = CancelOf(q)
    <3>1. \/ aborted[q]
          \/ \E i \in 2 .. Len(toNode) : toNode[i] = CancelOf(q)
      <4>1. CASE q = p
        <5>1. 1 \in 1 .. Len(toNode) /\ 1 + 1 = 2
          BY <2>2
        <5> QED BY <2>2, <2>3, <2>a, <4>1, <5>1 DEF TellInv
      <4>2. CASE q # p
        <5>1. node[q] \in Working
          BY <2>1, <2>3, <4>2, <1>d
        <5>2. aborted[q] \/ \E i \in 1 .. Len(toNode) : toNode[i] = CancelOf(q)
          BY <5>1, <2>3, <2>a DEF TellInv
        <5>3. toNode[1] # CancelOf(q)
          BY <2>2 DEF CancelOf
        <5>4. \A i \in 1 .. Len(toNode) : i = 1 \/ i \in 2 .. Len(toNode)
          BY <2>2
        <5> QED BY <5>2, <5>3, <5>4
      <4> QED BY <4>1, <4>2
    <3>2. \A i \in 2 .. Len(toNode) : /\ i - 1 \in 1 .. Len(toNode')
                                      /\ toNode'[i - 1] = toNode[i]
      BY <2>2
    <3> QED BY <2>1, <3>1, <3>2
  <2>4. \A q \in Req : bodyClosed'[q] => do'[q] = "head"
    BY <1>o, <2>1
  <2>5. link' # "down"
    BY <2>1
  <2> QED BY <1>u, <2>1, <2>3, <2>4, <2>5, <2>a DEF TellInv
<1>33. CASE NodeCancel
  <2> DEFINE p == Head(toNode).id
  <2>1. /\ link = "up" /\ toNode # <<>> /\ toNode' = Tail(toNode)
        /\ Head(toNode).t = "cancel"
        /\ aborted' = [aborted EXCEPT ![p] = @ \/ node[p] \in Working]
        /\ UNCHANGED <<link, do, bodyClosed, node>>
    BY <1>33 DEF NodeCancel, Working
  <2>2. /\ Len(toNode) \in Nat \ {0} /\ Len(toNode') = Len(toNode) - 1
        /\ \A i \in 1 .. Len(toNode') : toNode'[i] = toNode[i + 1]
        /\ toNode[1].id = p /\ p \in Req
    BY <1>t, <2>1
  <2> HIDE DEF p
  <2>a. \A q \in Req : Abandoned(q)' <=> Abandoned(q)
    BY <2>1 DEF Abandoned
  <2>3. ASSUME NEW q \in Req, Abandoned(q)', node'[q] \in Working
        PROVE  \/ aborted'[q]
               \/ \E i \in 1 .. Len(toNode') : toNode'[i] = CancelOf(q)
    <3>1. aborted[q] \/ \E i \in 1 .. Len(toNode) : toNode[i] = CancelOf(q)
      BY <2>1, <2>3, <2>a DEF TellInv
    <3>2. (aborted[q] => aborted'[q]) /\ (q = p => aborted'[q])
      BY <2>1, <2>3, <1>d
    <3>3. toNode[1] = CancelOf(q) => q = p
      BY <2>2 DEF CancelOf
    <3>4. \A i \in 1 .. Len(toNode) :
            i = 1 \/ (i - 1 \in 1 .. Len(toNode') /\ toNode'[i - 1] = toNode[i])
      BY <2>2
    <3> QED BY <3>1, <3>2, <3>3, <3>4
  <2>4. \A q \in Req : bodyClosed'[q] => do'[q] = "head"
    BY <1>o, <2>1
  <2>5. link' # "down"
    BY <2>1
  <2> QED BY <1>u, <2>1, <2>3, <2>4, <2>5, <2>a DEF TellInv
<1>34. CASE UNCHANGED vars
  BY <1>0, <1>34 DEF vars
<1> QED BY <1>1, <1>2, <1>3, <1>4, <1>5, <1>6, <1>7, <1>8, <1>9, <1>10, <1>11,
     <1>12, <1>13, <1>14, <1>15, <1>16, <1>17, <1>18, <1>19, <1>20, <1>21,
     <1>22, <1>23, <1>24, <1>25, <1>26, <1>27, <1>28, <1>29, <1>30, <1>31,
     <1>32, <1>33, <1>34 DEF Next, Browser, Caller, Pump, NodeServes, Reader

\* Once nobody wants an answer, the node still at work on it has been told to
\* stop or will read the cancel frame.
THEOREM AbandonedIsToldHolds == Spec => []AbandonedIsTold
<1>1. TellInv => AbandonedIsTold
  BY DEF TellInv, AbandonedIsTold, Abandoned, Working, CancelOf
<1> QED BY <1>1, TypeInit, TypeStep, ConnInit, ConnStep, TellInit, TellStep, PTL
        DEF Spec

\* The frames that remain are those that stood k further back.
Shift(k) == /\ Len(toCP') \in Nat
            /\ \A i \in 1 .. Len(toCP') : /\ i + k \in 1 .. Len(toCP)
                                          /\ toCP'[i] = toCP[i + k]

\* What the steps that take frames away do to the queue.
LEMMA Shifts ==
  ASSUME LinkType
  PROVE  /\ toCP' = toCP \/ toCP' = <<>> => Shift(0)
         /\ toCP # <<>> /\ toCP' = Tail(toCP) =>
              /\ Shift(1) /\ Head(toCP) = toCP[1] /\ Len(toCP) \in Nat \ {0}
              /\ Head(toCP) \in ToCPFrame /\ Head(toCP).id \in Req
         /\ \A n \in 0 .. Len(toCP) : toCP' = SubSeq(toCP, 1, n) => Shift(0)
<1>1. toCP \in Seq(ToCPFrame)
  BY DEF LinkType
<1>2. toCP' = toCP \/ toCP' = <<>> => Shift(0)
  BY <1>1 DEF Shift
<1>3. ASSUME toCP # <<>>, toCP' = Tail(toCP)
      PROVE  /\ Shift(1) /\ Head(toCP) = toCP[1] /\ Len(toCP) \in Nat \ {0}
             /\ Head(toCP) \in ToCPFrame /\ Head(toCP).id \in Req
  BY <1>1, <1>3, TailFacts, FrameTypes DEF Shift
<1>4. ASSUME NEW n \in 0 .. Len(toCP), toCP' = SubSeq(toCP, 1, n)
      PROVE  Shift(0)
  BY <1>1, <1>4 DEF Shift
<1> QED BY <1>2, <1>3, <1>4

\* What a step that sends a frame does to it.
LEMMA Sends ==
  ASSUME LinkType, NEW f \in ToCPFrame, NodeSend(f)
  PROVE  /\ Len(toCP) \in Nat /\ Len(toCP') = Len(toCP) + 1
         /\ \A i \in 1 .. Len(toCP) : toCP'[i] = toCP[i]
         /\ toCP'[Len(toCP) + 1] = f
BY AppendFacts DEF LinkType, NodeSend

\* Steps that take frames away and fill no head slot keep HeadInv.
LEMMA HeadKept ==
  ASSUME HeadInv, NEW k \in Nat, Shift(k), \A q \in Req : head'[q] => head[q]
  PROVE  HeadInv'
<1>1. ASSUME NEW i \in 1 .. Len(toCP'), NEW j \in 1 .. Len(toCP'),
             IsHead(toCP'[i], toCP'[i].id), IsHead(toCP'[j], toCP'[i].id)
      PROVE  i = j
  <2>1. /\ i + k \in 1 .. Len(toCP) /\ toCP'[i] = toCP[i + k]
        /\ j + k \in 1 .. Len(toCP) /\ toCP'[j] = toCP[j + k]
    BY DEF Shift
  <2>2. i + k = j + k
    BY <1>1, <2>1 DEF HeadInv
  <2> QED BY <2>2
<1>2. ASSUME NEW q \in Req, head'[q], NEW i \in 1 .. Len(toCP')
      PROVE  ~IsHead(toCP'[i], q)
  BY <1>2 DEF HeadInv, Shift
<1> QED BY <1>1, <1>2 DEF HeadInv

\* A frame sent keeps it too, if it is not a second head.
LEMMA HeadSent ==
  ASSUME LinkType, HeadInv, NEW f \in ToCPFrame, NodeSend(f), UNCHANGED head,
         f.t = "head" => /\ ~head[f.id]
                         /\ \A i \in 1 .. Len(toCP) : ~IsHead(toCP[i], f.id)
  PROVE  HeadInv'
<1> DEFINE n == Len(toCP)
<1>1. /\ n \in Nat /\ Len(toCP') = n + 1 /\ toCP'[n + 1] = f
      /\ \A i \in 1 .. n : toCP'[i] = toCP[i]
  BY Sends
<1>2. /\ \A i, j \in 1 .. n :
           IsHead(toCP[i], toCP[i].id) /\ IsHead(toCP[j], toCP[i].id) => i = j
      /\ \A q \in Req : head[q] => \A i \in 1 .. n : ~IsHead(toCP[i], q)
      /\ f.t = "head" => \A i \in 1 .. n : ~IsHead(toCP[i], f.id)
  BY DEF HeadInv
<1> HIDE DEF n
<1>3. \A i \in 1 .. Len(toCP') : i \in 1 .. n \/ i = n + 1
  BY <1>1
<1>4. ASSUME NEW i \in 1 .. Len(toCP'), NEW j \in 1 .. Len(toCP'),
             IsHead(toCP'[i], toCP'[i].id), IsHead(toCP'[j], toCP'[i].id)
      PROVE  i = j
  BY <1>1, <1>2, <1>3, <1>4 DEF IsHead
<1>5. ASSUME NEW q \in Req, head'[q], NEW i \in 1 .. Len(toCP')
      PROVE  ~IsHead(toCP'[i], q)
  BY <1>1, <1>2, <1>3, <1>5 DEF IsHead
<1> QED BY <1>4, <1>5 DEF HeadInv

\* Init establishes HeadInv.
LEMMA HeadInit == Init => HeadInv
BY DEF Init, HeadInv

\* Every action preserves HeadInv.
LEMMA HeadStep == TypeInv /\ TruthInv /\ HeadInv /\ [Next]_vars => HeadInv'
<1> SUFFICES ASSUME TypeInv, TruthInv, HeadInv, [Next]_vars PROVE HeadInv'
  OBVIOUS
<1> USE DEF linkVars, connVars, readVars, callVars, chanVars, pumpVars, nodeVars
<1>l. LinkType /\ head \in [Req -> BOOLEAN]
  BY DEF TypeInv, TypeOK, CallType
<1>0. ASSUME UNCHANGED <<toCP, head>> PROVE HeadInv'
  BY <1>0 DEF HeadInv
<1>1. ASSUME NEW r \in Req, DoRegister(r) PROVE HeadInv'
  BY <1>0, <1>1 DEF DoRegister
<1>2. ASSUME NEW r \in Req, CtxDone(r) PROVE HeadInv'
  BY <1>0, <1>2 DEF CtxDone
<1>3. ASSUME NEW r \in Req, BodyClose(r) PROVE HeadInv'
  BY <1>0, <1>3 DEF BodyClose
<1>4. ASSUME NEW r \in Req, DoWrite(r) PROVE HeadInv'
  BY <1>0, <1>4 DEF DoWrite
<1>5. ASSUME NEW r \in Req, DoCancelled(r) PROVE HeadInv'
  BY <1>0, <1>5 DEF DoCancelled
<1>6. ASSUME NEW r \in Req, DoDisconnected(r) PROVE HeadInv'
  BY <1>0, <1>6 DEF DoDisconnected
<1>7. ASSUME NEW r \in Req, DoFailed(r) PROVE HeadInv'
  BY <1>0, <1>7 DEF DoFailed
<1>8. ASSUME NEW r \in Req, PumpRecv(r) PROVE HeadInv'
  BY <1>0, <1>8 DEF PumpRecv
<1>9. ASSUME NEW r \in Req, PumpEnd(r) PROVE HeadInv'
  BY <1>0, <1>9 DEF PumpEnd
<1>10. ASSUME NEW r \in Req, PumpClosed(r) PROVE HeadInv'
  BY <1>0, <1>10 DEF PumpClosed
<1>11. ASSUME NEW r \in Req, PumpWrite(r) PROVE HeadInv'
  BY <1>0, <1>11 DEF PumpWrite
<1>12. ASSUME NEW r \in Req, PumpWriteError(r) PROVE HeadInv'
  BY <1>0, <1>12 DEF PumpWriteError
<1>13. ASSUME NEW r \in Req, ShutdownClose(r) PROVE HeadInv'
  BY <1>0, <1>13 DEF ShutdownClose
<1>14. ASSUME NEW r \in Req, DoHead(r) PROVE HeadInv'
  <2>1. UNCHANGED toCP /\ \A q \in Req : head'[q] => head[q]
    BY <1>l, <1>14 DEF DoHead
  <2> QED BY <1>l, <2>1, Shifts, HeadKept
<1>15. ASSUME NEW r \in Req, NodeHead(r) PROVE HeadInv'
  <2> DEFINE f == [t |-> "head", id |-> r]
  <2>1. /\ NodeSend(f) /\ UNCHANGED head /\ node[r] = "serving"
        /\ f \in ToCPFrame /\ f.id = r
    BY <1>15, FrameTypes DEF NodeHead
  <2>2. ~Begun(node[r])
    BY <2>1 DEF Begun
  <2>3. ~head[r] /\ \A i \in 1 .. Len(toCP) : ~IsHead(toCP[i], r)
    BY <2>2 DEF TruthInv, IsHead
  <2> HIDE DEF f
  <2> QED BY <1>l, <2>1, <2>3, HeadSent
<1>16. ASSUME NEW r \in Req, NodeData(r) PROVE HeadInv'
  <2> DEFINE f == [t |-> "data", id |-> r, seq |-> produced[r]]
  <2>1. NodeSend(f) /\ UNCHANGED head /\ f.t # "head"
    BY <1>16 DEF NodeData
  <2>2. f \in ToCPFrame
    BY FrameTypes DEF TypeInv, TypeOK, NodeType
  <2> HIDE DEF f
  <2> QED BY <1>l, <2>1, <2>2, HeadSent
<1>17. ASSUME NEW r \in Req, NodeEnd(r) PROVE HeadInv'
  <2> DEFINE f == [t |-> "end", id |-> r, chunks |-> produced[r]]
  <2>1. NodeSend(f) /\ UNCHANGED head /\ f.t # "head"
    BY <1>17 DEF NodeEnd
  <2>2. f \in ToCPFrame
    BY FrameTypes DEF TypeInv, TypeOK, NodeType
  <2> HIDE DEF f
  <2> QED BY <1>l, <2>1, <2>2, HeadSent
<1>18. ASSUME NEW r \in Req, NodeErr(r) PROVE HeadInv'
  <2> DEFINE f == [t |-> "err", id |-> r]
  <2>1. NodeSend(f) /\ UNCHANGED head /\ f.t # "head"
    BY <1>18 DEF NodeErr
  <2>2. f \in ToCPFrame
    BY FrameTypes
  <2> HIDE DEF f
  <2> QED BY <1>l, <2>1, <2>2, HeadSent
<1>19. ASSUME NEW r \in Req, NodeMisSequences(r) PROVE HeadInv'
  <2> DEFINE f == [t |-> "data", id |-> r, seq |-> produced[r] - 1]
  <2>0. UNCHANGED head
    BY <1>19 DEF NodeMisSequences
  <2>1. UNCHANGED toCP \/ (produced[r] > 0 /\ NodeSend(f))
    BY <1>19 DEF NodeMisSequences
  <2>2. produced[r] > 0 => produced[r] - 1 \in 0 .. MaxChunks
    BY BoundsAssumption DEF TypeInv, TypeOK, NodeType
  <2>3. f.t # "head" /\ (produced[r] > 0 => f \in ToCPFrame)
    BY <2>2, FrameTypes
  <2> HIDE DEF f
  <2> QED BY <1>0, <1>l, <2>0, <2>1, <2>3, HeadSent
<1>20. CASE DispatchHead
  <2> DEFINE p == Head(toCP).id
  <2>1. /\ toCP # <<>> /\ toCP' = Tail(toCP) /\ Head(toCP).t = "head"
        /\ head' = [head EXCEPT ![p] = @ \/ p \in pending]
    BY <1>20 DEF DispatchHead, Incoming
  <2>2. /\ Shift(1) /\ Head(toCP) = toCP[1] /\ Len(toCP) \in Nat \ {0}
        /\ p \in Req
    BY <1>l, <2>1, Shifts
  <2>3. IsHead(toCP[1], p)
    BY <2>1, <2>2 DEF IsHead
  <2> HIDE DEF p
  <2>4. \A i \in 1 .. Len(toCP') : i + 1 # 1 /\ ~IsHead(toCP'[i], p)
    <3>1. \A i \in 1 .. Len(toCP') : i + 1 \in 1 .. Len(toCP) /\ i + 1 # 1
      BY <2>2 DEF Shift
    <3>2. 1 \in 1 .. Len(toCP) /\ toCP[1].id = p
      BY <2>2, <2>3 DEF IsHead
    <3> QED BY <2>2, <2>3, <3>1, <3>2 DEF HeadInv, Shift
  <2>5. \A q \in Req : head'[q] => head[q] \/ q = p
    BY <1>l, <2>1
  <2>6. ASSUME NEW q \in Req, head'[q], NEW i \in 1 .. Len(toCP')
        PROVE  ~IsHead(toCP'[i], q)
    <3>1. CASE q = p
      BY <2>4, <3>1
    <3>2. CASE q # p
      BY <2>2, <2>5, <2>6, <3>2 DEF HeadInv, Shift
    <3> QED BY <3>1, <3>2
  <2>7. ASSUME NEW i \in 1 .. Len(toCP'), NEW j \in 1 .. Len(toCP'),
               IsHead(toCP'[i], toCP'[i].id), IsHead(toCP'[j], toCP'[i].id)
        PROVE  i = j
    <3>1. /\ i + 1 \in 1 .. Len(toCP) /\ toCP'[i] = toCP[i + 1]
          /\ j + 1 \in 1 .. Len(toCP) /\ toCP'[j] = toCP[j + 1]
      BY <2>2 DEF Shift
    <3>2. i + 1 = j + 1
      BY <2>7, <3>1 DEF HeadInv
    <3> QED BY <3>2
  <2> QED BY <2>6, <2>7 DEF HeadInv
<1>21. CASE DispatchData
  <2>1. toCP # <<>> /\ toCP' = Tail(toCP) /\ UNCHANGED head
    BY <1>21 DEF DispatchData, Incoming
  <2>2. Shift(1)
    BY <1>l, <2>1, Shifts
  <2> QED BY <2>1, <2>2, HeadKept
<1>22. CASE DispatchEnd
  <2>1. toCP # <<>> /\ toCP' = Tail(toCP) /\ UNCHANGED head
    BY <1>22 DEF DispatchEnd, Incoming
  <2>2. Shift(1)
    BY <1>l, <2>1, Shifts
  <2> QED BY <2>1, <2>2, HeadKept
<1>23. CASE DispatchErr
  <2>1. toCP # <<>> /\ toCP' = Tail(toCP) /\ UNCHANGED head
    BY <1>23 DEF DispatchErr, Incoming
  <2>2. Shift(1)
    BY <1>l, <2>1, Shifts
  <2> QED BY <2>1, <2>2, HeadKept
<1>24. CASE SendChunk
  BY <1>0, <1>24 DEF SendChunk
<1>25. CASE SendPanics
  BY <1>0, <1>25 DEF SendPanics
<1>26. CASE ReadError
  BY <1>0, <1>26 DEF ReadError
<1>27. CASE ShutdownDrain
  BY <1>0, <1>27 DEF ShutdownDrain
<1>28. CASE ShutdownDone
  BY <1>0, <1>28 DEF ShutdownDone
<1>29. CASE NodeReq
  BY <1>0, <1>29 DEF NodeReq
<1>30. CASE NodeCancel
  BY <1>0, <1>30 DEF NodeCancel
<1>31. CASE HandlerReturns
  <2>1. UNCHANGED head /\ (UNCHANGED toCP \/ toCP' = <<>>)
    BY <1>31 DEF HandlerReturns
  <2> QED BY <1>l, <2>1, Shifts, HeadKept
<1>32. CASE LinkDrops
  <2>1. UNCHANGED head /\ \E i \in 0 .. Len(toCP) : toCP' = SubSeq(toCP, 1, i)
    BY <1>32 DEF LinkDrops
  <2> QED BY <1>l, <2>1, Shifts, HeadKept
<1>33. CASE HeartbeatLost
  <2>1. UNCHANGED head /\ toCP' = <<>>
    BY <1>33 DEF HeartbeatLost
  <2> QED BY <1>l, <2>1, Shifts, HeadKept
<1>34. CASE UNCHANGED vars
  BY <1>0, <1>34 DEF vars
<1> QED BY <1>1, <1>2, <1>3, <1>4, <1>5, <1>6, <1>7, <1>8, <1>9, <1>10, <1>11,
     <1>12, <1>13, <1>14, <1>15, <1>16, <1>17, <1>18, <1>19, <1>20, <1>21,
     <1>22, <1>23, <1>24, <1>25, <1>26, <1>27, <1>28, <1>29, <1>30, <1>31,
     <1>32, <1>33, <1>34 DEF Next, Browser, Caller, Pump, NodeServes, Reader

Early(q) == do[q] \in {"idle", "write", "select"}
Running == reader \in {"read", "send"}

\* Steps that leave the frames alone, or lose some of them while no node is
\* streaming, keep WaitInv if they take no slot from a caller that has not
\* returned and no head from its channel, and start neither an answer nor a
\* send.
LEMMA WaitKept ==
  ASSUME WaitInv, Shift(0),
         UNCHANGED toCP \/ (\A q \in Req : node'[q] # "streaming"),
         closed => closed', Running' => Running,
         \A q \in Req : do'[q] = "refused" => do[q] = "refused" \/ closed',
         Running' => \A q \in Req : Early(q)' =>
           /\ Early(q) /\ (do'[q] # "idle" => q \in pending')
           /\ head[q] => head'[q]
           /\ node'[q] = "streaming" => node[q] = "streaming"
           /\ reader' = "send" /\ hand'.id = q => reader = "send" /\ hand.id = q
  PROVE  WaitInv'
<1>1. \A q \in Req : do'[q] = "refused" => closed'
  BY DEF WaitInv
<1>2. ASSUME Running', NEW q \in Req, Early(q)' PROVE WaitOK(q)'
  <2>1. /\ Running /\ Early(q) /\ (do'[q] # "idle" => q \in pending')
        /\ head[q] => head'[q]
        /\ node'[q] = "streaming" => node[q] = "streaming"
        /\ reader' = "send" /\ hand'.id = q => reader = "send" /\ hand.id = q
    BY <1>2
  <2>2. /\ node[q] = "streaming" =>
             head[q] \/ \E i \in 1 .. Len(toCP) : IsHead(toCP[i], q)
        /\ \A i \in 1 .. Len(toCP) :
             toCP[i].t \in {"data", "end"} /\ toCP[i].id = q =>
               head[q] \/ \E j \in 1 .. i - 1 : IsHead(toCP[j], q)
        /\ reader = "send" /\ hand.id = q => head[q]
    BY <2>1 DEF WaitInv, WaitOK, Running, Early
  <2>3. node'[q] = "streaming" =>
          head'[q] \/ \E i \in 1 .. Len(toCP') : IsHead(toCP'[i], q)
    BY <2>1, <2>2
  <2>4. ASSUME NEW i \in 1 .. Len(toCP'),
               toCP'[i].t \in {"data", "end"}, toCP'[i].id = q
        PROVE  head'[q] \/ \E j \in 1 .. i - 1 : IsHead(toCP'[j], q)
    <3>1. i \in 1 .. Len(toCP) /\ toCP'[i] = toCP[i] /\ Len(toCP') \in Nat
      BY DEF Shift
    <3>2. head[q] \/ \E j \in 1 .. i - 1 : IsHead(toCP[j], q)
      BY <2>2, <2>4, <3>1
    <3>3. \A j \in 1 .. i - 1 : toCP'[j] = toCP[j]
      <4>1. \A j \in 1 .. i - 1 : j \in 1 .. Len(toCP') /\ j + 0 = j
        BY <3>1
      <4> QED BY <4>1 DEF Shift
    <3> QED BY <2>1, <3>2, <3>3
  <2> QED BY <2>1, <2>2, <2>3, <2>4 DEF WaitOK
<1>3. ASSUME Running', NEW q \in Req PROVE WaitOK(q)'
  BY <1>2, <1>3 DEF WaitOK, Early
<1> QED BY <1>1, <1>3 DEF WaitInv, Running

\* A frame sent keeps it, if a node that starts to stream says so with a head,
\* and only a streaming node sends what belongs behind one.
LEMMA WaitSent ==
  ASSUME LinkType, WaitInv, NEW f \in ToCPFrame, NodeSend(f),
         UNCHANGED <<do, pending, closed, head, reader, hand>>,
         \A q \in Req : node'[q] = "streaming" =>
                          node[q] = "streaming" \/ IsHead(f, q),
         f.t \in {"data", "end"} => node[f.id] = "streaming"
  PROVE  WaitInv'
<1> DEFINE n == Len(toCP)
<1>1. /\ n \in Nat /\ Len(toCP') = n + 1 /\ toCP'[n + 1] = f
      /\ \A i \in 1 .. n : toCP'[i] = toCP[i]
  BY Sends
<1>2. ASSUME Running', NEW q \in Req, Early(q)' PROVE WaitOK(q)'
  <2>1. /\ do[q] # "idle" => q \in pending
        /\ node[q] = "streaming" =>
             head[q] \/ \E i \in 1 .. n : IsHead(toCP[i], q)
        /\ \A i \in 1 .. n :
             toCP[i].t \in {"data", "end"} /\ toCP[i].id = q =>
               head[q] \/ \E j \in 1 .. i - 1 : IsHead(toCP[j], q)
        /\ reader = "send" /\ hand.id = q => head[q]
    BY <1>2 DEF WaitInv, WaitOK, Running, Early
  <2> HIDE DEF n
  <2>2. node'[q] = "streaming" =>
          head'[q] \/ \E i \in 1 .. Len(toCP') : IsHead(toCP'[i], q)
    <3>1. n + 1 \in 1 .. Len(toCP') /\ \A i \in 1 .. n : i \in 1 .. Len(toCP')
      BY <1>1
    <3> QED BY <1>1, <2>1, <3>1
  <2>3. ASSUME NEW i \in 1 .. Len(toCP'),
               toCP'[i].t \in {"data", "end"}, toCP'[i].id = q
        PROVE  head'[q] \/ \E j \in 1 .. i - 1 : IsHead(toCP'[j], q)
    <3>1. CASE i \in 1 .. n
      <4>1. toCP'[i] = toCP[i] /\ \A j \in 1 .. i - 1 : toCP'[j] = toCP[j]
        BY <1>1, <3>1
      <4> QED BY <2>1, <2>3, <3>1, <4>1
    <3>2. CASE i = n + 1
      <4>1. node[q] = "streaming" /\ i - 1 = n
        BY <1>1, <2>3, <3>2
      <4> QED BY <1>1, <2>1, <4>1
    <3> QED BY <1>1, <3>1, <3>2
  <2> QED BY <2>1, <2>2, <2>3 DEF WaitOK
<1>3. ASSUME Running', NEW q \in Req PROVE WaitOK(q)'
  BY <1>2, <1>3 DEF WaitOK, Early
<1>4. \A q \in Req : do'[q] = "refused" => closed'
  BY DEF WaitInv
<1> QED BY <1>3, <1>4 DEF WaitInv, Running

\* The read loop takes the first frame: a head fills its slot, and what it hands
\* on belongs to a request whose head has been taken up.
LEMMA WaitTaken ==
  ASSUME LinkType, WaitInv, toCP # <<>>, toCP' = Tail(toCP), Running,
         UNCHANGED <<do, pending, closed, node>>,
         \A q \in Req : head[q] => head'[q],
         Running' => \A q \in Req : Early(q) =>
           /\ IsHead(Head(toCP), q) => head'[q]
           /\ reader' = "send" /\ hand'.id = q =>
                Head(toCP).t \in {"data", "end"} /\ Head(toCP).id = q
  PROVE  WaitInv'
<1>s. /\ Shift(1) /\ Head(toCP) = toCP[1] /\ Len(toCP) \in Nat \ {0}
      /\ Len(toCP') = Len(toCP) - 1
  BY Shifts, TailFacts DEF LinkType
<1>2. ASSUME Running', NEW q \in Req, Early(q)' PROVE WaitOK(q)'
  <2>1. /\ do[q] # "idle" => q \in pending
        /\ node[q] = "streaming" =>
             head[q] \/ \E i \in 1 .. Len(toCP) : IsHead(toCP[i], q)
        /\ \A i \in 1 .. Len(toCP) :
             toCP[i].t \in {"data", "end"} /\ toCP[i].id = q =>
               head[q] \/ \E j \in 1 .. i - 1 : IsHead(toCP[j], q)
    BY <1>2 DEF WaitInv, WaitOK, Running, Early
  <2>2. /\ IsHead(toCP[1], q) => head'[q]
        /\ reader' = "send" /\ hand'.id = q =>
             toCP[1].t \in {"data", "end"} /\ toCP[1].id = q
    BY <1>2, <1>s DEF Early
  <2>3. node'[q] = "streaming" =>
          head'[q] \/ \E i \in 1 .. Len(toCP') : IsHead(toCP'[i], q)
    <3>1. \A i \in 1 .. Len(toCP) :
            \/ i = 1
            \/ i - 1 \in 1 .. Len(toCP') /\ toCP'[i - 1] = toCP[i]
      <4>1. \A i \in 1 .. Len(toCP) :
              i = 1 \/ (i - 1 \in 1 .. Len(toCP') /\ (i - 1) + 1 = i)
        BY <1>s
      <4> QED BY <1>s, <4>1 DEF Shift
    <3> QED BY <2>1, <2>2, <3>1
  <2>4. ASSUME NEW i \in 1 .. Len(toCP'),
               toCP'[i].t \in {"data", "end"}, toCP'[i].id = q
        PROVE  head'[q] \/ \E j \in 1 .. i - 1 : IsHead(toCP'[j], q)
    <3>1. /\ i + 1 \in 1 .. Len(toCP) /\ toCP'[i] = toCP[i + 1]
          /\ (i + 1) - 1 = i
      BY <1>s DEF Shift
    <3>2. head[q] \/ \E j \in 1 .. i : IsHead(toCP[j], q)
      BY <2>1, <2>4, <3>1
    <3>3. \A j \in 1 .. i : \/ j = 1
                            \/ /\ j - 1 \in 1 .. i - 1
                               /\ toCP'[j - 1] = toCP[j]
      <4>1. \A j \in 1 .. i : \/ j = 1
                              \/ /\ j - 1 \in 1 .. Len(toCP') /\ (j - 1) + 1 = j
                                 /\ j - 1 \in 1 .. i - 1
        BY <1>s
      <4> QED BY <1>s, <4>1 DEF Shift
    <3> QED BY <2>2, <3>2, <3>3
  <2>5. reader' = "send" /\ hand'.id = q => head'[q]
    <3>1. 1 \in 1 .. Len(toCP) /\ \A j \in 1 .. 1 - 1 : FALSE
      BY <1>s
    <3> QED BY <2>1, <2>2, <3>1
  <2> QED BY <2>1, <2>3, <2>4, <2>5 DEF WaitOK
<1>3. ASSUME Running', NEW q \in Req PROVE WaitOK(q)'
  BY <1>2, <1>3 DEF WaitOK, Early
<1>4. \A q \in Req : do'[q] = "refused" => closed'
  BY DEF WaitInv
<1> QED BY <1>3, <1>4 DEF WaitInv, Running

\* Init establishes WaitInv.
LEMMA WaitInit == Init => WaitInv
BY DEF Init, WaitInv, WaitOK

\* Every action preserves WaitInv.
LEMMA WaitStep ==
  TypeInv /\ ConnInv /\ ReqInv /\ TruthInv /\ WaitInv /\ [Next]_vars => WaitInv'
<1> SUFFICES ASSUME TypeInv, ConnInv, ReqInv, TruthInv, WaitInv, [Next]_vars
             PROVE  WaitInv'
  OBVIOUS
<1> USE DEF linkVars, connVars, readVars, callVars, chanVars, pumpVars, nodeVars
<1>l. LinkType /\ Len(toCP) \in Nat
  BY DEF TypeInv, TypeOK, LinkType
<1>d. /\ do \in [Req -> DoStates] /\ node \in [Req -> NodeStates]
      /\ head \in [Req -> BOOLEAN] /\ reader \in ReaderStates
  BY DEF TypeInv, TypeOK, CallType, NodeType, ReadType
\* What WaitInv says of slots, and where shutdown has got to.
<1>p. /\ Running => \A q \in Req : Early(q) /\ do[q] # "idle" => q \in pending
      /\ closed <=> reader \in {"closing", "stopped", "returned"}
  BY DEF WaitInv, WaitOK, Early, Running, ConnInv, LifeInv
<1>0. ASSUME UNCHANGED <<toCP, do, pending, closed, head, reader, hand, node>>
      PROVE  WaitInv'
  BY <1>0 DEF WaitInv, WaitOK
\* Steps of one caller or pump.
<1>k. ASSUME UNCHANGED <<toCP, closed, reader, hand, node>>, NEW r \in Req,
             \A q \in Req \ {r} : /\ q \in pending => q \in pending'
                                  /\ do'[q] = do[q]
                                  /\ head[q] => head'[q],
             do'[r] = "refused" => closed,
             Early(r)' => /\ Early(r) /\ (do'[r] # "idle" => ~Running \/ r \in pending')
                          /\ head[r] => head'[r]
      PROVE  WaitInv'
  <2>1. Shift(0)
    BY <1>k, <1>l, Shifts
  <2>0. \A q \in Req : q # r =>
          /\ q \in pending => q \in pending'
          /\ head[q] => head'[q]
          /\ do'[q] = do[q]
    BY <1>k
  <2>2. \A q \in Req : do'[q] = "refused" => do[q] = "refused" \/ closed'
    BY <1>k, <2>0
  <2>3. ASSUME Running', NEW q \in Req, Early(q)'
        PROVE  /\ Early(q) /\ (do'[q] # "idle" => q \in pending')
               /\ head[q] => head'[q]
    <3>1. CASE q = r
      BY <1>k, <2>3, <3>1 DEF Running
    <3>2. CASE q # r
      <4>1. Running /\ Early(q)
        BY <1>k, <2>0, <2>3, <3>2 DEF Running, Early
      <4> QED BY <1>p, <2>0, <3>2, <4>1
    <3> QED BY <3>1, <3>2
  <2> QED BY <1>k, <2>1, <2>2, <2>3, WaitKept DEF Running
\* Steps of the read loop that leave the frames alone.
<1>r. ASSUME UNCHANGED <<toCP, do, pending, head, node>>,
             closed => closed', reader' # "send", Running' => Running
      PROVE  WaitInv'
  <2>1. Shift(0)
    BY <1>r, <1>l, Shifts
  <2> QED BY <1>r, <1>p, <2>1, WaitKept DEF Early
\* The socket is lost.
<1>g. ASSUME NodeSeesClose, UNCHANGED <<do, pending, closed, head, hand>>,
             Shift(0), Running' => Running /\ UNCHANGED reader
      PROVE  WaitInv'
  <2>1. \A q \in Req : node'[q] # "streaming"
    BY <1>g DEF NodeSeesClose
  <2> QED BY <1>g, <1>p, <2>1, WaitKept DEF Early

<1>1. ASSUME NEW r \in Req, DoRegister(r) PROVE WaitInv'
  <2>1. /\ UNCHANGED <<toCP, closed, reader, hand, node, head>> /\ do[r] = "idle"
        /\ \/ closed /\ do' = [do EXCEPT ![r] = "refused"] /\ UNCHANGED pending
           \/ do' = [do EXCEPT ![r] = "write"] /\ pending' = pending \cup {r}
    BY <1>1 DEF DoRegister, Refused
  <2>2. /\ \A q \in Req \ {r} : (q \in pending => q \in pending') /\ do'[q] = do[q]
        /\ do'[r] = "refused" => closed
        /\ Early(r)' => Early(r) /\ r \in pending'
    BY <1>d, <2>1 DEF Early
  <2> QED BY <1>k, <2>1, <2>2
<1>2. ASSUME NEW r \in Req, CtxDone(r) PROVE WaitInv'
  BY <1>0, <1>2 DEF CtxDone
<1>3. ASSUME NEW r \in Req, BodyClose(r) PROVE WaitInv'
  BY <1>0, <1>3 DEF BodyClose
<1>4. ASSUME NEW r \in Req, PumpRecv(r) PROVE WaitInv'
  BY <1>0, <1>4 DEF PumpRecv
<1>5. ASSUME NEW r \in Req, PumpWrite(r) PROVE WaitInv'
  BY <1>0, <1>5 DEF PumpWrite
<1>6. ASSUME NEW r \in Req, DoWrite(r) PROVE WaitInv'
  <2>0. /\ UNCHANGED <<toCP, closed, reader, hand, node, head>>
        /\ do[r] = "write"
    BY <1>6 DEF DoWrite
  <2>1. \/ do' = [do EXCEPT ![r] = "select"] /\ UNCHANGED pending
        \/ do' = [do EXCEPT ![r] = "writeError"] /\ pending' = pending \ {r}
    BY <1>6 DEF DoWrite, Settle
  <2>2. /\ \A q \in Req \ {r} : (q \in pending => q \in pending') /\ do'[q] = do[q]
        /\ do'[r] # "refused"
        /\ Early(r)' => Early(r) /\ UNCHANGED pending
    BY <1>d, <2>0, <2>1 DEF Early
  <2>3. Early(r)' => ~Running \/ r \in pending'
    BY <1>p, <2>0, <2>2
  <2> QED BY <1>k, <2>0, <2>2, <2>3
<1>7. ASSUME NEW r \in Req, DoCancelled(r) PROVE WaitInv'
  <2>1. /\ UNCHANGED <<toCP, closed, reader, hand, node>>
        /\ do' = [do EXCEPT ![r] = "cancelled"]
        /\ pending \ {r} \subseteq pending'
        /\ head' = head \/ head' = [head EXCEPT ![r] = FALSE]
    BY <1>7 DEF DoCancelled, Settle
  <2>2. /\ \A q \in Req \ {r} : /\ q \in pending => q \in pending'
                                /\ do'[q] = do[q]
                                /\ head[q] => head'[q]
        /\ do'[r] # "refused" /\ ~Early(r)'
    BY <1>d, <2>1 DEF Early
  <2> QED BY <1>k, <2>1, <2>2
<1>8. ASSUME NEW r \in Req, DoDisconnected(r) PROVE WaitInv'
  <2>1. /\ UNCHANGED <<toCP, closed, reader, hand, node>>
        /\ do' = [do EXCEPT ![r] = "disconnected"]
        /\ pending \ {r} \subseteq pending'
        /\ head' = head \/ head' = [head EXCEPT ![r] = FALSE]
    BY <1>8 DEF DoDisconnected, Settle
  <2>2. /\ \A q \in Req \ {r} : /\ q \in pending => q \in pending'
                                /\ do'[q] = do[q]
                                /\ head[q] => head'[q]
        /\ do'[r] # "refused" /\ ~Early(r)'
    BY <1>d, <2>1 DEF Early
  <2> QED BY <1>k, <2>1, <2>2
<1>9. ASSUME NEW r \in Req, DoFailed(r) PROVE WaitInv'
  <2>1. /\ UNCHANGED <<toCP, closed, reader, hand, node>>
        /\ do' = [do EXCEPT ![r] = "failed"]
        /\ pending \ {r} \subseteq pending'
        /\ head' = head \/ head' = [head EXCEPT ![r] = FALSE]
    BY <1>9 DEF DoFailed, Settle
  <2>2. /\ \A q \in Req \ {r} : /\ q \in pending => q \in pending'
                                /\ do'[q] = do[q]
                                /\ head[q] => head'[q]
        /\ do'[r] # "refused" /\ ~Early(r)'
    BY <1>d, <2>1 DEF Early
  <2> QED BY <1>k, <2>1, <2>2
<1>10. ASSUME NEW r \in Req, DoHead(r) PROVE WaitInv'
  <2>1. /\ UNCHANGED <<toCP, closed, reader, hand, node>>
        /\ do' = [do EXCEPT ![r] = "head"]
        /\ pending \ {r} \subseteq pending'
        /\ head' = head \/ head' = [head EXCEPT ![r] = FALSE]
    BY <1>10 DEF DoHead, Settle
  <2>2. /\ \A q \in Req \ {r} : /\ q \in pending => q \in pending'
                                /\ do'[q] = do[q]
                                /\ head[q] => head'[q]
        /\ do'[r] # "refused" /\ ~Early(r)'
    BY <1>d, <2>1 DEF Early
  <2> QED BY <1>k, <2>1, <2>2
<1>11. ASSUME NEW r \in Req, PumpEnd(r) PROVE WaitInv'
  <2>1. /\ UNCHANGED <<toCP, closed, reader, hand, node, head, do>>
        /\ pending' = pending \ {r} /\ pump[r] # "none"
    BY <1>11 DEF PumpEnd, Settle
  <2>2. do[r] = "head"
    BY <2>1 DEF ConnInv, BodyInv
  <2>3. /\ \A q \in Req \ {r} : q \in pending => q \in pending'
        /\ do'[r] # "refused" /\ ~Early(r)'
    BY <2>1, <2>2 DEF Early
  <2> QED BY <1>k, <2>1, <2>3
<1>12. ASSUME NEW r \in Req, PumpClosed(r) PROVE WaitInv'
  <2>1. /\ UNCHANGED <<toCP, closed, reader, hand, node, head, do>>
        /\ pending' = pending \ {r} /\ pump[r] # "none"
    BY <1>12 DEF PumpClosed, Settle
  <2>2. do[r] = "head"
    BY <2>1 DEF ConnInv, BodyInv
  <2>3. /\ \A q \in Req \ {r} : q \in pending => q \in pending'
        /\ do'[r] # "refused" /\ ~Early(r)'
    BY <2>1, <2>2 DEF Early
  <2> QED BY <1>k, <2>1, <2>3
<1>13. ASSUME NEW r \in Req, PumpWriteError(r) PROVE WaitInv'
  <2>1. /\ UNCHANGED <<toCP, closed, reader, hand, node, head, do>>
        /\ pending' = pending \ {r} /\ pump[r] # "none"
    BY <1>13 DEF PumpWriteError, Settle
  <2>2. do[r] = "head"
    BY <2>1 DEF ConnInv, BodyInv
  <2>3. /\ \A q \in Req \ {r} : q \in pending => q \in pending'
        /\ do'[r] # "refused" /\ ~Early(r)'
    BY <2>1, <2>2 DEF Early
  <2> QED BY <1>k, <2>1, <2>3
<1>14. ASSUME NEW r \in Req, NodeHead(r) PROVE WaitInv'
  <2> DEFINE f == [t |-> "head", id |-> r]
  <2>1. /\ NodeSend(f) /\ UNCHANGED <<do, pending, closed, head, reader, hand>>
        /\ node' = [node EXCEPT ![r] = "streaming"]
        /\ f \in ToCPFrame /\ f.t = "head" /\ f.id = r
    BY <1>14, FrameTypes DEF NodeHead
  <2> HIDE DEF f
  <2>2. \A q \in Req : node'[q] = "streaming" => node[q] = "streaming" \/ IsHead(f, q)
    BY <1>d, <2>1 DEF IsHead
  <2> QED BY <1>l, <2>1, <2>2, WaitSent
<1>15. ASSUME NEW r \in Req, NodeData(r) PROVE WaitInv'
  <2> DEFINE f == [t |-> "data", id |-> r, seq |-> produced[r]]
  <2>1. /\ NodeSend(f) /\ node[r] = "streaming" /\ f.id = r
        /\ UNCHANGED <<do, pending, closed, head, reader, hand, node>>
    BY <1>15 DEF NodeData
  <2>2. f \in ToCPFrame
    BY FrameTypes DEF TypeInv, TypeOK, NodeType
  <2> HIDE DEF f
  <2> QED BY <1>l, <2>1, <2>2, WaitSent
<1>16. ASSUME NEW r \in Req, NodeMisSequences(r) PROVE WaitInv'
  <2> DEFINE f == [t |-> "data", id |-> r, seq |-> produced[r] - 1]
  <2>1. /\ UNCHANGED <<do, pending, closed, head, reader, hand, node>>
        /\ node[r] = "streaming"
    BY <1>16 DEF NodeMisSequences
  <2>2. UNCHANGED toCP \/ (produced[r] > 0 /\ NodeSend(f))
    BY <1>16 DEF NodeMisSequences
  <2>3. produced[r] > 0 => produced[r] - 1 \in 0 .. MaxChunks
    BY BoundsAssumption DEF TypeInv, TypeOK, NodeType
  <2>4. f.id = r /\ (produced[r] > 0 => f \in ToCPFrame)
    BY <2>3, FrameTypes
  <2> HIDE DEF f
  <2> QED BY <1>0, <1>l, <2>1, <2>2, <2>4, WaitSent
<1>17. ASSUME NEW r \in Req, NodeEnd(r) PROVE WaitInv'
  <2> DEFINE f == [t |-> "end", id |-> r, chunks |-> produced[r]]
  <2>1. /\ NodeSend(f) /\ node[r] = "streaming" /\ f.id = r
        /\ UNCHANGED <<do, pending, closed, head, reader, hand>>
        /\ node' = [node EXCEPT ![r] = "ended"]
    BY <1>17 DEF NodeEnd
  <2>2. f \in ToCPFrame
    BY FrameTypes DEF TypeInv, TypeOK, NodeType
  <2>3. \A q \in Req : node'[q] = "streaming" => node[q] = "streaming"
    BY <1>d, <2>1
  <2> HIDE DEF f
  <2> QED BY <1>l, <2>1, <2>2, <2>3, WaitSent
<1>18. ASSUME NEW r \in Req, NodeErr(r) PROVE WaitInv'
  <2> DEFINE f == [t |-> "err", id |-> r]
  <2>1. /\ NodeSend(f) /\ f.t = "err" /\ f \in ToCPFrame
        /\ UNCHANGED <<do, pending, closed, head, reader, hand>>
        /\ node' = [node EXCEPT ![r] = "failed"]
    BY <1>18, FrameTypes DEF NodeErr
  <2>2. \A q \in Req : node'[q] = "streaming" => node[q] = "streaming"
    BY <1>d, <2>1
  <2> HIDE DEF f
  <2> QED BY <1>l, <2>1, <2>2, WaitSent
<1>19. ASSUME NEW r \in Req, ShutdownClose(r) PROVE WaitInv'
  BY <1>0, <1>19 DEF ShutdownClose
<1>20. CASE DispatchHead
  <2> DEFINE p == Head(toCP).id
  <2>1. /\ toCP # <<>> /\ toCP' = Tail(toCP) /\ Head(toCP).t = "head"
        /\ reader = "read"
        /\ UNCHANGED <<do, pending, closed, node, reader, hand>>
        /\ head' = [head EXCEPT ![p] = @ \/ p \in pending]
    BY <1>20 DEF DispatchHead, Incoming
  <2>2. Head(toCP) = toCP[1] /\ Len(toCP) \in Nat \ {0} /\ p \in Req
    BY <1>l, <2>1, Shifts
  <2>3. Begun(node[p])
    <3>1. 1 \in 1 .. Len(toCP)
      BY <2>2
    <3> QED BY <2>1, <2>2, <3>1 DEF TruthInv
  <2> HIDE DEF p
  <2>4. Early(p) => p \in pending
    <3>1. do[p] # "idle"
      BY <2>2, <2>3 DEF ReqInv, Begun
    <3> QED BY <1>p, <2>1, <2>2, <3>1 DEF Running
  <2>5. /\ \A q \in Req : head[q] => head'[q]
        /\ p \in pending => head'[p]
    BY <1>d, <2>1, <2>2
  <2>6. \A q \in Req : Early(q) => (IsHead(Head(toCP), q) => head'[q])
    BY <2>4, <2>5 DEF IsHead, p
  <2>7. Running /\ reader' # "send"
    BY <2>1 DEF Running
  <2> QED BY <1>l, <2>1, <2>5, <2>6, <2>7, WaitTaken
<1>21. CASE DispatchData
  <2>1. /\ toCP # <<>> /\ toCP' = Tail(toCP) /\ Head(toCP).t = "data"
        /\ UNCHANGED <<do, pending, closed, node, head>> /\ reader = "read"
    BY <1>21 DEF DispatchData, Incoming
  <2>2. \/ reader' = "read"
        \/ reader' = "send" /\ hand' = [id |-> Head(toCP).id, item |-> Head(toCP).seq]
        \/ reader' = "shutdown"
    BY <1>21, <2>1 DEF DispatchData
  <2>3. Running /\ \A q \in Req : /\ ~IsHead(Head(toCP), q)
                                  /\ reader' = "send" /\ hand'.id = q => Head(toCP).id = q
    BY <2>1, <2>2 DEF Running, IsHead
  <2> QED BY <1>l, <2>1, <2>3, WaitTaken
<1>22. CASE DispatchEnd
  <2>1. /\ toCP # <<>> /\ toCP' = Tail(toCP) /\ Head(toCP).t = "end"
        /\ UNCHANGED <<do, pending, closed, node, head>> /\ reader = "read"
    BY <1>22 DEF DispatchEnd, Incoming
  <2>2. \/ reader' = "read"
        \/ reader' = "send" /\ hand' = [id |-> Head(toCP).id, item |-> Nil]
        \/ reader' = "shutdown"
    BY <1>22, <2>1 DEF DispatchEnd
  <2>3. Running /\ \A q \in Req : /\ ~IsHead(Head(toCP), q)
                                  /\ reader' = "send" /\ hand'.id = q => Head(toCP).id = q
    BY <2>1, <2>2 DEF Running, IsHead
  <2> QED BY <1>l, <2>1, <2>3, WaitTaken
<1>23. CASE DispatchErr
  <2>1. /\ toCP # <<>> /\ toCP' = Tail(toCP) /\ Head(toCP).t = "err"
        /\ UNCHANGED <<do, pending, closed, node, head, reader>> /\ reader = "read"
    BY <1>23 DEF DispatchErr, Incoming
  <2>2. Running /\ reader' # "send" /\ \A q \in Req : ~IsHead(Head(toCP), q)
    BY <2>1 DEF Running, IsHead
  <2> QED BY <1>l, <2>1, <2>2, WaitTaken
<1>24. CASE SendChunk
  BY <1>r, <1>24 DEF SendChunk, Running
<1>25. CASE SendPanics
  BY <1>r, <1>25 DEF SendPanics, Running
<1>26. CASE ReadError
  BY <1>r, <1>26 DEF ReadError, Running
<1>27. CASE ShutdownDrain
  <2>1. reader' = "closing" /\ closed'
    BY <1>27 DEF ShutdownDrain
  <2> QED BY <2>1 DEF WaitInv
<1>28. CASE ShutdownDone
  BY <1>r, <1>28 DEF ShutdownDone, Running
<1>29. CASE HandlerReturns
  <2>1. reader = "stopped" /\ reader' = "returned" /\ UNCHANGED <<do, closed>>
    BY <1>29 DEF HandlerReturns
  <2> QED BY <2>1 DEF WaitInv
<1>30. CASE LinkDrops
  <2>1. Shift(0)
    BY <1>l, <1>30, Shifts DEF LinkDrops
  <2> QED BY <1>g, <1>30, <2>1 DEF LinkDrops, Running
<1>31. CASE HeartbeatLost
  <2>1. Shift(0)
    BY <1>l, <1>31, Shifts DEF HeartbeatLost
  <2> QED BY <1>g, <1>31, <2>1 DEF HeartbeatLost, Running
<1>32. CASE NodeReq
  <2>1. /\ UNCHANGED <<toCP, do, pending, closed, head, reader, hand>>
        /\ node' = [node EXCEPT ![Head(toNode).id] = "serving"]
    BY <1>32 DEF NodeReq
  <2>2. \A q \in Req : node'[q] = "streaming" => node[q] = "streaming"
    BY <1>d, <2>1
  <2>3. Shift(0)
    BY <1>l, <2>1, Shifts
  <2> QED BY <1>p, <2>1, <2>2, <2>3, WaitKept DEF Running, Early
<1>33. CASE NodeCancel
  BY <1>0, <1>33 DEF NodeCancel
<1>34. CASE UNCHANGED vars
  BY <1>0, <1>34 DEF vars
<1> QED BY <1>1, <1>2, <1>3, <1>4, <1>5, <1>6, <1>7, <1>8, <1>9, <1>10, <1>11,
     <1>12, <1>13, <1>14, <1>15, <1>16, <1>17, <1>18, <1>19, <1>20, <1>21,
     <1>22, <1>23, <1>24, <1>25, <1>26, <1>27, <1>28, <1>29, <1>30, <1>31,
     <1>32, <1>33, <1>34 DEF Next, Browser, Caller, Pump, NodeServes, Reader

\* The read loop never waits for a head slot, and for room in a channel only
\* while a goroutine of that request will make it: its caller, about to take the
\* head, or its pump.  The one exception is a caller whose context ended first.
THEOREM OnlyAWedgeBlocksHolds == Spec => []OnlyAWedgeBlocks
<1>1. ASSUME TypeInv, ConnInv, HeadInv, Incoming("head")
      PROVE  ~head[Head(toCP).id]
  <2>1. toCP \in Seq(ToCPFrame) /\ toCP # <<>> /\ Head(toCP).t = "head"
    BY <1>1 DEF Incoming, TypeInv, TypeOK, LinkType
  <2>2. /\ Head(toCP) = toCP[1] /\ 1 \in 1 .. Len(toCP)
        /\ Head(toCP).id \in Req
    BY <2>1, TailFacts, FrameTypes
  <2> QED BY <1>1, <2>1, <2>2 DEF HeadInv, IsHead
<1>2. ASSUME TypeInv, ConnInv, ReqInv, TruthInv, WaitInv, ReaderStuck
      PROVE  \/ do[hand.id] = "cancelled"
             \/ do[hand.id] = "select" /\ head[hand.id]
             \/ pump[hand.id] \in {"recv", "write"}
  <2> DEFINE r == hand.id
  <2>1. /\ reader = "send" /\ ~chunksClosed[r] /\ r \in Req /\ live = {}
        /\ ~closed /\ do \in [Req -> DoStates]
    BY <1>2 DEF ReaderStuck, TypeInv, TypeOK, CallType, ConnInv, LifeInv
  <2> HIDE DEF r
  <2>2. Early(r) => head[r]
    BY <1>2, <2>1 DEF WaitInv, WaitOK, Early, r
  <2>3. do[r] \notin {"idle", "write"}
    BY <1>2, <2>1, <2>2 DEF Early, TruthInv, ReqInv, Begun
  <2>4. do[r] # "refused"
    BY <1>2, <2>1 DEF WaitInv
  <2>5. r \in pending
    BY <1>2, <2>1, <2>3, <2>4 DEF ConnInv, ReleaseInv
  <2>6. do[r] \in {"write", "select", "cancelled"} \/ pump[r] \in {"recv", "write"}
    BY <1>2, <2>5 DEF ConnInv, SlotOwned
  <2> QED BY <2>2, <2>3, <2>6 DEF Early, r
<1>3. TypeInv /\ ConnInv /\ ReqInv /\ TruthInv /\ HeadInv /\ WaitInv
      => OnlyAWedgeBlocks
  BY <1>1, <1>2 DEF OnlyAWedgeBlocks
<1> QED BY <1>3, TypeInit, TypeStep, ConnInit, ConnStep, ReqInit, ReqStep,
           TruthInit, TruthStep, HeadInit, HeadStep, WaitInit, WaitStep, PTL
        DEF Spec
-----------------------------------------------------------------------------
(* The read loop comes to its end.                                         *)

\* What the read loop still has to do before shutdown: two steps for each frame
\* in flight, and those of where it is.
Stage(s) == CASE s = "send" -> 2 [] s = "read" -> 1 [] OTHER -> 0
Backlog == 2 * Len(toCP) + Stage(reader)

\* Once the socket is lost no step adds to the backlog, and each of the read
\* loop takes from it until it is in shutdown.
LEMMA BacklogFalls ==
  ASSUME TypeInv, TellInv, [Next]_vars, link = "down"
  PROVE  Backlog' <= Backlog /\ (Running /\ Reader => Backlog' < Backlog)
<1> USE DEF linkVars, connVars, readVars, callVars, chanVars, pumpVars, nodeVars
<1> DEFINE n == Len(toCP)
<1>1. /\ toCP \in Seq(ToCPFrame) /\ n \in Nat
      /\ toCP # <<>> => Len(Tail(toCP)) = n - 1 /\ n > 0
      /\ reader \in ReaderStates /\ Len(<<>>) = 0
  BY TailFacts DEF TypeInv, TypeOK, LinkType, ReadType
<1>2. /\ Backlog = 2 * n + Stage(reader)
      /\ Backlog' = 2 * n' + Stage(reader')
  BY DEF Backlog
<1>3. /\ Stage("send") = 2 /\ Stage("read") = 1
      /\ \A s \in {"shutdown", "closing", "stopped", "returned"} : Stage(s) = 0
  BY DEF Stage
<1>4. \A r \in Req : node[r] \notin {"serving", "streaming"}
  BY DEF TellInv, Working
<1>a. toCP' = toCP => n' = n
  OBVIOUS
<1>b. toCP' = <<>> => n' = 0
  BY <1>1
<1>c. toCP # <<>> /\ toCP' = Tail(toCP) => n' = n - 1
  BY <1>1
<1> HIDE DEF n
<1>5. CASE DispatchHead \/ DispatchData \/ DispatchEnd \/ DispatchErr
  <2>1. /\ reader = "read" /\ toCP # <<>> /\ toCP' = Tail(toCP)
        /\ reader' \in {"read", "send", "shutdown"}
    BY <1>5 DEF DispatchHead, DispatchData, DispatchEnd, DispatchErr, Incoming
  <2> QED BY <1>1, <1>2, <1>3, <1>c, <2>1
<1>6. CASE SendChunk \/ SendPanics \/ ReadError
  <2>1. /\ toCP' = toCP /\ \/ reader = "send" /\ reader' \in {"read", "shutdown"}
                           \/ reader = "read" /\ reader' = "shutdown"
    BY <1>6 DEF SendChunk, SendPanics, ReadError
  <2> QED BY <1>1, <1>2, <1>3, <1>a, <2>1
<1>7. CASE (\E r \in Req : ShutdownClose(r)) \/ ShutdownDrain \/ ShutdownDone
             \/ HandlerReturns
  <2>1. /\ reader \in {"shutdown", "closing", "stopped"}
        /\ reader' \in {"closing", "stopped", "returned"}
        /\ toCP' = toCP \/ toCP' = <<>>
    BY <1>7 DEF ShutdownClose, ShutdownDrain, ShutdownDone, HandlerReturns
  <2>2. n' <= n
    BY <1>1, <1>a, <1>b, <2>1
  <2>3. n' \in Nat
    BY <1>1, <1>a, <1>b, <2>1
  <2> QED BY <1>1, <1>2, <1>3, <2>1, <2>2, <2>3 DEF Running
<1>8. ASSUME UNCHANGED <<toCP, reader>>, ~Reader
      PROVE  Backlog' <= Backlog /\ (Running /\ Reader => Backlog' < Backlog)
  <2>1. Stage(reader) \in Nat
    BY <1>1, <1>3 DEF ReaderStates
  <2> QED BY <1>1, <1>2, <1>8, <1>a, <2>1
<1>9. CASE UNCHANGED <<toCP, reader>>
  BY <1>5, <1>6, <1>7, <1>8, <1>9 DEF Reader
<1>10. ASSUME NEW r \in Req, NodeServes(r) PROVE FALSE
  BY <1>4, <1>10 DEF NodeServes, NodeHead, NodeData, NodeMisSequences, NodeEnd, NodeErr
<1>11. ASSUME NEW r \in Req, Browser(r) \/ Caller(r) \/ Pump(r)
       PROVE  UNCHANGED <<toCP, reader>>
  BY <1>11 DEF Browser, Caller, Pump, DoRegister, CtxDone, BodyClose, DoWrite,
       DoCancelled, DoDisconnected, DoFailed, DoHead, PumpRecv, PumpEnd,
       PumpClosed, PumpWrite, PumpWriteError
<1>12. ~LinkDrops /\ ~HeartbeatLost /\ ~NodeReq /\ ~NodeCancel
  BY DEF LinkDrops, HeartbeatLost, NodeReq, NodeCancel
<1> QED BY <1>5, <1>6, <1>7, <1>9, <1>10, <1>11, <1>12 DEF Next, Reader, vars

\* serve and dispatch after a lost socket: the read loop handles what had already
\* arrived and nothing more, in at most so many steps, and then it is in
\* shutdown.  With OnlyAWedgeBlocks, this is what HandlerEnds rests on.
THEOREM ReadLoopRunsDry ==
  Spec => /\ [](Backlog \in Nat)
          /\ [][link = "down" => /\ Backlog' <= Backlog
                                 /\ Running /\ Reader => Backlog' < Backlog]_vars
<1>1. ASSUME TypeInv PROVE Backlog \in Nat
  <2>1. Stage(reader) \in Nat /\ Len(toCP) \in Nat
    BY <1>1 DEF Stage, TypeInv, TypeOK, LinkType
  <2> QED BY <2>1 DEF Backlog
<1>2. TypeInv /\ TellInv /\ [Next]_vars =>
        [link = "down" => /\ Backlog' <= Backlog
                          /\ Running /\ Reader => Backlog' < Backlog]_vars
  BY BacklogFalls
<1> QED BY <1>1, <1>2, TypeInit, TypeStep, ConnInit, ConnStep, TellInit, TellStep,
           PTL DEF Spec
==============================================================================

---------------------------- MODULE GatewayProofs ----------------------------
(***************************************************************************)
(* TLAPS proofs about Audit and about Gateway above it: for any number of  *)
(* requests and decisions, any queue size and any level of the gate.       *)
(***************************************************************************)
EXTENDS Gateway, TLAPS

-----------------------------------------------------------------------------
(* The recorder.                                                           *)

\* The goroutine holds an entry exactly while it writes, and is past its main
\* loop only after the context ended.
DrainInv ==
  /\ hand # 0 <=> drain \in {"write", "flushWrite"}
  /\ drain \in {"flush", "flushWrite", "done"} => stopping
  /\ before <= made /\ hand <= made

\* Decisions stay in the order they were made on their way through the queue,
\* the goroutine's hand and the table, and a next one is greater than all.
OrderInv ==
  /\ RowsInOrder
  /\ \A i, j \in 1 .. Len(queue) : i < j => queue[i] < queue[j]
  /\ \A i \in 1 .. Len(rows) : rows[i] <= made /\ (hand # 0 => rows[i] < hand)
  /\ \A j \in 1 .. Len(queue) : queue[j] <= made /\ hand < queue[j]
  /\ \A i \in 1 .. Len(rows), j \in 1 .. Len(queue) : rows[i] < queue[j]

\* A decision is written, lost with a warning, or still on its way.
InRows(d) == \E i \in 1 .. Len(rows) : rows[i] = d
InQueue(d) == \E j \in 1 .. Len(queue) : queue[j] = d
KeptInv == \A d \in 1 .. made : d \in warned \/ d = hand \/ InRows(d) \/ InQueue(d)

RecorderInv == TypeOK /\ DrainInv /\ OrderInv /\ KeptInv /\ LossIsVisible

\* Init establishes it.
LEMMA RecorderInit == Init => RecorderInv
<1> SUFFICES ASSUME Init PROVE RecorderInv
  OBVIOUS
<1> USE AuditAssumption DEF Init
<1>0. <<>> \in Seq(Decision) /\ Len(<<>>) = 0
  OBVIOUS
<1>1. TypeOK
  <2>1. 0 \in 0 .. MaxDecisions /\ 0 \in 0 .. MaxFaults /\ 0 <= QueueSize
    OBVIOUS
  <2>2. queue \in Seq(Decision) /\ rows \in Seq(Decision) /\ Len(queue) = 0
    BY <1>0
  <2> QED BY <2>1, <2>2 DEF TypeOK
<1>2. DrainInv
  BY DEF DrainInv
<1>3. OrderInv
  BY <1>0 DEF OrderInv, RowsInOrder
<1>4. KeptInv
  BY DEF KeptInv
<1>5. LossIsVisible
  BY DEF LossIsVisible
<1> QED BY <1>1, <1>2, <1>3, <1>4, <1>5 DEF RecorderInv

\* The first entry leaves the queue: the rest keeps its order, and what was
\* queued is now in hand or still queued.
LEMMA TakeFirst ==
  ASSUME TypeOK, DrainInv, OrderInv, queue # <<>>
  PROVE /\ Head(queue) = queue[1] /\ Head(queue) \in Decision
        /\ Head(queue) <= made
        /\ Tail(queue) \in Seq(Decision) /\ Len(Tail(queue)) = Len(queue) - 1
        /\ \A j \in 1 .. Len(Tail(queue)) : Tail(queue)[j] = queue[j + 1]
        /\ \A j \in 1 .. Len(queue) :
             j = 1 \/ (j - 1 \in 1 .. Len(Tail(queue)) /\ Tail(queue)[j - 1] = queue[j])
<1>1. queue \in Seq(Decision) /\ Len(queue) \in Nat \ {0}
  BY DEF TypeOK
<1>2. /\ Tail(queue) \in Seq(Decision) /\ Len(Tail(queue)) = Len(queue) - 1
      /\ \A j \in 1 .. Len(Tail(queue)) : Tail(queue)[j] = queue[j + 1]
  BY <1>1
<1>3. Head(queue) = queue[1] /\ 1 \in 1 .. Len(queue) /\ queue[1] \in Decision
  BY <1>1
<1>4. Head(queue) <= made
  BY <1>3 DEF OrderInv
<1>5. ASSUME NEW j \in 1 .. Len(queue), j # 1
      PROVE j - 1 \in 1 .. Len(Tail(queue)) /\ Tail(queue)[j - 1] = queue[j]
  <2>1. j - 1 \in 1 .. Len(Tail(queue)) /\ (j - 1) + 1 = j
    BY <1>1, <1>2, <1>5
  <2> QED BY <1>2, <2>1
<1> QED BY <1>2, <1>3, <1>4, <1>5

\* Take and FlushTake: the first of the queue becomes the entry in hand.
LEMMA TakeKeeps ==
  ASSUME RecorderInv, queue # <<>>, drain \in {"select", "flush"},
         hand' = Head(queue), queue' = Tail(queue),
         drain' = IF drain = "select" THEN "write" ELSE "flushWrite",
         UNCHANGED <<made, stopping, before, rows, warned, faults>>
  PROVE RecorderInv'
<1> USE DEF RecorderInv
<1>0. hand = 0
  BY DEF DrainInv
<1>1. TypeOK'
  <2>1. Head(queue) \in 0 .. MaxDecisions
    BY TakeFirst, AuditAssumption DEF Decision
  <2>2. Len(Tail(queue)) <= QueueSize
    BY TakeFirst, AuditAssumption DEF TypeOK
  <2> QED BY <2>1, <2>2, TakeFirst DEF TypeOK
<1>2. DrainInv'
  BY TakeFirst DEF DrainInv, TypeOK, Decision
<1>3. OrderInv'
  BY SMTT(30), TakeFirst DEF OrderInv, RowsInOrder, TypeOK, Decision
<1>4. KeptInv'
  <2> SUFFICES ASSUME NEW d \in 1 .. made, d \notin warned, ~InRows(d), d # hand'
               PROVE InQueue(d)'
    BY DEF KeptInv, InRows
  <2>1. PICK j \in 1 .. Len(queue) : queue[j] = d
    BY <1>0 DEF KeptInv, InQueue
  <2>2. j # 1
    BY <2>1, TakeFirst
  <2> QED BY <2>1, <2>2, TakeFirst DEF InQueue
<1>5. LossIsVisible'
  BY DEF LossIsVisible
<1> QED BY <1>1, <1>2, <1>3, <1>4, <1>5

\* What Append makes of a sequence.
LEMMA AppendFacts ==
  ASSUME NEW S, NEW s \in Seq(S), NEW e \in S
  PROVE /\ Append(s, e) \in Seq(S) /\ Len(Append(s, e)) = Len(s) + 1
        /\ \A i \in 1 .. Len(s) : Append(s, e)[i] = s[i]
        /\ Append(s, e)[Len(s) + 1] = e
OBVIOUS

\* Decisions are numbers, and so are lengths.
LEMMA Numbers ==
  ASSUME TypeOK
  PROVE /\ made \in Nat /\ before \in Nat /\ hand \in Nat
        /\ hand # 0 => hand \in Decision
        /\ Len(queue) \in Nat /\ Len(rows) \in Nat
        /\ \A j \in 1 .. Len(queue) : queue[j] \in Nat \ {0}
        /\ \A i \in 1 .. Len(rows) : rows[i] \in Nat \ {0}
<1>1. /\ \A j \in 1 .. Len(queue) : queue[j] \in Decision
      /\ \A i \in 1 .. Len(rows) : rows[i] \in Decision
      /\ Len(queue) \in Nat /\ Len(rows) \in Nat
  BY DEF TypeOK
<1>2. \A d \in Decision : d \in Nat \ {0}
  BY AuditAssumption DEF Decision
<1>3. /\ made \in Nat /\ before \in Nat /\ hand \in Nat
      /\ hand # 0 => hand \in Decision
  BY AuditAssumption DEF TypeOK, Decision
<1> QED BY <1>1, <1>2, <1>3

\* RecordDecision: the new decision joins the queue behind all others, or is
\* lost with a warning.
LEMMA RecordKeeps ==
  ASSUME RecorderInv, RecordDecision
  PROVE RecorderInv'
<1> USE DEF RecorderInv
<1>0. /\ made + 1 \in Decision /\ made + 1 \in 0 .. MaxDecisions
      /\ made' = made + 1
  BY AuditAssumption DEF TypeOK, Decision, RecordDecision
<1>1. CASE /\ Len(queue) < QueueSize /\ queue' = Append(queue, made + 1)
           /\ UNCHANGED warned
  <2>0. /\ queue' \in Seq(Decision) /\ Len(queue') = Len(queue) + 1
        /\ \A j \in 1 .. Len(queue) : queue'[j] = queue[j]
        /\ queue'[Len(queue) + 1] = made + 1
    BY <1>0, <1>1, AppendFacts DEF TypeOK
  <2>1. TypeOK'
    BY <1>0, <1>1, <2>0, AuditAssumption, Numbers DEF TypeOK, RecordDecision
  <2>2. DrainInv'
    BY DEF DrainInv, RecordDecision, TypeOK
  <2>3. OrderInv'
    <3> USE <2>0, Numbers DEF OrderInv, DrainInv, RecordDecision
    <3>1. \A j \in 1 .. Len(queue') :
            j = Len(queue) + 1 \/ j \in 1 .. Len(queue)
      OBVIOUS
    <3>2. RowsInOrder'
      BY DEF RowsInOrder
    <3>3. \A i, j \in 1 .. Len(queue') : i < j => queue'[i] < queue'[j]
      BY SMTT(30), <1>0, <3>1
    <3>4. \A i \in 1 .. Len(rows) : rows[i] <= made' /\ (hand # 0 => rows[i] < hand)
      BY <1>0
    <3>5. \A j \in 1 .. Len(queue') : queue'[j] <= made' /\ hand < queue'[j]
      BY SMTT(30), <1>0, <3>1
    <3>6. \A i \in 1 .. Len(rows), j \in 1 .. Len(queue') : rows[i] < queue'[j]
      BY <1>0, <3>1
    <3> QED BY <3>2, <3>3, <3>4, <3>5, <3>6
  <2>4. KeptInv'
    <3> SUFFICES ASSUME NEW d \in 1 .. made', d \notin warned, d # hand,
                        ~InRows(d)
                 PROVE InQueue(d)'
      BY <1>1 DEF KeptInv, InRows, RecordDecision
    <3>1. d = made + 1 \/ InQueue(d)
      BY <1>0, Numbers DEF KeptInv
    <3>2. 1 .. Len(queue) \subseteq 1 .. Len(queue')
          /\ Len(queue) + 1 \in 1 .. Len(queue')
      BY <2>0, Numbers
    <3> QED BY <2>0, <3>1, <3>2 DEF InQueue
  <2> QED BY <2>1, <2>2, <2>3, <2>4 DEF LossIsVisible, RecordDecision
<1>2. CASE ~(Len(queue) < QueueSize) /\ warned' = warned \cup {made + 1}
           /\ UNCHANGED queue
  <2>1. TypeOK'
    BY <1>0, <1>2, AuditAssumption DEF TypeOK, RecordDecision
  <2>2. DrainInv'
    BY DEF DrainInv, RecordDecision, TypeOK
  <2>3. OrderInv'
    BY <1>2, Numbers DEF OrderInv, DrainInv, RowsInOrder, RecordDecision
  <2>4. KeptInv'
    BY <1>2 DEF KeptInv, InRows, InQueue, RecordDecision, TypeOK
  <2> QED BY <1>2, <2>1, <2>2, <2>3, <2>4 DEF LossIsVisible, RecordDecision
<1> QED BY <1>1, <1>2 DEF RecordDecision

\* Written and WriteFails: the entry in hand gets a row, a warning or both.
LEMMA WriteKeeps ==
  ASSUME RecorderInv, drain \in {"write", "flushWrite"}, hand' = 0, Return,
         \/ rows' = Append(rows, hand) /\ warned' = warned
         \/ rows' \in {rows, Append(rows, hand)}
            /\ warned' = warned \cup {hand},
         faults' \in 0 .. MaxFaults, UNCHANGED <<made, queue, stopping, before>>
  PROVE RecorderInv'
<1> USE DEF RecorderInv
<1>0. /\ hand \in Decision /\ hand # 0 /\ drain' \in {"select", "flush"}
      /\ drain' = "flush" => drain = "flushWrite"
  BY Numbers DEF DrainInv, Return
<1>1. \/ rows' = rows
      \/ /\ rows' \in Seq(Decision) /\ Len(rows') = Len(rows) + 1
         /\ \A i \in 1 .. Len(rows) : rows'[i] = rows[i]
         /\ rows'[Len(rows) + 1] = hand
  <2>1. rows \in Seq(Decision) /\ (rows' = rows \/ rows' = Append(rows, hand))
    BY DEF TypeOK
  <2> QED BY <1>0, <2>1, AppendFacts
<1>2. TypeOK'
  <2>1. rows' \in Seq(Decision) /\ warned' \subseteq Decision
    BY <1>0, <1>1 DEF TypeOK
  <2>2. hand' \in 0 .. MaxDecisions
    BY AuditAssumption
  <2> QED BY <1>0, <2>1, <2>2 DEF TypeOK
<1>3. DrainInv'
  BY <1>0, Numbers DEF DrainInv
<1>4. OrderInv'
  <2> USE <1>0, Numbers DEF OrderInv, DrainInv
  <2>1. CASE rows' = rows
    BY <2>1 DEF RowsInOrder
  <2>2. CASE rows' # rows
    <3>1. \A i \in 1 .. Len(rows') :
            i = Len(rows) + 1 \/ i \in 1 .. Len(rows)
      BY <1>1, <2>2
    <3>2. RowsInOrder'
      BY SMTT(30), <1>1, <2>2, <3>1 DEF RowsInOrder
    <3>3. \A i \in 1 .. Len(rows') : rows'[i] <= made
      BY <1>1, <2>2, <3>1
    <3>4. \A i \in 1 .. Len(rows'), j \in 1 .. Len(queue) : rows'[i] < queue[j]
      BY <1>1, <2>2, <3>1
    <3>5. /\ \A i, j \in 1 .. Len(queue) : i < j => queue[i] < queue[j]
          /\ \A j \in 1 .. Len(queue) : queue[j] <= made /\ 0 < queue[j]
      OBVIOUS
    <3> QED BY <3>2, <3>3, <3>4, <3>5
  <2> QED BY <2>1, <2>2
<1>5. ASSUME NEW d, InRows(d) PROVE InRows(d)'
  BY <1>1, <1>5, Numbers DEF InRows
<1>6. hand \in warned' \/ \E i \in 1 .. Len(rows') : rows'[i] = hand
  <2>1. CASE hand \notin warned'
    <3>1. rows' = Append(rows, hand)
      BY <2>1
    <3>2. /\ Len(rows') = Len(rows) + 1 /\ rows'[Len(rows) + 1] = hand
          /\ Len(rows) + 1 \in 1 .. Len(rows) + 1
      BY <1>0, <3>1, AppendFacts, Numbers DEF TypeOK
    <3> QED BY <3>2
  <2> QED BY <2>1
<1>7. KeptInv'
  BY <1>5, <1>6 DEF KeptInv, InQueue, InRows
<1> QED BY <1>0, <1>2, <1>3, <1>4, <1>7 DEF LossIsVisible

\* Every action of the recorder preserves its invariant.
LEMMA RecorderStep == RecorderInv /\ [Next]_vars => RecorderInv'
<1> SUFFICES ASSUME RecorderInv, [Next]_vars PROVE RecorderInv'
  OBVIOUS
<1>1. CASE RecordDecision
  BY <1>1, RecordKeeps
<1>2. CASE Stop
  BY <1>2 DEF Stop, RecorderInv, TypeOK, DrainInv, OrderInv, RowsInOrder,
              KeptInv, InRows, InQueue, LossIsVisible
<1>3. CASE Take
  BY <1>3, TakeKeeps DEF Take
<1>4. CASE BeginFlush
  BY <1>4 DEF BeginFlush, RecorderInv, TypeOK, DrainInv, OrderInv, RowsInOrder,
              KeptInv, InRows, InQueue, LossIsVisible
<1>5. CASE FlushTake
  BY <1>5, TakeKeeps DEF FlushTake
<1>6. CASE FlushDone
  <2>1. TypeOK' /\ DrainInv' /\ OrderInv' /\ KeptInv'
    BY <1>6 DEF FlushDone, RecorderInv, TypeOK, DrainInv, OrderInv,
                RowsInOrder, KeptInv, InRows, InQueue
  <2>2. \A d \in 1 .. before : d \in 1 .. made /\ d # hand /\ ~InQueue(d)
    BY <1>6 DEF FlushDone, RecorderInv, TypeOK, DrainInv, InQueue
  <2>3. LossIsVisible'
    BY <1>6, <2>2 DEF FlushDone, RecorderInv, KeptInv, InRows, LossIsVisible
  <2> QED BY <2>1, <2>3 DEF RecorderInv
<1>7. CASE Written
  BY <1>7, WriteKeeps DEF Written, RecorderInv, TypeOK
<1>8. CASE WriteFails
  <2>1. faults' \in 0 .. MaxFaults
    BY <1>8, AuditAssumption DEF WriteFails, RecorderInv, TypeOK
  <2> QED BY <1>8, <2>1, WriteKeeps DEF WriteFails
<1>9. CASE UNCHANGED vars
  BY <1>9 DEF vars, RecorderInv, TypeOK, DrainInv, OrderInv, RowsInOrder,
              KeptInv, InRows, InQueue, LossIsVisible
<1> QED BY <1>1, <1>2, <1>3, <1>4, <1>5, <1>6, <1>7, <1>8, <1>9
        DEF Next, Drain

\* audit.go: rows appear in the order of the decisions, each at most once, and
\* a decision made before the stop has a row or a warning when the recorder has
\* stopped.
THEOREM RecorderKeepsTrail == Spec => [](RowsInOrder /\ LossIsVisible)
<1>1. RecorderInv => RowsInOrder /\ LossIsVisible
  BY DEF RecorderInv, OrderInv
<1> QED BY <1>1, RecorderInit, RecorderStep, PTL DEF Spec

\* What the goroutine and the requests still can do: two steps for every decision
\* that is queued or yet to come, and those of where the goroutine is.
Rank(d) == CASE d = "select" -> 2 [] d = "write" -> 3 [] d = "flush" -> 1
             [] d = "flushWrite" -> 2 [] d = "done" -> 0
Work == 2 * Len(queue) + 2 * (MaxDecisions - made) + Rank(drain)

\* No step adds to the work, and every step of the goroutine takes from it.
LEMMA WorkFalls ==
  RecorderInv /\ [Next]_vars => Work' <= Work /\ (Drain => Work' < Work)
<1> SUFFICES ASSUME RecorderInv, [Next]_vars
             PROVE Work' <= Work /\ (Drain => Work' < Work)
  OBVIOUS
<1> DEFINE q == Len(queue)
<1>1. /\ MaxDecisions \in Nat /\ made \in Nat /\ made <= MaxDecisions /\ q \in Nat
      /\ queue \in Seq(Decision)
      /\ drain \in {"select", "write", "flush", "flushWrite", "done"}
  BY AuditAssumption DEF RecorderInv, TypeOK
<1>2. Work = 2 * q + 2 * (MaxDecisions - made) + Rank(drain)
  BY DEF Work
<1>3. Work' = 2 * q' + 2 * (MaxDecisions - made') + Rank(drain')
  BY DEF Work
<1>4. /\ Rank("select") = 2 /\ Rank("write") = 3 /\ Rank("flush") = 1
      /\ Rank("flushWrite") = 2 /\ Rank("done") = 0
  BY DEF Rank
<1>5. queue # <<>> => Len(Tail(queue)) = q - 1
  BY <1>1
<1>6. ASSUME NEW d \in Nat PROVE Len(Append(queue, d)) = q + 1
  BY <1>1
<1> HIDE DEF q
<1>7. CASE Drain
  <2>1. made' = made
    BY <1>7 DEF Drain, Take, BeginFlush, FlushTake, FlushDone, Written, WriteFails
  <2>2. CASE Take \/ FlushTake
    <3>1. q' = q - 1
      BY <1>5, <2>2 DEF Take, FlushTake, q
    <3> QED BY <1>1, <1>2, <1>3, <1>4, <2>1, <2>2, <3>1 DEF Take, FlushTake
  <2>3. CASE BeginFlush \/ FlushDone \/ Written \/ WriteFails
    <3>1. q' = q
      BY <2>3 DEF BeginFlush, FlushDone, Written, WriteFails, q
    <3> QED BY <1>1, <1>2, <1>3, <1>4, <2>1, <2>3, <3>1
            DEF BeginFlush, FlushDone, Written, WriteFails, Return
  <2> QED BY <1>7, <2>2, <2>3 DEF Drain
<1>8. CASE RecordDecision
  <2>1. made' = made + 1 /\ drain' = drain /\ made + 1 \in Nat
    BY <1>1, <1>8 DEF RecordDecision
  <2>2. q' = q \/ q' = q + 1
    BY <1>6, <1>8, <2>1 DEF RecordDecision, q
  <2>3. ~Drain
    BY <1>1, <2>1 DEF Drain, Take, BeginFlush, FlushTake, FlushDone, Written, WriteFails
  <2> QED BY SMTT(30), <1>1, <1>2, <1>3, <1>4, <1>8, <2>1, <2>2, <2>3 DEF RecordDecision
<1>9. CASE UNCHANGED vars \/ Stop
  <2>1. UNCHANGED <<made, drain, queue>>
    BY <1>9 DEF vars, Stop
  <2>2. q' = q
    BY <2>1 DEF q
  <2> QED BY <1>1, <1>2, <1>3, <1>4, <1>7, <2>1, <2>2
<1> QED BY <1>7, <1>8, <1>9 DEF Next

\* Recorder.drain and the stop function: the goroutine cannot run for ever.  With
\* finitely many decisions it takes finitely many steps, so a stop that waits
\* for it waits only as long as its steps take; what is left of StopReturns is
\* that it is never stuck before it is done.
THEOREM DrainRunsDry ==
  Spec => [](Work \in Nat) /\ [][Work' <= Work /\ (Drain => Work' < Work)]_vars
<1>1. RecorderInv => Work \in Nat
  <2> SUFFICES ASSUME RecorderInv PROVE Work \in Nat
    OBVIOUS
  <2>1. /\ MaxDecisions \in Nat /\ made \in Nat /\ made <= MaxDecisions
        /\ Len(queue) \in Nat
        /\ drain \in {"select", "write", "flush", "flushWrite", "done"}
    BY AuditAssumption DEF RecorderInv, TypeOK
  <2>2. Rank(drain) \in Nat
    BY <2>1 DEF Rank
  <2> QED BY <2>1, <2>2 DEF Work
<1>2. RecorderInv /\ [Next]_vars => [Work' <= Work /\ (Drain => Work' < Work)]_vars
  BY WorkFalls
<1> QED BY <1>1, <1>2, RecorderInit, RecorderStep, PTL DEF Spec

-----------------------------------------------------------------------------
(* Gateway uses the recorder and the uplink as they are specified.         *)

\* A step of the proxy, the machine or the recorder is a step of the recorder's
\* specification or leaves it alone.
LEMMA AuditStep == [GatewayNext]_allVars => [Next]_vars
<1> SUFFICES ASSUME [GatewayNext]_allVars PROVE Next \/ UNCHANGED vars
  OBVIOUS
<1>1. ASSUME NEW r \in Req, Handles(r) PROVE RecordDecision \/ UNCHANGED vars
  BY <1>1 DEF Handles, Choose, OpenBridge, ReadBody, Fail, HeadArrives, Buffer,
              Splice, BufferFails, Stream, StreamEnds, Deny, Offline, Forward,
              Decide, NoDecision
<1>2. ASSUME NEW r \in Req, Machine(r) PROVE UNCHANGED vars
  BY <1>2 DEF Machine
<1>3. CASE Flip
  BY <1>3 DEF Flip
<1>4. CASE Recorder
  BY <1>4 DEF Recorder, Next
<1>5. CASE UNCHANGED allVars
  BY <1>5 DEF allVars
<1> QED BY <1>1, <1>2, <1>3, <1>4, <1>5 DEF GatewayNext, Next

\* http.go, record: the proxy does to the recorder only what the recorder is
\* specified to serve, so what is proved of the recorder holds under the proxy.
THEOREM UsesRecorder == GatewaySpec => Spec
<1>1. GatewayInit => Init
  BY DEF GatewayInit
<1> QED BY <1>1, AuditStep, PTL DEF GatewaySpec, Spec

\* ... and of the uplink, for the calls that reach a machine.
LEMMA ContractStep ==
  [GatewayNext]_allVars => [Up!ContractNext]_(Up!contractVars)
<1> SUFFICES ASSUME [GatewayNext]_allVars
             PROVE Up!ContractNext \/ UNCHANGED upVars
  BY DEF upVars, Up!contractVars
<1>1. ASSUME NEW r \in Req, Handles(r)
      PROVE Up!ContractNext \/ UNCHANGED upVars
  BY <1>1 DEF Handles, Choose, OpenBridge, ReadBody, Fail, HeadArrives, Buffer,
              Splice, BufferFails, Stream, StreamEnds, Deny, Offline, Forward,
              Arrives, Up!ContractNext
<1>2. ASSUME NEW r \in Req, Machine(r) PROVE Up!ContractNext
  <2>1. {r} \in SUBSET Req
    OBVIOUS
  <2> QED BY <1>2, <2>1 DEF Machine, Up!ContractNext
<1>3. CASE Flip
  <2> DEFINE R == {r \in Req : /\ pc[r] \in {"do", "buffer", "stream"}
                               /\ source[r] \in {"working", "open"}}
  <2>1. R \in SUBSET Req
    OBVIOUS
  <2> QED BY <1>3, <2>1 DEF Flip, Up!ContractNext
<1>4. CASE Recorder
  BY <1>4 DEF Recorder
<1>5. CASE UNCHANGED allVars
  BY <1>5 DEF allVars
<1> QED BY <1>1, <1>2, <1>3, <1>4, <1>5 DEF GatewayNext

\* http.go, ServeHTTP: the proxy calls Do and reads bodies only in the order the
\* contract of the uplink knows.
THEOREM UsesContract == GatewaySpec => Up!ContractSpec
<1>1. GatewayInit => Up!ContractInit
  BY DEF GatewayInit
<1> QED BY <1>1, ContractStep, PTL DEF GatewaySpec, Up!ContractSpec

\* The contract by itself: a body hands over the machine's chunks by position,
\* never more than there are, and none before Do has returned.
ContractType ==
  /\ call \in [Req -> {"idle", "waiting", "answered", "failed"}]
  /\ source \in [Req -> {"idle", "working", "open", "ended", "lost"}]
  /\ end \in [Req -> {"none", "open", "eof", "error"}]
  /\ sent \in [Req -> Nat] /\ got \in [Req -> Seq(Nat)]

BodyInOrder(r) ==
  /\ Len(got[r]) <= sent[r]
  /\ \A i \in 1 .. Len(got[r]) : got[r][i] = i - 1
  /\ end[r] = "none" => got[r] = <<>>

ContractInv == ContractType /\ \A r \in Req : BodyInOrder(r)

\* ContractInit establishes it.
LEMMA ContractInvInit == Up!ContractInit => ContractInv
<1> SUFFICES ASSUME Up!ContractInit PROVE ContractInv
  OBVIOUS
<1>0. <<>> \in Seq(Nat) /\ Len(<<>>) = 0
  OBVIOUS
<1>1. ContractType
  BY <1>0 DEF Up!ContractInit, ContractType
<1>2. ASSUME NEW r \in Req PROVE BodyInOrder(r)
  BY <1>0 DEF Up!ContractInit, BodyInOrder
<1> QED BY <1>1, <1>2 DEF ContractInv

\* Receive is the only action that hands anything over.
LEMMA ReceiveKeeps ==
  ASSUME ContractInv, NEW r \in Req, Up!Receive(r)
  PROVE ContractInv'
<1> USE DEF ContractInv, ContractType, Up!Receive
<1>1. /\ got[r] \in Seq(Nat) /\ Len(got[r]) \in Nat
      /\ got' = [got EXCEPT ![r] = Append(got[r], Len(got[r]))]
  OBVIOUS
<1>2. /\ got'[r] \in Seq(Nat) /\ Len(got'[r]) = Len(got[r]) + 1
      /\ \A i \in 1 .. Len(got[r]) : got'[r][i] = got[r][i]
      /\ got'[r][Len(got[r]) + 1] = Len(got[r])
  BY <1>1, AppendFacts
<1>3. ContractType'
  BY <1>1, <1>2
<1>4. BodyInOrder(r)'
  <2>1. \A i \in 1 .. Len(got'[r]) : i = Len(got[r]) + 1 \/ i \in 1 .. Len(got[r])
    BY <1>1, <1>2
  <2>2. \A i \in 1 .. Len(got'[r]) : got'[r][i] = i - 1
    BY <1>1, <1>2, <2>1 DEF BodyInOrder
  <2> QED BY <1>1, <1>2, <2>2 DEF BodyInOrder
<1>5. ASSUME NEW q \in Req, q # r PROVE BodyInOrder(q)'
  BY <1>5 DEF BodyInOrder
<1> QED BY <1>3, <1>4, <1>5

\* Every step of the contract keeps it.
LEMMA ContractKeeps ==
  ContractInv /\ [Up!ContractNext]_(Up!contractVars) => ContractInv'
<1> SUFFICES ASSUME ContractInv, [Up!ContractNext]_(Up!contractVars)
             PROVE ContractInv'
  OBVIOUS
<1> USE DEF ContractInv
<1>1. ASSUME NEW r \in Req, Up!Receive(r) PROVE ContractInv'
  BY <1>1, ReceiveKeeps
<1>2. ASSUME NEW r \in Req,
             \/ Up!Ask(r) \/ Up!Refuse(r) \/ Up!Fail(r) \/ Up!Answer(r)
             \/ Up!EndClean(r) \/ Up!EndBroken(r)
      PROVE ContractInv'
  <2>1. ContractType'
    BY <1>2 DEF ContractType, Up!Ask, Up!Refuse, Up!Fail, Up!Answer,
                Up!EndClean, Up!EndBroken
  <2>2. UNCHANGED <<sent, got>> /\ \A q \in Req : end'[q] = "none" => end[q] = "none"
    BY <1>2 DEF ContractType, Up!Ask, Up!Refuse, Up!Fail, Up!Answer,
                Up!EndClean, Up!EndBroken
  <2> QED BY <2>1, <2>2 DEF BodyInOrder
<1>3. ASSUME NEW r \in Req,
             Up!Begin(r) \/ Up!Open(r) \/ Up!Produce(r) \/ Up!Finish(r)
      PROVE ContractInv'
  <2>0. sent' \in [Req -> Nat]
    <3>1. sent[r] + 1 \in Nat /\ sent' \in {sent, [sent EXCEPT ![r] = sent[r] + 1]}
      BY <1>3 DEF ContractType, Up!Begin, Up!Open, Up!Produce, Up!Finish
    <3> QED BY <3>1 DEF ContractType
  <2>1. ContractType'
    BY <1>3, <2>0 DEF ContractType, Up!Begin, Up!Open, Up!Produce, Up!Finish
  <2>2. UNCHANGED <<got, end>> /\ \A q \in Req : sent'[q] >= sent[q]
    BY <1>3 DEF ContractType, Up!Begin, Up!Open, Up!Produce, Up!Finish
  <2>3. \A q \in Req : Len(got[q]) \in Nat /\ sent[q] \in Nat /\ sent'[q] \in Nat
    BY <2>1 DEF ContractType
  <2> QED BY <2>1, <2>2, <2>3 DEF BodyInOrder
<1>4. ASSUME NEW R \in SUBSET Req, Up!Lose(R) PROVE ContractInv'
  BY <1>4 DEF ContractType, BodyInOrder, Up!Lose
<1>5. CASE UNCHANGED Up!contractVars
  BY <1>5 DEF ContractType, BodyInOrder, Up!contractVars
<1> QED BY <1>1, <1>2, <1>3, <1>4, <1>5 DEF Up!ContractNext

-----------------------------------------------------------------------------
(* What one request says of itself.                                        *)

States == {"idle", "body", "opening", "do", "buffer", "stream"} \cup Answered

\* Ended without an answer of the machine, or with one that was recorded.
Recorded == {"stream"} \cup (Answered \ {"chosen", "tooLarge", "rejected"})

\* Before Do has returned a response.
Early == {"idle", "body", "opening", "do"}

GatewayType ==
  /\ pc \in [Req -> States]
  /\ withheld \in [Req -> BOOLEAN] /\ allowed \in [Req -> BOOLEAN]
  /\ said \in [Req -> BOOLEAN]
  /\ decision \in [Req -> Nat] /\ shown \in [Req -> Seq(Int)]

\* An answer that may be on the browser's screen has its decision, and a
\* withheld method never got as far as the machine.
DecidedInv(r) ==
  /\ pc[r] \in Recorded => decision[r] # 0 /\ allowed[r] = ~withheld[r]
  /\ shown[r] # <<>> => decision[r] # 0
  /\ withheld[r] => pc[r] = "refused" /\ source[r] = "idle"
  /\ pc[r] = "idle" => source[r] = "idle"

\* Nothing is shown before the stream, where what is shown is what was handed
\* over.
ShownInv(r) ==
  /\ pc[r] \in Early => end[r] = "none"
  /\ pc[r] \in Early \cup {"buffer"} => shown[r] = <<>>
  /\ pc[r] = "stream" => shown[r] = got[r]

\* ShortIsSaid, of one request.
WholeInv(r) ==
  /\ \A i \in DOMAIN shown[r] : shown[r][i] \in {i - 1, Tag}
  /\ pc[r] = "whole" /\ ~said[r] =>
       \/ source[r] = "ended" /\ \A n \in 0 .. sent[r] - 1 :
            \E i \in DOMAIN shown[r] : shown[r][i] = n
       \/ Len(got[r]) = MaxDocument

ReqInv(r) == DecidedInv(r) /\ ShownInv(r) /\ WholeInv(r)

GatewayInv == RecorderInv /\ ContractInv /\ GatewayType /\ \A r \in Req : ReqInv(r)

\* What ReqInv reads of a request.
View(r) == <<pc[r], withheld[r], decision[r], allowed[r], shown[r], said[r],
             source[r], sent[r], got[r], end[r]>>

\* A step that leaves a request alone keeps its invariant.
LEMMA Others == ASSUME NEW r \in Req, ReqInv(r), View(r)' = View(r)
                PROVE ReqInv(r)'
BY DEF View, ReqInv, DecidedInv, ShownInv, WholeInv

\* What GatewayInit establishes.
LEMMA GatewayInvInit == GatewayInit => GatewayInv
<1> SUFFICES ASSUME GatewayInit PROVE GatewayInv
  OBVIOUS
<1>1. RecorderInv
  BY RecorderInit DEF GatewayInit
<1>2. GatewayType
  <2>1. <<>> \in Seq(Int) /\ "idle" \in States
    BY DEF States
  <2> QED BY <2>1 DEF GatewayInit, GatewayType
<1>4. ContractInv
  BY ContractInvInit DEF GatewayInit
<1>3. ASSUME NEW r \in Req PROVE ReqInv(r)
  BY DEF GatewayInit, Up!ContractInit, ReqInv, DecidedInv, ShownInv, WholeInv,
         Recorded, Early, Answered
<1> QED BY <1>1, <1>2, <1>3, <1>4 DEF GatewayInv

\* Goto moves one handler.
LEMMA GotoFacts ==
  ASSUME GatewayType, NEW r \in Req, NEW s \in States, Goto(r, s)
  PROVE /\ pc' \in [Req -> States] /\ pc'[r] = s
        /\ \A q \in Req \ {r} : pc'[q] = pc[q]
BY DEF GatewayType, Goto

\* Decide gives one request a number that is not 0, and what it said.
LEMMA DecideFacts ==
  ASSUME TypeOK, GatewayType, NEW r \in Req, NEW ok \in BOOLEAN, Decide(r, ok)
  PROVE /\ decision' \in [Req -> Nat] /\ allowed' \in [Req -> BOOLEAN]
        /\ decision'[r] # 0 /\ allowed'[r] = ok
        /\ \A q \in Req \ {r} : /\ decision'[q] = decision[q]
                                /\ allowed'[q] = allowed[q]
<1>1. made' \in Nat \ {0}
  BY AuditAssumption DEF TypeOK, Decide, RecordDecision
<1> QED BY <1>1 DEF GatewayType, Decide

\* Every step of the handler of r keeps the types, the invariant of r, and the
\* state of every other request.
LEMMA HandlesStep ==
  ASSUME GatewayInv, NEW r \in Req, Handles(r)
  PROVE GatewayType' /\ ReqInv(r)' /\ \A q \in Req \ {r} : View(q)' = View(q)
<1> DEFINE Goal == GatewayType' /\ ReqInv(r)'
                   /\ \A q \in Req \ {r} : View(q)' = View(q)
<1> USE DEF GatewayInv, RecorderInv, ContractInv, Answered, States, NoDecision
<1>1. CASE Choose(r)
  <2> USE <1>1, GotoFacts, DecideFacts DEF Choose, upVars
  <2>1. GatewayType'
    BY DEF GatewayType
  <2>2. /\ pc'[r] = "chosen" /\ withheld[r] = FALSE /\ shown[r] = <<>>
    BY DEF GatewayType, ReqInv, DecidedInv, ShownInv, Early
  <2>7. ReqInv(r)'
    BY <2>2 DEF ReqInv, DecidedInv, ShownInv, WholeInv, Recorded, Early
  <2>8. \A q \in Req \ {r} : View(q)' = View(q)
    BY DEF GatewayType, ContractType, View
  <2> QED BY <2>1, <2>7, <2>8
<1>2. CASE OpenBridge(r)
  <2> USE <1>2, GotoFacts, DecideFacts DEF OpenBridge, upVars
  <2>1. GatewayType'
    BY DEF GatewayType
  <2>2. withheld[r] = FALSE /\ shown[r] = <<>>
    BY DEF GatewayType, ReqInv, DecidedInv, ShownInv, Early
  <2>3. \/ /\ pc'[r] \in {"failed", "bridged"}
         /\ decision'[r] # 0 /\ allowed'[r] = TRUE
      \/ pc'[r] = "rejected"
    BY DEF GatewayType
  <2>7. ReqInv(r)'
    BY <2>2, <2>3 DEF ReqInv, DecidedInv, ShownInv, WholeInv, Recorded, Early
  <2>8. \A q \in Req \ {r} : View(q)' = View(q)
    BY DEF GatewayType, ContractType, View
  <2> QED BY <2>1, <2>7, <2>8
<1>3. CASE ReadBody(r)
  <2> USE <1>3, GotoFacts, DecideFacts DEF ReadBody, Up!Ask, Up!Refuse, upVars
  <2>1. GatewayType'
    BY DEF GatewayType
  <2>2. withheld[r] = FALSE /\ shown[r] = <<>> /\ end[r] = "none"
    BY DEF GatewayType, ReqInv, DecidedInv, ShownInv, Early
  <2>3. \/ pc'[r] = "failed" /\ decision'[r] # 0 /\ allowed'[r] = TRUE
      \/ pc'[r] \in {"tooLarge", "do"}
    BY DEF GatewayType
  <2>4. UNCHANGED <<withheld, shown, source, sent, got, end>>
    OBVIOUS
  <2>7. ReqInv(r)'
    BY <2>2, <2>3, <2>4 DEF ReqInv, DecidedInv, ShownInv, WholeInv, Recorded, Early
  <2>8. \A q \in Req \ {r} : View(q)' = View(q)
    <3>1. UNCHANGED <<withheld, shown, said, source, sent, got, end>>
      OBVIOUS
    <3>2. \A q \in Req \ {r} : /\ pc'[q] = pc[q] /\ decision'[q] = decision[q]
                              /\ allowed'[q] = allowed[q]
      BY DEF GatewayType
    <3> QED BY <3>1, <3>2 DEF View
  <2> QED BY <2>1, <2>7, <2>8
<1>4. CASE Fail(r)
  <2> USE <1>4, GotoFacts, DecideFacts DEF Fail, Up!Fail, upVars
  <2>1. GatewayType'
    BY DEF GatewayType
  <2>2. withheld[r] = FALSE /\ shown[r] = <<>>
    BY DEF GatewayType, ReqInv, DecidedInv, ShownInv, Early
  <2>3. pc'[r] = "failed" /\ decision'[r] # 0 /\ allowed'[r] = TRUE
    BY DEF GatewayType
  <2>7. ReqInv(r)'
    BY <2>2, <2>3 DEF ReqInv, DecidedInv, ShownInv, WholeInv, Recorded, Early
  <2>8. \A q \in Req \ {r} : View(q)' = View(q)
    BY ZenonT(40) DEF GatewayType, ContractType, View
  <2> QED BY <2>1, <2>7, <2>8
<1>5. CASE HeadArrives(r)
  <2> USE <1>5, GotoFacts, DecideFacts DEF HeadArrives, Up!Answer, upVars
  <2>1. GatewayType'
    BY DEF GatewayType
  <2>2. withheld[r] = FALSE /\ shown[r] = <<>> /\ got[r] = <<>>
    BY DEF GatewayType, ReqInv, DecidedInv, ShownInv, BodyInOrder, Early
  <2>3. \/ pc'[r] = "stream" /\ decision'[r] # 0 /\ allowed'[r] = TRUE
      \/ pc'[r] = "buffer"
    BY ZenonT(40) DEF GatewayType
  <2>4. UNCHANGED <<withheld, shown, source, sent, got>>
    OBVIOUS
  <2>7. ReqInv(r)'
    BY ZenonT(40), <2>2, <2>3, <2>4 DEF ReqInv, DecidedInv, ShownInv, WholeInv, Recorded, Early
  <2>8. \A q \in Req \ {r} : View(q)' = View(q)
    BY ZenonT(40) DEF GatewayType, ContractType, View
  <2> QED BY <2>1, <2>7, <2>8
<1>6. CASE Buffer(r)
  <2> USE <1>6, GotoFacts, DecideFacts DEF Buffer, Up!Receive, proxyVars, upVars
  <2>1. GatewayType'
    BY DEF GatewayType
  <2>2. /\ pc[r] = "buffer" /\ withheld[r] = FALSE /\ shown[r] = <<>>
    BY DEF GatewayType, ReqInv, DecidedInv, ShownInv, Early
  <2>3. UNCHANGED <<pc, withheld, decision, allowed, shown, said, source, end>>
    OBVIOUS
  <2>7. ReqInv(r)'
    BY <2>2, <2>3 DEF ReqInv, DecidedInv, ShownInv, WholeInv, Recorded, Early
  <2>8. \A q \in Req \ {r} : View(q)' = View(q)
    BY DEF GatewayType, ContractType, View
  <2> QED BY <2>1, <2>7, <2>8
<1>7. CASE Splice(r)
  <2> USE <1>7, GotoFacts, DecideFacts DEF Splice, Up!EndClean, upVars
  <2>1. GatewayType'
    <3>1. Append(got[r], Tag) \in Seq(Int)
      BY DEF ContractType, Tag
    <3> QED BY <3>1 DEF GatewayType
  <2>2. withheld[r] = FALSE
    BY DEF GatewayType, ReqInv, DecidedInv
  <2>3. /\ pc'[r] = "whole" /\ decision'[r] # 0 /\ allowed'[r] = TRUE
        /\ shown'[r] = Append(got[r], Tag)
        /\ UNCHANGED <<withheld, source, sent, got>>
    BY DEF GatewayType
  <2>4. /\ Len(shown'[r]) = Len(got[r]) + 1 /\ DOMAIN shown'[r] = 1 .. Len(got[r]) + 1
        /\ \A i \in 1 .. Len(got[r]) : shown'[r][i] = i - 1
        /\ shown'[r][Len(got[r]) + 1] = Tag /\ Len(got[r]) \in Nat
    <3>1. got[r] \in Seq(Int)
      BY DEF ContractType
    <3>2. Tag \in Int /\ DOMAIN shown'[r] = 1 .. Len(shown'[r]) /\ Len(got[r]) \in Nat
      BY <2>3, <3>1 DEF Tag
    <3> QED BY <2>3, <3>1, <3>2, AppendFacts DEF BodyInOrder
  <2>5. WholeInv(r)'
    <3>1. \A i \in DOMAIN shown'[r] : shown'[r][i] \in {i - 1, Tag}
      BY <2>4
    <3>2. CASE source[r] = "ended" /\ Len(got[r]) = sent[r]
      <4>1. \A n \in 0 .. sent[r] - 1 :
              n + 1 \in DOMAIN shown'[r] /\ shown'[r][n + 1] = n
        BY <2>4, <3>2
      <4> QED BY ZenonT(40), <2>3, <3>1, <3>2, <4>1 DEF WholeInv
    <3>3. CASE Len(got[r]) = MaxDocument
      BY <2>3, <3>1, <3>3 DEF WholeInv
    <3> QED BY <3>2, <3>3
  <2>7. ReqInv(r)'
    BY <2>2, <2>3, <2>5 DEF ReqInv, DecidedInv, ShownInv, Recorded, Early
  <2>8. \A q \in Req \ {r} : View(q)' = View(q)
    BY ZenonT(40) DEF GatewayType, ContractType, View
  <2> QED BY <2>1, <2>7, <2>8
<1>8. CASE BufferFails(r)
  <2> USE <1>8, GotoFacts, DecideFacts DEF BufferFails, Up!EndBroken, upVars
  <2>1. GatewayType'
    BY DEF GatewayType
  <2>2. withheld[r] = FALSE /\ shown[r] = <<>>
    BY DEF GatewayType, ReqInv, DecidedInv, ShownInv, Early
  <2>3. pc'[r] = "broken" /\ decision'[r] # 0 /\ allowed'[r] = TRUE
    BY DEF GatewayType
  <2>7. ReqInv(r)'
    BY <2>2, <2>3 DEF ReqInv, DecidedInv, ShownInv, WholeInv, Recorded, Early
  <2>8. \A q \in Req \ {r} : View(q)' = View(q)
    BY ZenonT(40) DEF GatewayType, ContractType, View
  <2> QED BY <2>1, <2>7, <2>8
<1>9. CASE Stream(r)
  <2> USE <1>9, GotoFacts, DecideFacts DEF Stream, Up!Receive, upVars
  <2>1. GatewayType'
    <3>1. shown[r] \in Seq(Int) /\ Len(got[r]) \in Int
      BY DEF GatewayType, ContractType
    <3>2. Append(shown[r], Len(got[r])) \in Seq(Int)
      BY <3>1, AppendFacts
    <3>3. \/ shown' = shown
          \/ shown' = [shown EXCEPT ![r] = Append(shown[r], Len(got[r]))]
      OBVIOUS
    <3>4. shown' \in [Req -> Seq(Int)]
      BY <3>2, <3>3 DEF GatewayType
    <3> QED BY <3>4 DEF GatewayType
  <2>2. /\ withheld[r] = FALSE /\ decision[r] # 0 /\ allowed[r] = TRUE
        /\ shown[r] = got[r] /\ pc[r] = "stream"
    BY DEF GatewayType, ReqInv, DecidedInv, ShownInv, Recorded
  <2>3. /\ got'[r] = Append(got[r], Len(got[r])) /\ end[r] = "open"
        /\ UNCHANGED <<withheld, decision, allowed, said, source, sent, end>>
        /\ \/ shown'[r] = Append(got[r], Len(got[r])) /\ pc'[r] = "stream"
           \/ shown'[r] = got[r] /\ pc'[r] = "left"
    BY <2>2 DEF GatewayType, ContractType
  <2>4. /\ DOMAIN got[r] = 1 .. Len(got[r])
        /\ DOMAIN Append(got[r], Len(got[r])) = 1 .. Len(got[r]) + 1
        /\ Append(got[r], Len(got[r]))[Len(got[r]) + 1] = Len(got[r])
        /\ \A i \in 1 .. Len(got[r]) :
             /\ Append(got[r], Len(got[r]))[i] = got[r][i]
             /\ got[r][i] = i - 1
    BY DEF ContractType, BodyInOrder
  <2>5. WholeInv(r)'
    <3>1. \A i \in DOMAIN shown'[r] : shown'[r][i] = i - 1
      <4>1. CASE shown'[r] = got[r]
        BY <2>4, <4>1
      <4>2. CASE shown'[r] = Append(got[r], Len(got[r]))
        <5>1. \A i \in 1 .. Len(got[r]) + 1 :
                i = Len(got[r]) + 1 \/ i \in 1 .. Len(got[r])
          BY DEF ContractType
        <5> QED BY <2>4, <4>2, <5>1 DEF ContractType
      <4> QED BY <2>3, <4>1, <4>2
    <3> QED BY <2>3, <3>1 DEF WholeInv
  <2>7. ReqInv(r)'
    BY <2>2, <2>3, <2>5 DEF ReqInv, DecidedInv, ShownInv, Recorded, Early
  <2>8. \A q \in Req \ {r} : View(q)' = View(q)
    BY DEF GatewayType, ContractType, View
  <2> QED BY <2>1, <2>7, <2>8
<1>10. CASE StreamEnds(r)
  <2> USE <1>10, GotoFacts, DecideFacts DEF StreamEnds, Up!EndClean, Up!EndBroken, upVars
  <2>1. GatewayType'
    BY DEF GatewayType
  <2>2. /\ withheld[r] = FALSE /\ decision[r] # 0 /\ allowed[r] = TRUE
        /\ shown[r] = got[r]
    BY DEF GatewayType, ReqInv, DecidedInv, ShownInv, Recorded
  <2>3. /\ UNCHANGED <<withheld, decision, allowed, shown, source, sent, got>>
        /\ \/ /\ pc'[r] = "whole" /\ source[r] = "ended"
              /\ Len(got[r]) = sent[r]
           \/ pc'[r] = "broken"
    BY DEF GatewayType, ContractType
  <2>4. /\ DOMAIN got[r] = 1 .. Len(got[r])
        /\ \A i \in 1 .. Len(got[r]) : got[r][i] = i - 1
    BY DEF ContractType, BodyInOrder
  <2>5. WholeInv(r)'
    <3>1. \A i \in DOMAIN shown'[r] : shown'[r][i] \in {i - 1, Tag}
      BY <2>2, <2>3, <2>4
    <3>2. CASE pc'[r] = "whole"
      <4>1. \A n \in 0 .. sent[r] - 1 :
              n + 1 \in DOMAIN shown'[r] /\ shown'[r][n + 1] = n
        BY <2>2, <2>3, <2>4, <3>2 DEF ContractType
      <4> QED BY <2>3, <3>1, <3>2, <4>1 DEF WholeInv
    <3> QED BY <3>1, <3>2 DEF WholeInv
  <2>7. ReqInv(r)'
    BY <2>2, <2>3, <2>5 DEF ReqInv, DecidedInv, ShownInv, Recorded, Early
  <2>8. \A q \in Req \ {r} : View(q)' = View(q)
    BY DEF GatewayType, ContractType, View
  <2> QED BY <2>1, <2>7, <2>8
<1>11. ASSUME NEW class \in Class, Deny(r, class) PROVE Goal
  <2> USE <1>11, GotoFacts, DecideFacts DEF Deny, Arrives, Blocked, upVars
  <2>0. Refuses(class) \in BOOLEAN
    BY DEF Refuses
  <2>1. GatewayType'
    BY <2>0 DEF GatewayType
  <2>2. shown[r] = <<>> /\ end[r] = "none"
    BY DEF ReqInv, ShownInv, Early
  <2>3. /\ withheld'[r] = TRUE /\ pc'[r] = "refused" /\ source[r] = "idle"
        /\ decision'[r] # 0 /\ allowed'[r] = FALSE
    BY ZenonT(40), <2>0 DEF GatewayType, ReqInv, DecidedInv
  <2>7. ReqInv(r)'
    BY <2>2, <2>3 DEF ReqInv, DecidedInv, ShownInv, WholeInv, Recorded, Early
  <2>8. \A q \in Req \ {r} : View(q)' = View(q)
    BY ZenonT(40) DEF GatewayType, ContractType, View
  <2> QED BY <2>1, <2>7, <2>8
<1>12. ASSUME NEW class \in Class, Offline(r, class) PROVE Goal
  <2> USE <1>12, GotoFacts, DecideFacts DEF Offline, Arrives, Blocked, upVars
  <2>0. Refuses(class) \in BOOLEAN
    BY DEF Refuses
  <2>1. GatewayType'
    BY <2>0 DEF GatewayType
  <2>2. shown[r] = <<>> /\ end[r] = "none"
    BY DEF ReqInv, ShownInv, Early
  <2>3. /\ withheld'[r] = FALSE /\ pc'[r] = "offline"
        /\ decision'[r] # 0 /\ allowed'[r] = TRUE
    BY ZenonT(40), <2>0 DEF GatewayType, ReqInv, DecidedInv
  <2>7. ReqInv(r)'
    BY <2>2, <2>3 DEF ReqInv, DecidedInv, ShownInv, WholeInv, Recorded, Early
  <2>8. \A q \in Req \ {r} : View(q)' = View(q)
    BY ZenonT(40) DEF GatewayType, ContractType, View
  <2> QED BY <2>1, <2>7, <2>8
<1>13. ASSUME NEW class \in Class, Forward(r, class) PROVE Goal
  <2> USE <1>13, GotoFacts, DecideFacts DEF Forward, Arrives, Blocked, upVars
  <2>0. Refuses(class) \in BOOLEAN
    BY DEF Refuses
  <2>1. GatewayType'
    BY <2>0 DEF GatewayType
  <2>2. shown[r] = <<>> /\ end[r] = "none"
    BY DEF ReqInv, ShownInv, Early
  <2>3. /\ withheld'[r] = FALSE /\ pc'[r] \in {"body", "opening"}
    BY <2>0 DEF GatewayType, ReqInv, DecidedInv
  <2>7. ReqInv(r)'
    BY <2>2, <2>3 DEF ReqInv, DecidedInv, ShownInv, WholeInv, Recorded, Early
  <2>8. \A q \in Req \ {r} : View(q)' = View(q)
    BY DEF GatewayType, ContractType, View
  <2> QED BY <2>1, <2>7, <2>8
<1> QED BY <1>1, <1>2, <1>3, <1>4, <1>5, <1>6, <1>7, <1>8, <1>9, <1>10, <1>11, <1>12, <1>13 DEF Handles

\* What the machine does to requests it is serving, one or all of them, shows
\* the browser nothing.
LEMMA MachineKeeps ==
  ASSUME GatewayInv, RecorderInv', ContractInv', NEW S \in SUBSET Req,
         UNCHANGED <<vars, pc, withheld, decision, allowed, shown, said, call,
                     got, end>>,
         \A q \in S : pc[q] \in {"do", "buffer", "stream"},
         \A q \in Req \ S : source'[q] = source[q] /\ sent'[q] = sent[q]
  PROVE GatewayInv'
<1> USE DEF GatewayInv
<1>1. GatewayType'
  BY DEF GatewayType
<1>2. ASSUME NEW q \in S PROVE ReqInv(q)'
  <2>1. withheld[q] = FALSE
    BY DEF ReqInv, DecidedInv, GatewayType
  <2> QED BY <2>1, <1>2 DEF ReqInv, DecidedInv, ShownInv, WholeInv
<1>3. ASSUME NEW q \in Req \ S PROVE ReqInv(q)'
  <2>1. View(q)' = View(q)
    BY DEF View
  <2> QED BY <2>1, Others
<1> QED BY <1>1, <1>2, <1>3

\* Every step keeps the invariant.
LEMMA GatewayStep == GatewayInv /\ [GatewayNext]_allVars => GatewayInv'
<1> SUFFICES ASSUME GatewayInv, [GatewayNext]_allVars PROVE GatewayInv'
  OBVIOUS
<1>1. RecorderInv' /\ ContractInv'
  BY AuditStep, RecorderStep, ContractStep, ContractKeeps DEF GatewayInv
<1>2. ASSUME NEW r \in Req, Handles(r) PROVE GatewayInv'
  <2>1. GatewayType' /\ ReqInv(r)' /\ \A q \in Req \ {r} : View(q)' = View(q)
    BY <1>2, HandlesStep
  <2>2. \A q \in Req \ {r} : ReqInv(q)'
    BY <2>1, Others DEF GatewayInv
  <2> QED BY <1>1, <2>1, <2>2 DEF GatewayInv
<1>3. ASSUME NEW r \in Req, Machine(r) PROVE GatewayInv'
  <2>1. /\ {r} \in SUBSET Req
        /\ \A q \in {r} : pc[q] \in {"do", "buffer", "stream"}
        /\ UNCHANGED <<vars, proxyVars>>
    BY <1>3 DEF Machine
  <2>2. /\ UNCHANGED <<call, got, end>>
        /\ \A q \in Req \ {r} : source'[q] = source[q] /\ sent'[q] = sent[q]
    BY <1>3 DEF Machine, Up!Begin, Up!Open, Up!Finish, Up!Lose, Up!Produce,
                GatewayInv, ContractInv, ContractType
  <2> QED BY <1>1, <2>1, <2>2, MachineKeeps DEF proxyVars
<1>4. CASE Flip
  <2> DEFINE S == {q \in Req : /\ pc[q] \in {"do", "buffer", "stream"}
                               /\ source[q] \in {"working", "open"}}
  <2>1. S \in SUBSET Req /\ \A q \in S : pc[q] \in {"do", "buffer", "stream"}
    OBVIOUS
  <2>2. UNCHANGED <<vars, pc, withheld, decision, allowed, shown, said>>
    BY <1>4 DEF Flip
  <2>3. UNCHANGED upVars \/ Up!Lose(S)
    BY <1>4 DEF Flip
  <2>4. /\ UNCHANGED <<call, got, end>>
        /\ \A q \in Req \ S : source'[q] = source[q] /\ sent'[q] = sent[q]
    BY <2>3 DEF Up!Lose, upVars
  <2> HIDE DEF S
  <2> QED BY <1>1, <2>1, <2>2, <2>4, MachineKeeps
<1>5. CASE Recorder
  <2>1. GatewayType' /\ \A q \in Req : View(q)' = View(q)
    BY <1>5 DEF Recorder, proxyVars, upVars, View, GatewayType, GatewayInv
  <2> QED BY <1>1, <2>1, Others DEF GatewayInv
<1>6. CASE UNCHANGED allVars
  <2>1. GatewayType' /\ \A q \in Req : View(q)' = View(q)
    BY <1>6 DEF allVars, vars, proxyVars, upVars, View, GatewayType,
                GatewayInv
  <2> QED BY <1>1, <2>1, Others DEF GatewayInv
<1> QED BY <1>2, <1>3, <1>4, <1>5, <1>6 DEF GatewayNext

\* The type correctness of all the variables, and the invariants that carry the
\* properties below.
THEOREM GatewayInvariant == GatewaySpec => []GatewayInv
BY GatewayInvInit, GatewayStep, PTL DEF GatewaySpec

\* audit.go, drain: one queue and one writer keep the order of the decisions.
THEOREM RowsStayInOrder == GatewaySpec => []RowsInOrder
BY UsesRecorder, RecorderKeepsTrail, PTL

\* http.go, ServeHTTP and record: every answer of a selected machine has the
\* decision that was taken, before the browser sees a byte; a withheld method
\* never reaches the machine.
THEOREM AnswersHaveDecisions == GatewaySpec => []AnswersAreRecorded
<1>1. GatewayInv => AnswersAreRecorded
  BY DEF GatewayInv, ReqInv, DecidedInv, AnswersAreRecorded, Recorded
<1> QED BY <1>1, GatewayInvariant, PTL

\* http.go, record, and audit.go together: a recorded answer has its row or a
\* warning once the recorder has stopped.
THEOREM TrailHasNoGaps == GatewaySpec => []TrailIsComplete
<1>1. LossIsVisible => TrailIsComplete
  BY DEF LossIsVisible, TrailIsComplete
<1> QED BY <1>1, UsesRecorder, RecorderKeepsTrail, PTL

\* http.go, the body loop and splice: what the browser is shown is the machine's
\* answer in order, whole unless a warning was logged or the page was too long.
THEOREM ShortAnswersAreSaid == GatewaySpec => []ShortIsSaid
<1>1. GatewayInv => ShortIsSaid
  BY DEF GatewayInv, ReqInv, WholeInv, ShortIsSaid
<1> QED BY <1>1, GatewayInvariant, PTL
==============================================================================

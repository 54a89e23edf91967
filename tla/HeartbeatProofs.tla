--------------------------- MODULE HeartbeatProofs ---------------------------
(***************************************************************************)
(* TLAPS proofs about Heartbeat, for any period, grace and deadlines, any  *)
(* delay of a frame and any number of failing writes.                      *)
(***************************************************************************)
EXTENDS Heartbeat, SequenceTheorems, TLAPS

-----------------------------------------------------------------------------
(* The inductive invariants.                                               *)

Kinds == {"welcome", "ping", "pong", "tlm", "close"}
Frame == [t : Kinds, age : Nat]

\* The handshake comes before any frame, and the loop ends with the connection,
\* except for a Touch under way.
PlaceInv ==
  /\ cp \in {"hello", "welcome"} =>
       /\ beat = "off" /\ node \in {"waiting", "crashed"}
       /\ toNode = <<>> /\ toCP = <<>> /\ saving = -1
  /\ cp = "open" => beat \in {"select", "ping", "touch", "closing"}
  /\ cp \in {"closed", "crashed"} => beat \in {"touch", "done"}
  /\ node = "waiting" => toCP = <<>>

TypeInv ==
  /\ cp \in {"hello", "welcome", "open", "closed", "crashed"}
  /\ beat \in {"off", "select", "ping", "touch", "closing", "done"}
  /\ node \in {"waiting", "open", "closed", "crashed"}
  /\ hears \in SUBSET Ends
  /\ toNode \in Seq(Frame) /\ toCP \in Seq(Frame)
  /\ cpTimer \in 1 .. Interval /\ due \in BOOLEAN /\ nodeTimer \in 0 .. Interval
  /\ waited \in Nat /\ silent \in Nat /\ missed \in Nat
  /\ saving \in -1 .. SaveTime /\ seen \in 0 .. OfflineAfter
  /\ lost \in [Ends -> Nat] /\ faults \in 0 .. MaxFaults
  /\ PlaceInv

AtLeast(q, n) == \A i \in 1 .. Len(q) : q[i].age >= n
AtMost(q, n) == \A i \in 1 .. Len(q) : q[i].age <= n

\* A frame toward an end that still reads is no older than the network allows.
AgeInv ==
  /\ cp = "open" => AtMost(toCP, Delay)
  /\ Attached => AtMost(toNode, Delay)

\* Once an end has lost the other, nothing is sent to it any more: what is
\* still on its way was sent before.
Speaks == Live /\ beat # "closing"
QuietInv ==
  /\ Live /\ lost["cp"] > 0 => /\ "cp" \notin hears \/ ~Attached
                               /\ AtLeast(toCP, lost["cp"] - 1)
  /\ Attached /\ lost["node"] > 0 => /\ "node" \notin hears \/ ~Speaks
                                     /\ AtLeast(toNode, lost["node"] - 1)

\* What lastPong says of the loss.
SilenceInv == Live /\ lost["cp"] > 0 => lost["cp"] - 1 <= silent + Delay

\* Nothing the control plane does takes longer than its deadline.
WaitInv ==
  /\ cp = "hello" => waited <= HelloTime
  /\ Writing => waited <= WriteTimeout
  /\ beat = "touch" => waited <= TouchTime
  /\ beat = "closing" => waited <= CloseTime

\* How long ago the loss can have been, by where ServeHTTP and heartbeat are.
Since == Interval - cpTimer
WatchInv ==
  lost["cp"] > 0 =>
    /\ cp = "hello" => lost["cp"] - 1 <= waited
    /\ cp = "welcome" => lost["cp"] - 1 <= HelloTime + waited
    /\ beat = "select" => /\ ~due => lost["cp"] - 1 <= Begun + Since
                          /\ due => lost["cp"] - 1 <= Looked
    /\ beat \in {"ping", "touch"} /\ Live /\ ~due => lost["cp"] - 1 <= Judged + Since
    /\ beat = "ping" => lost["cp"] - 1 <= Judged + waited
    /\ beat = "touch" => lost["cp"] - 1 <= Judged + WriteTimeout + waited
    /\ beat = "closing" => lost["cp"] - 1 <= Looked + waited

\* What the node's interval has left to count.
Left == IF missed = 0 THEN 2 * Interval ELSE IF missed = 1 THEN Interval ELSE 0

NodeInv ==
  node = "open" =>
    /\ missed <= 2
    /\ lost["node"] > 0 =>
         lost["node"] - 1 + nodeTimer + Left <= Delay + 3 * Interval

\* How late a snapshot under way, or the row, can be after the loss.
RowInv ==
  lost["cp"] > 0 =>
    /\ saving >= 0 => lost["cp"] - 1 + saving <= Delay + SaveTime
    /\ seen = OfflineAfter \/ lost["cp"] - 1 <= seen + Refreshed

\* A healthy connection is up at both ends and no close is on its way.
NoClose(q) == \A i \in 1 .. Len(q) : q[i].t # "close"
HealthyInv ==
  /\ Healthy => /\ Live /\ beat \notin {"closing", "done"}
                /\ Attached /\ hears = Ends
  /\ lost["cp"] = 0 => NoClose(toCP)
  /\ lost["node"] = 0 => NoClose(toNode)

LossInv == /\ TypeInv /\ AgeInv /\ QuietInv /\ SilenceInv /\ WaitInv /\ WatchInv
           /\ NodeInv /\ RowInv /\ HealthyInv

\* The row of a healthy machine was refreshed by RecordHello, by the last Touch
\* or by a snapshot.
Young == Larger(Larger(HelloTime + Delay, SaveTime), TouchTime)
FreshInv ==
  Healthy /\ faults = 0 =>
    /\ Writing => waited <= Delay
    /\ cp = "welcome" => seen <= HelloTime + waited
    /\ beat = "select" => /\ ~due => seen <= Young + Since
                          /\ due => seen <= Young + Interval
    /\ beat = "ping" => seen <= Young + Interval + waited
    /\ beat = "touch" => seen <= Young + Interval + Delay + waited

\* A healthy connection's start: the welcome leaves as the ticker starts.
StartInv ==
  /\ cp = "hello" => silent <= waited
  /\ cp = "welcome" => silent <= HelloTime + waited
  /\ cp = "open" /\ node = "waiting" =>
       /\ Len(toNode) = 1 /\ toNode[1].t = "welcome" /\ toNode[1].age = Since
       /\ beat = "select" /\ ~due /\ silent <= HelloTime + Delay + Since

\* Its beat: the ping and Touch are done before the next tick, or as it falls.
BeatInv ==
  /\ Writing => waited <= Delay
  /\ due => cpTimer = Interval /\ beat \in {"select", "touch"}
  /\ beat = "ping" => waited = Since
  /\ beat = "touch" => /\ due => waited >= TouchTime
                       /\ ~due => Since <= Delay + waited

\* Its pongs, of which the node sends one per interval: the silence is that of
\* the node's interval, or one interval more while the last pong is on its way;
\* before the first one it is that of the handshake and the ticker.
Passed == Interval - nodeTimer
Answering(q, n) == \E i \in 1 .. Len(q) : q[i].t = "pong" /\ q[i].age >= n
PongInv ==
  node = "open" =>
    \/ silent <= Passed
    \/ silent <= Interval + Passed /\ Answering(toCP, Passed)
    \/ /\ Passed <= Since /\ Since <= Passed + Delay
       /\ silent <= HelloTime + Delay + Since
    \/ /\ silent <= HelloTime + Delay + Interval + Since
       /\ \/ Interval + Since <= Passed + Delay
          \/ Answering(toCP, Passed) /\ Passed <= Since /\ Since <= Passed + Delay

\* Its pings, one at a time on its way: the next one arrives before the node's
\* interval has counted three.
Counted == IF missed = 0 THEN 0 ELSE IF missed = 1 THEN Interval ELSE 2 * Interval
Coming == 2 * Delay + (IF beat = "ping" THEN -waited ELSE IF due THEN 0 ELSE cpTimer)
CountInv ==
  node = "open" =>
    /\ toNode = <<>> => Coming + Counted < nodeTimer + 2 * Interval
    /\ toNode # <<>> =>
         /\ Len(toNode) = 1 /\ toNode[1].t = "ping"
         /\ ~due /\ beat \in {"select", "touch"}
         /\ Since <= Delay + toNode[1].age
         /\ Delay - toNode[1].age + Counted < nodeTimer + 2 * Interval

PulseInv == Healthy => StartInv /\ BeatInv /\ PongInv /\ CountInv

-----------------------------------------------------------------------------
(* Frames in flight.                                                       *)

\* What the fields of a frame are, and what becomes of them in a unit of time.
LEMMA Fields ==
  /\ \A k \in Kinds : LET x == [t |-> k, age |-> 0] IN
       x \in Frame /\ x.t = k /\ x.age = 0
  /\ \A x \in Frame : /\ x.t \in Kinds /\ x.age \in Nat
                      /\ [x EXCEPT !.age = @ + 1] \in Frame
                      /\ [x EXCEPT !.age = @ + 1].t = x.t
                      /\ [x EXCEPT !.age = @ + 1].age = x.age + 1
BY DEF Frame

\* What the queue after its head is.
LEMMA TailFacts ==
  ASSUME NEW S, NEW q \in Seq(S), q # <<>>
  PROVE  /\ Tail(q) \in Seq(S) /\ Head(q) = q[1] /\ Len(Tail(q)) = Len(q) - 1
         /\ Len(q) \in Nat /\ Len(q) >= 1 /\ 1 \in 1 .. Len(q)
         /\ \A i \in 1 .. Len(q) - 1 : Tail(q)[i] = q[i + 1]
         /\ \A i \in 1 .. Len(Tail(q)) : i + 1 \in 1 .. Len(q) /\ Tail(q)[i] = q[i + 1]
OBVIOUS

\* Put adds a frame at the end, or nothing.
LEMMA PutFacts ==
  ASSUME NEW q \in Seq(Frame), NEW k \in Kinds, NEW to
  PROVE  /\ Put(q, to, k) \in Seq(Frame)
         /\ to \notin hears => Put(q, to, k) = q
         /\ to \in hears => /\ Len(Put(q, to, k)) = Len(q) + 1
                            /\ \A i \in 1 .. Len(q) : Put(q, to, k)[i] = q[i]
                            /\ Put(q, to, k)[Len(q) + 1].t = k
                            /\ Put(q, to, k)[Len(q) + 1].age = 0
                            /\ Put(q, to, k) # <<>>
<1>1. CASE to \notin hears
  BY <1>1 DEF Put
<1>2. CASE to \in hears
  <2> DEFINE x == [t |-> k, age |-> 0]
  <2>1. x \in Frame /\ x.t = k /\ x.age = 0
    BY Fields
  <2>2. Put(q, to, k) = Append(q, x)
    BY <1>2 DEF Put
  <2> HIDE DEF x
  <2>3. /\ Append(q, x) \in Seq(Frame) /\ Len(Append(q, x)) = Len(q) + 1
        /\ \A i \in 1 .. Len(q) : Append(q, x)[i] = q[i]
        /\ Append(q, x)[Len(q) + 1] = x /\ Append(q, x) # <<>>
    BY <2>1
  <2> QED BY <1>2, <2>1, <2>2, <2>3
<1> QED BY <1>1, <1>2

\* Older ages every frame by one.
LEMMA OlderFacts ==
  ASSUME NEW q \in Seq(Frame)
  PROVE  /\ Older(q) \in Seq(Frame) /\ Len(Older(q)) = Len(q)
         /\ Len(q) \in Nat /\ DOMAIN q = 1 .. Len(q)
         /\ \A i \in 1 .. Len(q) : /\ q[i].t \in Kinds /\ q[i].age \in Nat
                                   /\ Older(q)[i].t = q[i].t
                                   /\ Older(q)[i].age = q[i].age + 1
         /\ q = <<>> <=> Older(q) = <<>>
         /\ q = <<>> <=> Len(q) = 0
<1> DEFINE up(x) == [x EXCEPT !.age = @ + 1]
<1>1. Len(q) \in Nat /\ DOMAIN q = 1 .. Len(q) /\ \A i \in 1 .. Len(q) : q[i] \in Frame
  OBVIOUS
<1>2. \A x \in Frame : /\ up(x) \in Frame /\ up(x).t = x.t /\ up(x).age = x.age + 1
                       /\ x.t \in Kinds /\ x.age \in Nat
  BY Fields
<1>3. Older(q) = [i \in 1 .. Len(q) |-> up(q[i])]
  BY <1>1 DEF Older
<1>4. \A i \in 1 .. Len(q) : Older(q)[i] = up(q[i])
  BY <1>3
<1> HIDE DEF up
<1>5. Older(q) \in [1 .. Len(q) -> Frame]
  BY <1>1, <1>2, <1>3
<1>6. Older(q) \in Seq(Frame) /\ Len(Older(q)) = Len(q)
  BY <1>1, <1>5
<1>7. (q = <<>> <=> Len(q) = 0) /\ (Older(q) = <<>> <=> Len(Older(q)) = 0)
  BY <1>6
<1> QED BY <1>1, <1>2, <1>4, <1>6, <1>7

\* Bounds on the ages in a queue: after its head, with one frame more, later.
LEMMA TailBounds ==
  ASSUME NEW q \in Seq(Frame), q # <<>>, NEW n \in Int
  PROVE  /\ AtMost(q, n) => AtMost(Tail(q), n) /\ q[1].age <= n
         /\ AtLeast(q, n) => AtLeast(Tail(q), n) /\ q[1].age >= n
<1>1. /\ Len(q) \in Nat /\ Len(q) >= 1
      /\ \A i \in 1 .. Len(Tail(q)) : i + 1 \in 1 .. Len(q) /\ Tail(q)[i] = q[i + 1]
  BY TailFacts
<1>2. 1 \in 1 .. Len(q)
  BY <1>1
<1> QED BY <1>1, <1>2 DEF AtMost, AtLeast

LEMMA PutBounds ==
  ASSUME NEW q \in Seq(Frame), NEW k \in Kinds, NEW to
  PROVE  /\ \A n \in Nat : AtMost(q, n) => AtMost(Put(q, to, k), n)
         /\ to \notin hears =>
              \A n \in Int : AtLeast(q, n) => AtLeast(Put(q, to, k), n)
<1>1. CASE to \notin hears
  BY <1>1, PutFacts
<1>2. CASE to \in hears
  <2> DEFINE r == Put(q, to, k)
             m == Len(q)
  <2>1. Len(r) = m + 1 /\ (\A i \in 1 .. m : r[i] = q[i]) /\ r[m + 1].age = 0
    BY <1>2, PutFacts
  <2>2. m \in Nat
    OBVIOUS
  <2> HIDE DEF r
  <2>3. ASSUME NEW n \in Nat, AtMost(q, n), NEW i \in 1 .. Len(r)
        PROVE  r[i].age <= n
    <3>1. CASE i \in 1 .. m
      BY <2>1, <2>3, <3>1 DEF AtMost
    <3>2. CASE i = m + 1
      BY <2>1, <2>2, <3>2
    <3> HIDE DEF m
    <3> QED BY <2>1, <2>2, <3>1, <3>2
  <2> QED BY <1>2, <2>3 DEF AtMost, r
<1> QED BY <1>1, <1>2

LEMMA OlderBounds ==
  ASSUME NEW q \in Seq(Frame), NEW n \in Int
  PROVE  /\ AtMost(q, n) => AtMost(Older(q), n + 1)
         /\ AtLeast(q, n) => AtLeast(Older(q), n + 1)
BY OlderFacts DEF AtMost, AtLeast

\* An empty queue keeps any bound.
LEMMA EmptyBounds == \A n \in Int : AtMost(<<>>, n) /\ AtLeast(<<>>, n)
BY DEF AtMost, AtLeast

\* Ages are natural numbers.
LEMMA NoneIsNegative ==
  ASSUME NEW q \in Seq(Frame)
  PROVE  AtLeast(q, 0)
BY OlderFacts DEF AtLeast

\* Loses starts the clocks of some ends.
LEMMA LosesFacts ==
  ASSUME lost \in [Ends -> Nat], NEW E, Loses(E)
  PROVE  /\ lost' \in [Ends -> Nat]
         /\ \A e \in Ends : /\ e \in E /\ lost[e] = 0 => lost'[e] = 1
                            /\ ~(e \in E /\ lost[e] = 0) => lost'[e] = lost[e]
BY DEF Loses

-----------------------------------------------------------------------------
(* Types.                                                                  *)

\* What happens between two units of time: what ServeHTTP and heartbeat do,
\* what the control plane reads, what the node does, and what breaks.
Serves == \/ HelloRecorded \/ WelcomeWritten \/ HeartbeatCloses \/ HeartbeatPings
          \/ PingWritten \/ TouchReturns \/ WriteTimesOut \/ CloseReturns
Receives == DispatchPong \/ DispatchTelemetry \/ ReadClose \/ RecordTelemetry
Answers == OnWelcome \/ NodeInterval \/ OnMessage \/ OnClose \/ SendTelemetry
Breaks == (\E side \in Ends : Cut(side)) \/ NodeCrash \/ CPCrash
Happens == Serves \/ Receives \/ Answers \/ Breaks

LEMMA StepKinds == [Next]_vars => Happens \/ Tick \/ UNCHANGED vars
BY DEF Next, Happens, Serves, Receives, Answers, Breaks

\* What is sent is a frame, and what is left after a read is one.
LEMMA QueueTypes ==
  ASSUME TypeInv
  PROVE  /\ \A k \in Kinds : ToNode(k) => toNode' \in Seq(Frame)
         /\ \A k \in Kinds : ToCP(k) => toCP' \in Seq(Frame)
         /\ toNode # <<>> => Tail(toNode) \in Seq(Frame)
         /\ toCP # <<>> => Tail(toCP) \in Seq(Frame)
         /\ <<>> \in Seq(Frame)
         /\ Older(toNode) \in Seq(Frame) /\ Older(toCP) \in Seq(Frame)
<1>0. toNode \in Seq(Frame) /\ toCP \in Seq(Frame)
  BY DEF TypeInv
<1>1. \A k \in Kinds : /\ Put(toNode, "node", k) \in Seq(Frame)
                       /\ Put(toCP, "cp", k) \in Seq(Frame)
  BY <1>0, PutFacts
<1>2. /\ toNode # <<>> => Tail(toNode) \in Seq(Frame)
      /\ toCP # <<>> => Tail(toCP) \in Seq(Frame)
  BY <1>0, TailFacts
<1>3. Older(toNode) \in Seq(Frame) /\ Older(toCP) \in Seq(Frame)
  BY <1>0, OlderFacts
<1> QED BY <1>1, <1>2, <1>3 DEF ToNode, ToCP

\* The bounds are numbers, and which is the larger.
LEMMA BoundFacts ==
  /\ Judged \in Nat /\ Begun \in Nat /\ Looked \in Nat /\ Refreshed \in Nat
  /\ Judged = Delay + 2 * Interval + Grace
  /\ Begun >= Judged /\ Begun >= HelloTime + WriteTimeout
  /\ Begun = Judged \/ Begun = HelloTime + WriteTimeout
  /\ Looked >= Judged + WriteTimeout + TouchTime /\ Looked >= Begun + Interval
  /\ Looked = Judged + WriteTimeout + TouchTime \/ Looked = Begun + Interval
  /\ Refreshed >= Judged + WriteTimeout + TouchTime
  /\ Refreshed >= Delay + SaveTime /\ Refreshed >= HelloTime
<1> USE HeartbeatAssumption
<1>1. Judged \in Nat /\ Judged = Delay + 2 * Interval + Grace
  BY DEF Judged
<1>2. /\ Begun \in Nat /\ Begun >= Judged /\ Begun >= HelloTime + WriteTimeout
      /\ Begun = Judged \/ Begun = HelloTime + WriteTimeout
  BY <1>1 DEF Begun, Larger
<1>3. /\ Looked \in Nat
      /\ Looked >= Judged + WriteTimeout + TouchTime /\ Looked >= Begun + Interval
      /\ Looked = Judged + WriteTimeout + TouchTime \/ Looked = Begun + Interval
  BY <1>1, <1>2 DEF Looked, Larger
<1>4. /\ Refreshed \in Nat /\ Refreshed >= Judged + WriteTimeout + TouchTime
      /\ Refreshed >= Delay + SaveTime /\ Refreshed >= HelloTime
  BY <1>1 DEF Refreshed, Larger
<1> QED BY <1>1, <1>2, <1>3, <1>4

\* A query leaves the row, or makes it as old as the query at most.
LEMMA StampFacts ==
  ASSUME seen \in 0 .. OfflineAfter, faults \in 0 .. MaxFaults,
         NEW w \in Nat, Stamps(w)
  PROVE  /\ seen' \in 0 .. OfflineAfter /\ faults' \in 0 .. MaxFaults
         /\ faults' >= faults
         /\ seen' <= w \/ (seen' = seen /\ faults' = faults + 1)
BY HeartbeatAssumption DEF Stamps, Smaller

\* Init establishes the types.
LEMMA TypeInit == Init => TypeInv
<1> SUFFICES ASSUME Init PROVE TypeInv
  OBVIOUS
<1>1. toNode \in Seq(Frame) /\ toCP \in Seq(Frame)
  BY DEF Init
<1>b. due \in BOOLEAN
  BY DEF Init
<1>2. PlaceInv /\ lost \in [Ends -> Nat] /\ hears \in SUBSET Ends
  BY DEF Init, PlaceInv, Ends
<1>3. /\ cpTimer \in 1 .. Interval /\ nodeTimer \in 0 .. Interval
      /\ saving \in -1 .. SaveTime /\ faults \in 0 .. MaxFaults
  BY HeartbeatAssumption DEF Init
<1> QED BY <1>1, <1>b, <1>2, <1>3 DEF Init, TypeInv

\* Tick keeps the types: no countdown passes zero.
LEMMA TickTypes == TypeInv /\ Tick => TypeInv'
<1> SUFFICES ASSUME TypeInv, Tick PROVE TypeInv'
  OBVIOUS
<1> USE HeartbeatAssumption
<1>1. toNode' \in Seq(Frame) /\ toCP' \in Seq(Frame)
  BY QueueTypes DEF Tick
<1>2. cpTimer' \in 1 .. Interval /\ due' \in BOOLEAN
  <2>1. cpTimer' \in 1 .. Interval
    BY DEF Tick, TypeInv, TickerRuns
  <2>2. due' = due \/ due' = FALSE \/ due' = TRUE
    BY Zenon DEF Tick, TickerRuns
  <2> QED BY <2>1, <2>2 DEF TypeInv
<1>3. nodeTimer' \in 0 .. Interval
  BY DEF Tick, TypeInv, Due
<1>4. waited' \in Nat /\ silent' \in Nat /\ missed' \in Nat
  BY DEF Tick, TypeInv
<1>5. saving' \in -1 .. SaveTime /\ seen' \in 0 .. OfflineAfter
  BY DEF Tick, TypeInv, Smaller
<1>6. lost' \in [Ends -> Nat]
  <2>1. \A e \in Ends : Forgotten(e) \in Nat
    BY BoundFacts DEF Forgotten, OnlineFor, NoticeByNode
  <2>2. \A e \in Ends : Smaller(lost[e] + 1, Forgotten(e)) \in Nat
    BY <2>1 DEF TypeInv, Smaller
  <2> QED BY <2>2 DEF Tick
<1>7. PlaceInv'
  <2>1. Older(<<>>) = <<>>
    BY DEF Older
  <2> QED BY <2>1 DEF Tick, TypeInv, PlaceInv
<1>8. /\ cp' \in {"hello", "welcome", "open", "closed", "crashed"}
      /\ beat' \in {"off", "select", "ping", "touch", "closing", "done"}
      /\ node' \in {"waiting", "open", "closed", "crashed"}
      /\ hears' \in SUBSET Ends /\ faults' \in 0 .. MaxFaults
  BY DEF Tick, TypeInv
<1> QED BY <1>1, <1>2, <1>3, <1>4, <1>5, <1>6, <1>7, <1>8 DEF TypeInv

\* So does everything else.
LEMMA TypeStep == TypeInv /\ [Next]_vars => TypeInv'
<1> SUFFICES ASSUME TypeInv, [Next]_vars PROVE TypeInv'
  OBVIOUS
<1> USE HeartbeatAssumption DEF nodeVars, tickVars
<1>0. \A E : Loses(E) => lost' \in [Ends -> Nat]
  BY LosesFacts DEF TypeInv
<1>s. \A w \in Nat : Stamps(w) => seen' \in 0 .. OfflineAfter /\ faults' \in 0 .. MaxFaults
  BY StampFacts DEF TypeInv
<1>1. CASE HelloRecorded
  <2>1. seen' \in 0 .. OfflineAfter /\ faults' \in 0 .. MaxFaults
    BY <1>1, <1>s DEF HelloRecorded, TypeInv
  <2> QED BY <1>1, <2>1 DEF HelloRecorded, TypeInv, PlaceInv
<1>2. CASE WelcomeWritten
  <2>1. toNode' \in Seq(Frame)
    BY <1>2, QueueTypes DEF WelcomeWritten, Kinds
  <2>2. PlaceInv' /\ due' \in BOOLEAN
    BY <1>2 DEF WelcomeWritten, TypeInv, PlaceInv
  <2> QED BY <1>2, <2>1, <2>2 DEF WelcomeWritten, TypeInv
<1>3. CASE HeartbeatCloses
  <2>1. toNode' \in Seq(Frame)
    BY <1>3, QueueTypes DEF HeartbeatCloses, Kinds
  <2> QED BY <1>0, <1>3, <2>1 DEF HeartbeatCloses, Ticks, TypeInv, PlaceInv
<1>4. CASE HeartbeatPings
  BY <1>4 DEF HeartbeatPings, Ticks, TypeInv, PlaceInv
<1>5. CASE PingWritten
  <2>1. toNode' \in Seq(Frame)
    BY <1>5, QueueTypes DEF PingWritten, Kinds
  <2> QED BY <1>5, <2>1 DEF PingWritten, TypeInv, PlaceInv
<1>6. CASE TouchReturns
  <2>1. seen' \in 0 .. OfflineAfter /\ faults' \in 0 .. MaxFaults
    BY <1>6, <1>s DEF TouchReturns, TypeInv
  <2> QED BY <1>6, <2>1 DEF TouchReturns, TypeInv, PlaceInv
<1>7. CASE WriteTimesOut \/ CloseReturns
  BY SMTT(30), <1>0, <1>7 DEF WriteTimesOut, CloseReturns, TypeInv, PlaceInv
<1>8. CASE DispatchPong \/ DispatchTelemetry \/ ReadClose
  <2>1. cp = "open" /\ toCP # <<>> /\ toCP' = Tail(toCP) /\ toCP' \in Seq(Frame)
    BY <1>8, QueueTypes DEF DispatchPong, DispatchTelemetry, ReadClose, Reads
  <2>2. lost' \in [Ends -> Nat]
    BY <1>0, <1>8 DEF DispatchPong, DispatchTelemetry, ReadClose, TypeInv
  <2>3. PlaceInv'
    BY <1>8, <2>1 DEF DispatchPong, DispatchTelemetry, ReadClose, Reads, TypeInv,
                      PlaceInv
  <2>4. due' = due /\ cpTimer' = cpTimer
    BY <1>8 DEF DispatchPong, DispatchTelemetry, ReadClose, Reads
  <2>5. /\ cp' \in {"open", "closed"} /\ saving' \in -1 .. SaveTime
        /\ beat' \in {beat, "done"} /\ silent' \in Nat /\ waited' \in Nat
        /\ UNCHANGED <<node, nodeTimer, missed, hears, toNode, seen, faults>>
    BY SMTT(30), <1>8, <2>1
       DEF DispatchPong, DispatchTelemetry, ReadClose, Reads, TypeInv
  <2> QED BY <2>1, <2>2, <2>3, <2>4, <2>5 DEF TypeInv
<1>9. CASE RecordTelemetry
  <2>1. seen' \in 0 .. OfflineAfter
    BY <1>9 DEF RecordTelemetry, TypeInv, Smaller
  <2> QED BY <1>9, <2>1 DEF RecordTelemetry, TypeInv, PlaceInv
<1>10. CASE OnWelcome
  <2>1. toNode # <<>> /\ toNode' \in Seq(Frame) /\ toCP' \in Seq(Frame)
    BY <1>10, QueueTypes DEF OnWelcome, Kinds
  <2> QED BY <1>10, <2>1 DEF OnWelcome, TypeInv, PlaceInv
<1>11. CASE NodeInterval \/ SendTelemetry
  <2>1. node = "open" /\ node' # "waiting" /\ toCP' \in Seq(Frame)
    BY <1>11, QueueTypes DEF NodeInterval, SendTelemetry, Kinds
  <2>2. lost' \in [Ends -> Nat]
    BY <1>0, <1>11 DEF NodeInterval, SendTelemetry, TypeInv
  <2>3. PlaceInv'
    BY <1>11, <2>1 DEF NodeInterval, SendTelemetry, TypeInv, PlaceInv
  <2>4. /\ UNCHANGED <<cp, beat, hears, toNode, cpTimer, due, waited, silent,
                        saving, seen, faults>>
        /\ node' \in {"open", "closed"} /\ missed' \in Nat
        /\ nodeTimer' \in 0 .. Interval
    BY SMTT(30), <1>11, <2>1 DEF NodeInterval, SendTelemetry, TypeInv
  <2> QED BY <2>1, <2>2, <2>3, <2>4 DEF TypeInv
<1>12. CASE OnMessage \/ OnClose
  <2>1. /\ node = "open" /\ node' # "waiting"
        /\ toNode' \in Seq(Frame) /\ toCP' \in Seq(Frame)
    BY <1>12, QueueTypes DEF OnMessage, OnClose, TypeInv, Kinds
  <2>2. lost' \in [Ends -> Nat]
    BY <1>0, <1>12 DEF OnMessage, OnClose, TypeInv
  <2>3. PlaceInv'
    BY <1>12, <2>1 DEF OnMessage, OnClose, TypeInv, PlaceInv
  <2>4. /\ UNCHANGED <<cp, beat, hears, nodeTimer, cpTimer, due, waited, silent,
                        saving, seen, faults>>
        /\ node' \in {"open", "closed"} /\ missed' \in Nat
    BY <1>12, <2>1 DEF OnMessage, OnClose, TypeInv
  <2> QED BY <2>1, <2>2, <2>3, <2>4 DEF TypeInv
<1>13. ASSUME NEW side \in Ends, Cut(side) PROVE TypeInv'
  BY <1>0, <1>13, QueueTypes DEF Cut, TypeInv, PlaceInv
<1>14. CASE NodeCrash
  BY <1>0, <1>14, QueueTypes DEF NodeCrash, Attached, TypeInv, PlaceInv
<1>15. CASE CPCrash
  BY <1>0, <1>15, QueueTypes DEF CPCrash, TypeInv, PlaceInv
<1>16. CASE Tick
  BY <1>16, TickTypes
<1>17. CASE UNCHANGED vars
  BY <1>17 DEF vars, TypeInv, PlaceInv
<1> QED
  BY <1>1, <1>2, <1>3, <1>4, <1>5, <1>6, <1>7, <1>8, <1>9, <1>10, <1>11, <1>12,
     <1>13, <1>14, <1>15, <1>16, <1>17 DEF Next

-----------------------------------------------------------------------------
(* What happens between two units of time, in general.                     *)

\* An end that has stopped speaking or reading never starts again, and none
\* starts to hear again; what the control plane reads, it reads when open.
LEMMA EndsOnlyClose ==
  ASSUME TypeInv, Happens
  PROVE  /\ hears' \subseteq hears
         /\ Live' => Live
         /\ Speaks' => Speaks
         /\ Attached' => Attached
         /\ cp' = "open" => cp = "open" \/ WelcomeWritten
<1> USE DEF Live, Speaks, Attached
<1>1. CASE Serves
  <2>1. UNCHANGED <<hears, node>>
    BY <1>1 DEF Serves, HelloRecorded, WelcomeWritten, HeartbeatCloses,
       HeartbeatPings, PingWritten, TouchReturns, WriteTimesOut, CloseReturns,
       nodeVars
  <2>2. /\ Live' => Live
        /\ Speaks' => Speaks
        /\ cp' = "open" => cp = "open" \/ WelcomeWritten
    BY <1>1 DEF Serves, HelloRecorded, WelcomeWritten, HeartbeatCloses,
       HeartbeatPings, PingWritten, TouchReturns, WriteTimesOut, CloseReturns,
       Ticks, TypeInv, PlaceInv
  <2> QED BY <2>1, <2>2
<1>2. CASE Receives
  BY <1>2 DEF Receives, DispatchPong, DispatchTelemetry, ReadClose, Reads,
     RecordTelemetry, nodeVars
<1>3. CASE Answers
  BY <1>3 DEF Answers, OnWelcome, NodeInterval, OnMessage, OnClose, SendTelemetry,
     nodeVars
<1>4. CASE Breaks
  BY <1>4 DEF Breaks, Cut, NodeCrash, CPCrash, nodeVars
<1> QED BY <1>1, <1>2, <1>3, <1>4 DEF Happens

\* The clock of an end starts when it loses the other and only time moves it on.
LEMMA ClocksStart ==
  ASSUME TypeInv, Happens, NEW e \in Ends
  PROVE  /\ \/ lost'[e] = lost[e]
            \/ lost[e] = 0 /\ lost'[e] = 1
         /\ lost' # lost =>
              \/ HeartbeatCloses \/ WriteTimesOut \/ CloseReturns \/ ReadClose
              \/ NodeInterval \/ OnClose \/ Breaks
<1>0. lost \in [Ends -> Nat]
  BY DEF TypeInv
<1>1. \A E : Loses(E) => lost'[e] = lost[e] \/ (lost[e] = 0 /\ lost'[e] = 1)
  BY <1>0, LosesFacts
<1>2. CASE \/ HelloRecorded \/ WelcomeWritten \/ HeartbeatPings \/ PingWritten
           \/ TouchReturns \/ DispatchPong \/ DispatchTelemetry
           \/ RecordTelemetry \/ OnWelcome \/ OnMessage \/ SendTelemetry
  <2>1. UNCHANGED lost
    BY <1>2 DEF HelloRecorded, WelcomeWritten, HeartbeatPings, PingWritten,
                TouchReturns, DispatchPong, DispatchTelemetry, Reads,
                RecordTelemetry, OnWelcome, OnMessage, SendTelemetry
  <2> QED BY <2>1
<1>3. CASE \/ HeartbeatCloses \/ WriteTimesOut \/ CloseReturns \/ ReadClose
           \/ NodeInterval \/ OnClose \/ Breaks
  <2>1. UNCHANGED lost \/ \E E : Loses(E)
    BY <1>3 DEF HeartbeatCloses, WriteTimesOut, CloseReturns, ReadClose,
                NodeInterval, OnClose, Breaks, Cut, NodeCrash, CPCrash
  <2> QED BY <1>1, <1>3, <2>1
<1> QED BY <1>2, <1>3 DEF Happens, Serves, Receives, Answers

\* What becomes of the two queues.
LEMMA QueueSteps ==
  ASSUME TypeInv, Happens
  PROVE  /\ \/ toCP' = toCP
            \/ toCP # <<>> /\ toCP' = Tail(toCP)
            \/ Attached /\ \E k \in Kinds : toCP' = Put(toCP, "cp", k)
            \/ toCP' = <<>>
         /\ \/ toNode' = toNode
            \/ toNode # <<>> /\ toNode' = Tail(toNode)
            \/ Speaks /\ \E k \in Kinds : toNode' = Put(toNode, "node", k)
            \/ toNode' = <<>>
<1> USE DEF Kinds
<1>1. CASE WelcomeWritten
  BY <1>1 DEF WelcomeWritten, ToNode, Speaks, Live, TypeInv, PlaceInv
<1>2. CASE HeartbeatCloses
  BY <1>2 DEF HeartbeatCloses, ToNode, Ticks, Speaks, Live
<1>3. CASE PingWritten
  BY <1>3 DEF PingWritten, ToNode, Speaks, Live, TypeInv, PlaceInv
<1>4. CASE \/ HelloRecorded \/ HeartbeatPings \/ TouchReturns \/ WriteTimesOut
           \/ CloseReturns \/ RecordTelemetry
  BY <1>4 DEF HelloRecorded, HeartbeatPings, TouchReturns, WriteTimesOut,
              CloseReturns, RecordTelemetry
<1>5. CASE DispatchPong \/ DispatchTelemetry \/ ReadClose
  BY <1>5 DEF DispatchPong, DispatchTelemetry, ReadClose, Reads
<1>6. CASE OnWelcome
  BY <1>6 DEF OnWelcome, ToCP, Attached
<1>7. CASE NodeInterval
  BY <1>7 DEF NodeInterval, ToCP, Attached
<1>8. CASE OnMessage
  BY <1>8 DEF OnMessage, ToCP, Attached
<1>9. CASE OnClose
  BY <1>9 DEF OnClose
<1>10. CASE SendTelemetry
  BY <1>10 DEF SendTelemetry, ToCP, Attached
<1>11. CASE Breaks
  BY <1>11 DEF Breaks, Cut, NodeCrash, CPCrash
<1> QED
  BY <1>1, <1>2, <1>3, <1>4, <1>5, <1>6, <1>7, <1>8, <1>9, <1>10, <1>11
     DEF Happens, Serves, Receives, Answers

\* No frame gets older, and where nothing arrives any more none is new.
LEMMA AgesKept ==
  ASSUME TypeInv, Happens
  PROVE  /\ \A n \in Nat : /\ AtMost(toCP, n) => AtMost(toCP', n)
                           /\ AtMost(toNode, n) => AtMost(toNode', n)
         /\ "cp" \notin hears \/ ~Attached =>
              \A n \in Int : AtLeast(toCP, n) => AtLeast(toCP', n)
         /\ "node" \notin hears \/ ~Speaks =>
              \A n \in Int : AtLeast(toNode, n) => AtLeast(toNode', n)
<1>0. toNode \in Seq(Frame) /\ toCP \in Seq(Frame)
  BY DEF TypeInv
<1>1. /\ \A n \in Nat : AtMost(toCP, n) => AtMost(toCP', n)
      /\ "cp" \notin hears \/ ~Attached =>
           \A n \in Int : AtLeast(toCP, n) => AtLeast(toCP', n)
  <2>1. CASE toCP # <<>> /\ toCP' = Tail(toCP)
    BY <1>0, <2>1, TailBounds
  <2>2. CASE Attached /\ \E k \in Kinds : toCP' = Put(toCP, "cp", k)
    BY <1>0, <2>2, PutBounds
  <2>3. CASE toCP' = toCP \/ toCP' = <<>>
    BY <2>3, EmptyBounds
  <2> QED BY <2>1, <2>2, <2>3, QueueSteps
<1>2. /\ \A n \in Nat : AtMost(toNode, n) => AtMost(toNode', n)
      /\ "node" \notin hears \/ ~Speaks =>
           \A n \in Int : AtLeast(toNode, n) => AtLeast(toNode', n)
  <2>1. CASE toNode # <<>> /\ toNode' = Tail(toNode)
    BY <1>0, <2>1, TailBounds
  <2>2. CASE Speaks /\ \E k \in Kinds : toNode' = Put(toNode, "node", k)
    BY <1>0, <2>2, PutBounds
  <2>3. CASE toNode' = toNode \/ toNode' = <<>>
    BY <2>3, EmptyBounds
  <2> QED BY <2>1, <2>2, <2>3, QueueSteps
<1> QED BY <1>1, <1>2

\* An end's clock starts with a step after which nothing is sent to it.
LEMMA LossIsSilence ==
  ASSUME TypeInv, Happens
  PROVE  /\ lost["cp"] = 0 /\ lost'["cp"] = 1 =>
              "cp" \notin hears' \/ ~Attached' \/ ~Live'
         /\ lost["node"] = 0 /\ lost'["node"] = 1 =>
              "node" \notin hears' \/ ~Speaks'
<1>0. lost \in [Ends -> Nat] /\ "cp" \in Ends /\ "node" \in Ends /\ "cp" # "node"
  BY DEF TypeInv, Ends
<1>1. \A E : Loses(E) => /\ "cp" \notin E => lost'["cp"] = lost["cp"]
                         /\ "node" \notin E => lost'["node"] = lost["node"]
  BY <1>0, LosesFacts
<1>2. CASE HeartbeatCloses \/ WriteTimesOut \/ CloseReturns \/ ReadClose
  BY <1>0, <1>1, <1>2 DEF HeartbeatCloses, WriteTimesOut, CloseReturns, ReadClose,
                          Speaks, Live
<1>3. CASE NodeInterval \/ OnClose \/ NodeCrash
  BY <1>0, <1>1, <1>3 DEF NodeInterval, OnClose, NodeCrash, Attached
<1>4. ASSUME NEW side \in Ends, Cut(side)
      PROVE  /\ lost["cp"] = 0 /\ lost'["cp"] = 1 => "cp" \notin hears'
             /\ lost["node"] = 0 /\ lost'["node"] = 1 => "node" \notin hears'
  BY <1>0, <1>1, <1>4 DEF Cut, Ends
<1>5. CASE CPCrash
  BY <1>5 DEF CPCrash, Speaks, Live
<1>6. CASE UNCHANGED lost
  BY <1>6
<1> QED BY <1>0, <1>2, <1>3, <1>4, <1>5, <1>6, ClocksStart DEF Breaks

\* What a unit of time does to the queues, none of whose frames is due.
LEMMA TickQueues ==
  ASSUME TypeInv, Tick
  PROVE  /\ cp = "open" => toCP' = Older(toCP) /\ AtMost(toCP, Delay - 1)
         /\ cp # "open" => toCP' = <<>>
         /\ Attached => toNode' = Older(toNode) /\ AtMost(toNode, Delay - 1)
         /\ ~Attached => toNode' = <<>>
<1>0. toNode \in Seq(Frame) /\ toCP \in Seq(Frame) /\ Delay \in Nat
  BY HeartbeatAssumption DEF TypeInv
<1>1. /\ DOMAIN toCP = 1 .. Len(toCP) /\ DOMAIN toNode = 1 .. Len(toNode)
      /\ \A i \in 1 .. Len(toCP) : toCP[i].age \in Nat
      /\ \A i \in 1 .. Len(toNode) : toNode[i].age \in Nat
  BY <1>0, OlderFacts
<1>2. cp = "open" => AtMost(toCP, Delay - 1)
  <2>1. cp = "open" => \A i \in 1 .. Len(toCP) : ~(toCP[i].age >= Delay)
    BY <1>1 DEF Tick, Due, Late
  <2> QED BY <1>0, <1>1, <2>1 DEF AtMost
<1>3. Attached => AtMost(toNode, Delay - 1)
  <2>1. Attached => \A i \in 1 .. Len(toNode) : ~(toNode[i].age >= Delay)
    BY <1>1 DEF Tick, Due, Late
  <2> QED BY <1>0, <1>1, <2>1 DEF AtMost
<1> QED BY <1>2, <1>3 DEF Tick

\* And to the timers, none of which is at its end.
LEMMA TickTimers ==
  ASSUME TypeInv, Tick
  PROVE  /\ UNCHANGED <<cp, beat, node, hears, faults>>
         /\ Live' = Live /\ Attached' = Attached /\ Speaks' = Speaks
         /\ beat = "select" => ~due
         /\ beat \in {"select", "ping", "touch"} =>
              \/ cpTimer = 1 /\ cpTimer' = Interval /\ due'
              \/ cpTimer > 1 /\ cpTimer' = cpTimer - 1 /\ (due' <=> due)
         /\ node = "open" => /\ nodeTimer > 0 /\ nodeTimer' = nodeTimer - 1
                             /\ missed' = missed
         /\ cp \in {"hello", "welcome"} \/ beat \in {"ping", "touch", "closing"} =>
              waited' = waited + 1
         /\ Live => silent' = silent + 1
         /\ \/ saving = -1 /\ saving' = -1
            \/ saving > 0 /\ saving' = saving - 1
         /\ seen' = OfflineAfter \/ seen' = seen + 1
         /\ \A e \in Ends : /\ lost[e] = 0 => lost'[e] = 0
                            /\ lost[e] > 0 => lost'[e] > 0 /\ lost'[e] <= lost[e] + 1
         /\ Healthy' <=> Healthy
<1> USE HeartbeatAssumption
<1>1. beat = "select" => ~due
  BY DEF Tick, Due, Ticks, TypeInv, PlaceInv
<1>2. beat \in {"select", "ping", "touch"} =>
        \/ cpTimer = 1 /\ cpTimer' = Interval /\ due'
        \/ cpTimer > 1 /\ cpTimer' = cpTimer - 1 /\ (due' <=> due)
  <2>1. cpTimer = 1 \/ cpTimer > 1
    BY DEF TypeInv
  <2>2. beat \in {"select", "ping", "touch"} =>
          \/ cpTimer = 1 /\ cpTimer' = Interval /\ due'
          \/ cpTimer # 1 /\ cpTimer' = cpTimer - 1 /\ (due' <=> due)
    BY Zenon DEF Tick, TickerRuns
  <2> QED BY <2>1, <2>2
<1>3. node = "open" => /\ nodeTimer > 0 /\ nodeTimer' = nodeTimer - 1
                       /\ missed' = missed
  BY DEF Tick, Due, TypeInv
<1>4. \/ saving = -1 /\ saving' = -1
      \/ saving > 0 /\ saving' = saving - 1
  BY DEF Tick, Due, TypeInv
<1>5. seen' = OfflineAfter \/ seen' = seen + 1
  BY DEF Tick, Smaller
<1>6. ASSUME NEW e \in Ends
      PROVE  /\ lost[e] = 0 => lost'[e] = 0
             /\ lost[e] > 0 => lost'[e] > 0 /\ lost'[e] <= lost[e] + 1
  <2>1. lost[e] \in Nat
    BY DEF TypeInv
  <2>2. Forgotten(e) > 0 /\ Forgotten(e) \in Int
    BY BoundFacts DEF Forgotten, OnlineFor, NoticeByNode
  <2>3. lost'[e] = IF lost[e] = 0 THEN 0 ELSE Smaller(lost[e] + 1, Forgotten(e))
    BY DEF Tick
  <2> QED BY <2>1, <2>2, <2>3 DEF Smaller
<1>7. /\ cp \in {"hello", "welcome"} \/ beat \in {"ping", "touch", "closing"} =>
           waited' = waited + 1
      /\ Live => silent' = silent + 1
      /\ UNCHANGED <<cp, beat, node, hears, faults>>
  BY DEF Tick
<1>8. Live' = Live /\ Attached' = Attached /\ Speaks' = Speaks
  BY <1>7 DEF Live, Attached, Speaks
<1>9. Healthy' <=> Healthy
  <2>1. \A e \in Ends : lost[e] \in Nat
    BY DEF TypeInv
  <2>2. \A e \in Ends : lost'[e] = 0 <=> lost[e] = 0
    BY <1>6, <2>1
  <2> QED BY <2>2 DEF Healthy
<1> QED BY <1>1, <1>2, <1>3, <1>4, <1>5, <1>6, <1>7, <1>8, <1>9

-----------------------------------------------------------------------------
(* Frames and silence.                                                     *)

\* Nothing an end still reads has been on its way for longer than Delay.
LEMMA AgeStep == TypeInv /\ AgeInv /\ [Next]_vars => AgeInv'
<1> SUFFICES ASSUME TypeInv, AgeInv, [Next]_vars PROVE AgeInv'
  OBVIOUS
<1>0. toNode \in Seq(Frame) /\ toCP \in Seq(Frame) /\ Delay \in Nat
  BY HeartbeatAssumption DEF TypeInv
<1>1. CASE Happens
  <2>1. /\ AtMost(toCP, Delay) => AtMost(toCP', Delay)
        /\ AtMost(toNode, Delay) => AtMost(toNode', Delay)
    BY <1>0, <1>1, AgesKept
  <2>2. WelcomeWritten => AtMost(toCP, Delay)
    BY <1>0, EmptyBounds DEF WelcomeWritten, TypeInv, PlaceInv
  <2> QED BY <1>1, <2>1, <2>2, EndsOnlyClose DEF AgeInv
<1>2. CASE Tick
  <2>1. /\ cp = "open" => AtMost(toCP', Delay - 1 + 1)
        /\ Attached => AtMost(toNode', Delay - 1 + 1)
    BY <1>0, <1>2, TickQueues, OlderBounds
  <2>2. Delay - 1 + 1 = Delay
    BY <1>0
  <2>3. cp' = cp /\ Attached' = Attached
    BY <1>2, TickTimers
  <2> QED BY <2>1, <2>2, <2>3 DEF AgeInv
<1>3. CASE UNCHANGED vars
  BY <1>3 DEF vars, AgeInv, Attached
<1> QED BY <1>1, <1>2, <1>3, StepKinds

\* Nothing is sent to an end that has lost the other.
LEMMA QuietStep == TypeInv /\ QuietInv /\ [Next]_vars => QuietInv'
<1> SUFFICES ASSUME TypeInv, QuietInv, [Next]_vars PROVE QuietInv'
  OBVIOUS
<1>0. /\ toNode \in Seq(Frame) /\ toCP \in Seq(Frame)
      /\ toNode' \in Seq(Frame) /\ toCP' \in Seq(Frame)
      /\ lost["cp"] \in Nat /\ lost["node"] \in Nat
      /\ lost'["cp"] \in Nat /\ lost'["node"] \in Nat
      /\ "cp" \in Ends /\ "node" \in Ends
  BY TypeStep DEF TypeInv, Ends
<1> DEFINE CPQuiet == Live /\ lost["cp"] > 0 =>
                        /\ "cp" \notin hears \/ ~Attached
                        /\ AtLeast(toCP, lost["cp"] - 1)
           NodeQuiet == Attached /\ lost["node"] > 0 =>
                          /\ "node" \notin hears \/ ~Speaks
                          /\ AtLeast(toNode, lost["node"] - 1)
<1>1. CPQuiet /\ NodeQuiet
  BY DEF QuietInv
<1>2. CASE Happens
  <2>0. /\ hears' \subseteq hears /\ (Live' => Live) /\ (Speaks' => Speaks)
        /\ Attached' => Attached
    BY <1>2, EndsOnlyClose
  <2>1. CPQuiet'
    <3>1. CASE lost["cp"] = 0 /\ lost'["cp"] = 1
      BY <1>0, <1>2, <3>1, NoneIsNegative, LossIsSilence
    <3>2. CASE lost'["cp"] = lost["cp"] /\ lost["cp"] > 0 /\ Live'
      <4>1. lost["cp"] - 1 \in Int
        BY <1>0
      <4>2. AtLeast(toCP', lost["cp"] - 1)
        BY <1>1, <1>2, <2>0, <3>2, <4>1, AgesKept
      <4> QED BY <1>1, <2>0, <3>2, <4>2
    <3>3. CASE lost'["cp"] = 0 \/ ~Live'
      BY <3>3
    <3> QED BY <1>0, <1>2, <3>1, <3>2, <3>3, ClocksStart
  <2>2. NodeQuiet'
    <3>1. CASE lost["node"] = 0 /\ lost'["node"] = 1
      BY <1>0, <1>2, <3>1, NoneIsNegative, LossIsSilence
    <3>2. CASE lost'["node"] = lost["node"] /\ lost["node"] > 0 /\ Attached'
      <4>1. lost["node"] - 1 \in Int
        BY <1>0
      <4>2. AtLeast(toNode', lost["node"] - 1)
        BY <1>1, <1>2, <2>0, <3>2, <4>1, AgesKept
      <4> QED BY <1>1, <2>0, <3>2, <4>2
    <3>3. CASE lost'["node"] = 0 \/ ~Attached'
      BY <3>3
    <3> QED BY <1>0, <1>2, <3>1, <3>2, <3>3, ClocksStart
  <2> QED BY <2>1, <2>2 DEF QuietInv
<1>3. CASE Tick
  <2>1. \A e \in Ends : /\ lost[e] = 0 => lost'[e] = 0
                        /\ lost[e] > 0 => lost'[e] > 0 /\ lost'[e] <= lost[e] + 1
    BY <1>3, TickTimers
  <2>2. hears' = hears /\ Live' = Live /\ Speaks' = Speaks /\ Attached' = Attached
    BY <1>3, TickTimers
  <2>3. Live /\ lost'["cp"] > 0 => AtLeast(toCP', lost'["cp"] - 1)
    <3>1. Live /\ lost["cp"] > 0 => AtLeast(Older(toCP), lost["cp"] - 1 + 1)
      BY <1>0, <1>1, OlderBounds
    <3>2. toCP' = Older(toCP) \/ toCP' = <<>>
      BY <1>3, TickQueues
    <3>3. Live /\ lost["cp"] > 0 => AtLeast(toCP', lost["cp"] - 1 + 1)
      BY <1>0, <3>1, <3>2, EmptyBounds
    <3>4. \A i \in 1 .. Len(toCP') : toCP'[i].age \in Nat
      BY <1>0, OlderFacts
    <3>5. ASSUME Live, lost'["cp"] > 0
          PROVE  /\ AtLeast(toCP', lost["cp"] - 1 + 1) /\ lost["cp"] \in Nat
                 /\ lost'["cp"] - 1 <= lost["cp"] - 1 + 1 /\ lost'["cp"] \in Nat
      BY <1>0, <2>1, <3>3, <3>5
    <3> QED BY SMTT(30), <3>4, <3>5 DEF AtLeast
  <2>4. Attached /\ lost'["node"] > 0 => AtLeast(toNode', lost'["node"] - 1)
    <3>1. Attached /\ lost["node"] > 0 => AtLeast(Older(toNode), lost["node"] - 1 + 1)
      BY <1>0, <1>1, OlderBounds
    <3>2. toNode' = Older(toNode) \/ toNode' = <<>>
      BY <1>3, TickQueues
    <3>3. Attached /\ lost["node"] > 0 => AtLeast(toNode', lost["node"] - 1 + 1)
      BY <1>0, <3>1, <3>2, EmptyBounds
    <3>4. \A i \in 1 .. Len(toNode') : toNode'[i].age \in Nat
      BY <1>0, OlderFacts
    <3> QED BY SMTT(30), <1>0, <2>1, <3>3, <3>4 DEF AtLeast
  <2>5. CPQuiet' /\ NodeQuiet'
    BY <1>0, <1>1, <2>1, <2>2, <2>3, <2>4
  <2> QED BY <2>5 DEF QuietInv
<1>4. CASE UNCHANGED vars
  BY <1>4 DEF vars, QuietInv, Live, Speaks, Attached
<1> QED BY <1>2, <1>3, <1>4, StepKinds

\* The age of what an end reads: no more than Delay, and no less than the time
\* since it lost the other.
LEMMA ReadAges ==
  ASSUME TypeInv, AgeInv, QuietInv
  PROVE  /\ cp = "open" /\ toCP # <<>> /\ lost["cp"] > 0 => lost["cp"] - 1 <= Delay
         /\ Attached /\ toNode # <<>> /\ lost["node"] > 0 => lost["node"] - 1 <= Delay
<1>0. /\ toNode \in Seq(Frame) /\ toCP \in Seq(Frame) /\ Delay \in Int
      /\ lost["cp"] \in Nat /\ lost["node"] \in Nat
      /\ lost["cp"] - 1 \in Int /\ lost["node"] - 1 \in Int
  BY HeartbeatAssumption DEF TypeInv, Ends
<1>1. ASSUME cp = "open", toCP # <<>>, lost["cp"] > 0 PROVE lost["cp"] - 1 <= Delay
  <2>1. AtMost(toCP, Delay) /\ AtLeast(toCP, lost["cp"] - 1)
    BY <1>1 DEF AgeInv, QuietInv, Live
  <2>2. toCP[1].age <= Delay /\ toCP[1].age >= lost["cp"] - 1
    BY <1>0, <1>1, <2>1, TailBounds
  <2>3. toCP[1].age \in Nat
    <3>1. 1 \in 1 .. Len(toCP)
      BY <1>0, <1>1, TailFacts
    <3> QED BY <1>0, <3>1, OlderFacts
  <2> QED BY <1>0, <2>2, <2>3
<1>2. ASSUME Attached, toNode # <<>>, lost["node"] > 0
      PROVE  lost["node"] - 1 <= Delay
  <2>1. AtMost(toNode, Delay) /\ AtLeast(toNode, lost["node"] - 1)
    BY <1>2 DEF AgeInv, QuietInv
  <2>2. toNode[1].age <= Delay /\ toNode[1].age >= lost["node"] - 1
    BY <1>0, <1>2, <2>1, TailBounds
  <2>3. toNode[1].age \in Nat
    <3>1. 1 \in 1 .. Len(toNode)
      BY <1>0, <1>2, TailFacts
    <3> QED BY <1>0, <3>1, OlderFacts
  <2> QED BY <1>0, <2>2, <2>3
<1> QED BY <1>1, <1>2

\* What the control plane has measured is at most Delay short of the truth.
LEMMA SilenceStep ==
  TypeInv /\ AgeInv /\ QuietInv /\ SilenceInv /\ [Next]_vars => SilenceInv'
<1> SUFFICES ASSUME TypeInv, AgeInv, QuietInv, SilenceInv, [Next]_vars
             PROVE  SilenceInv'
  OBVIOUS
<1>0. /\ lost["cp"] \in Nat /\ lost'["cp"] \in Nat /\ "cp" \in Ends
      /\ silent \in Nat /\ silent' \in Nat /\ Delay \in Nat
  BY TypeStep, HeartbeatAssumption DEF TypeInv, Ends
<1>1. CASE DispatchPong
  <2>1. silent' = 0 /\ cp = "open" /\ toCP # <<>> /\ UNCHANGED <<cp, lost>>
    BY <1>1 DEF DispatchPong, Reads
  <2>2. lost["cp"] > 0 => lost["cp"] - 1 <= 0 + Delay
    BY <1>0, <2>1, ReadAges
  <2> QED BY <2>1, <2>2 DEF SilenceInv
<1>2. CASE Happens /\ ~DispatchPong
  <2>1. silent' = silent
    BY <1>2 DEF Happens, Serves, Receives, Answers, Breaks, HelloRecorded,
       WelcomeWritten, HeartbeatCloses, HeartbeatPings, PingWritten, TouchReturns,
       WriteTimesOut, CloseReturns, DispatchTelemetry, ReadClose, RecordTelemetry,
       OnWelcome, NodeInterval, OnMessage, OnClose, SendTelemetry, Cut, NodeCrash,
       CPCrash
  <2>2. /\ Live' => Live
        /\ lost'["cp"] = lost["cp"] \/ lost'["cp"] = 1
    BY <1>0, <1>2, EndsOnlyClose, ClocksStart
  <2> QED BY <1>0, <2>1, <2>2 DEF SilenceInv
<1>3. CASE Tick
  <2>1. /\ lost["cp"] = 0 => lost'["cp"] = 0
        /\ lost["cp"] > 0 => lost'["cp"] > 0 /\ lost'["cp"] <= lost["cp"] + 1
        /\ Live' = Live /\ (Live => silent' = silent + 1)
    BY <1>0, <1>3, TickTimers
  <2> QED BY <1>0, <2>1 DEF SilenceInv
<1>4. CASE UNCHANGED vars
  BY <1>4 DEF vars, SilenceInv, Live
<1> QED BY <1>1, <1>2, <1>3, <1>4, StepKinds

-----------------------------------------------------------------------------
(* The control plane's deadlines.                                          *)

\* What each action that is not the control plane's leaves alone.
LEMMA OthersKeep ==
  ASSUME Answers \/ Breaks \/ DispatchPong \/ DispatchTelemetry \/ RecordTelemetry
  PROVE  \/ UNCHANGED <<cp, beat, cpTimer, due, waited>>
         \/ cp' = "crashed" /\ beat' = "done"
BY DEF Answers, Breaks, OnWelcome, NodeInterval, OnMessage, OnClose, SendTelemetry,
   Cut, NodeCrash, CPCrash, DispatchPong, DispatchTelemetry, Reads,
   RecordTelemetry, tickVars

\* No wait passes its deadline.
LEMMA WaitStep == TypeInv /\ WaitInv /\ [Next]_vars => WaitInv'
<1> SUFFICES ASSUME TypeInv, WaitInv, [Next]_vars PROVE WaitInv'
  OBVIOUS
<1> USE HeartbeatAssumption DEF Writing
<1>0. waited \in Nat /\ PlaceInv
  BY DEF TypeInv
<1>1. CASE Serves
  BY <1>0, <1>1 DEF Serves, HelloRecorded, WelcomeWritten, HeartbeatCloses,
     HeartbeatPings, PingWritten, TouchReturns, WriteTimesOut, CloseReturns, Ticks,
     WaitInv, PlaceInv
<1>2. CASE ReadClose
  BY <1>0, <1>2 DEF ReadClose, WaitInv
<1>3. CASE Answers \/ Breaks \/ DispatchPong \/ DispatchTelemetry \/ RecordTelemetry
  BY <1>3, OthersKeep DEF WaitInv
<1>4. CASE Tick
  <2>1. /\ UNCHANGED <<cp, beat>>
        /\ cp \in {"hello", "welcome"} \/ beat \in {"ping", "touch", "closing"} =>
             waited' = waited + 1
    BY <1>4, TickTimers
  <2>2. /\ cp = "hello" => waited < HelloTime
        /\ beat = "touch" => waited < TouchTime
        /\ beat = "closing" => waited < CloseTime
    BY <1>0, <1>4 DEF Tick, Due, Overdue
  <2>3. Writing => waited < WriteTimeout
    <3>1. Smaller(Delay, WriteTimeout) <= WriteTimeout
          /\ Smaller(Delay, WriteTimeout) \in Nat
      BY DEF Smaller
    <3>2. \/ Writing => ~(waited >= WriteTimeout)
          \/ Writing => ~(waited >= Smaller(Delay, WriteTimeout))
      BY <1>4 DEF Tick, Due, Overdue
    <3> QED BY <1>0, <3>1, <3>2
  <2> QED BY <1>0, <2>1, <2>2, <2>3 DEF WaitInv
<1>5. CASE UNCHANGED vars
  BY <1>5 DEF vars, WaitInv
<1> QED BY <1>1, <1>2, <1>3, <1>4, <1>5, StepKinds DEF Happens, Receives

\* Nor does the loss get further than the place of ServeHTTP and heartbeat says.
LEMMA WatchStep ==
  TypeInv /\ SilenceInv /\ WaitInv /\ WatchInv /\ [Next]_vars => WatchInv'
<1> SUFFICES ASSUME TypeInv, SilenceInv, WaitInv, WatchInv, [Next]_vars,
                    lost'["cp"] > 0
             PROVE  WatchInv'
  BY DEF WatchInv
<1> USE HeartbeatAssumption DEF Since, Writing
<1>0. /\ lost["cp"] \in Nat /\ lost'["cp"] \in Nat /\ "cp" \in Ends
      /\ silent \in Nat /\ cpTimer \in 1 .. Interval /\ cpTimer' \in 1 .. Interval
      /\ waited \in Nat /\ waited' \in Nat /\ PlaceInv /\ PlaceInv'
      /\ due' \in BOOLEAN
  BY TypeStep DEF TypeInv, Ends
<1>b. /\ Judged \in Nat /\ Begun \in Nat /\ Looked \in Nat
      /\ Judged = Delay + 2 * Interval + Grace
      /\ Begun >= Judged /\ Begun >= HelloTime + WriteTimeout
      /\ Looked >= Judged + WriteTimeout + TouchTime /\ Looked >= Begun + Interval
  BY BoundFacts
<1>s. Live /\ lost["cp"] > 0 => lost["cp"] - 1 <= silent + Delay
  BY DEF SilenceInv
<1>1. CASE HelloRecorded
  <2>1. /\ cp = "hello" /\ cp' = "welcome" /\ beat = "off" /\ beat' = "off"
        /\ waited' = 0 /\ lost' = lost /\ waited <= HelloTime
    BY <1>0, <1>1 DEF HelloRecorded, PlaceInv, WaitInv
  <2> QED BY <1>0, <2>1 DEF WatchInv
<1>2. CASE WelcomeWritten
  <2>1. /\ cp = "welcome" /\ cp' = "open" /\ beat' = "select" /\ due' = FALSE
        /\ cpTimer' = Interval /\ lost' = lost /\ waited <= WriteTimeout
    BY <1>2 DEF WelcomeWritten, WaitInv
  <2> QED BY <1>0, <1>b, <2>1 DEF WatchInv
<1>3. CASE HeartbeatCloses
  <2>1. /\ cp = "open" /\ cp' = "open" /\ beat = "select" /\ due
        /\ beat' = "closing" /\ waited' = 0
        /\ lost'["cp"] = lost["cp"] \/ lost'["cp"] = 1
    BY <1>0, <1>3, ClocksStart DEF HeartbeatCloses, Ticks, Happens, Serves
  <2> QED BY <1>0, <1>b, <2>1 DEF WatchInv
<1>4. CASE HeartbeatPings
  <2>1. /\ Live /\ cp' = cp /\ cp = "open" /\ beat' = "ping" /\ waited' = 0
        /\ lost' = lost /\ silent <= 2 * Interval + Grace
    BY <1>0, <1>4 DEF HeartbeatPings, Ticks, SilentTooLong, Live
  <2>2. lost'["cp"] - 1 <= Judged
    BY <1>0, <1>b, <1>s, <2>1
  <2> QED BY <1>0, <1>b, <2>1, <2>2 DEF WatchInv
<1>5. CASE PingWritten
  <2>1. /\ beat = "ping" /\ beat' = "touch" /\ cp' = cp /\ waited' = 0
        /\ UNCHANGED <<lost, cpTimer, due>> /\ waited <= WriteTimeout
    BY <1>5 DEF PingWritten, WaitInv, tickVars
  <2>2. cp = "open"
    BY <1>0, <2>1 DEF PlaceInv, TypeInv
  <2> QED BY <1>0, <1>b, <2>1, <2>2 DEF WatchInv, Live
<1>6. CASE TouchReturns
  <2>1. /\ beat = "touch" /\ cp' = cp /\ waited <= TouchTime
        /\ UNCHANGED <<lost, cpTimer, due>>
        /\ \/ cp = "open" /\ beat' = "select"
           \/ beat' = "done"
    BY <1>6 DEF TouchReturns, WaitInv, tickVars
  <2>2. cp \notin {"hello", "welcome"}
    BY <1>0, <2>1 DEF PlaceInv
  <2> QED BY <1>0, <1>b, <2>1, <2>2 DEF WatchInv, Live
<1>7. CASE WriteTimesOut \/ CloseReturns
  BY <1>7 DEF WriteTimesOut, CloseReturns, WatchInv
<1>8. CASE ReadClose
  <2>1. /\ cp' = "closed" /\ UNCHANGED <<cpTimer, due>>
        /\ \/ beat = "touch" /\ beat' = "touch" /\ waited' = waited
           \/ beat' = "done"
        /\ lost'["cp"] = lost["cp"] \/ lost'["cp"] = 1
    BY <1>0, <1>8, ClocksStart DEF ReadClose, Reads, Happens, Receives, tickVars
  <2> QED BY <1>0, <1>b, <2>1 DEF WatchInv, Live
<1>9. CASE Answers \/ Breaks \/ DispatchPong \/ DispatchTelemetry \/ RecordTelemetry
  <2>1. lost'["cp"] = lost["cp"] \/ lost'["cp"] = 1
    BY <1>0, <1>9, ClocksStart DEF Happens, Receives
  <2>2. CASE UNCHANGED <<cp, beat, cpTimer, due, waited>>
    <3>1. Live' = Live
      BY <2>2 DEF Live
    <3> QED BY <1>0, <1>b, <2>1, <2>2, <3>1 DEF WatchInv
  <2>3. CASE cp' = "crashed" /\ beat' = "done"
    BY <2>3 DEF WatchInv
  <2> QED BY <1>9, <2>2, <2>3, OthersKeep
<1>10. CASE Tick
  <2>1. /\ lost["cp"] > 0 /\ lost'["cp"] <= lost["cp"] + 1
        /\ UNCHANGED <<cp, beat>> /\ Live' = Live
    BY <1>0, <1>10, TickTimers
  <2>2. /\ beat = "select" => ~due
        /\ cp \in {"hello", "welcome"} \/ beat \in {"ping", "touch", "closing"} =>
             waited' = waited + 1
        /\ beat \in {"select", "ping", "touch"} =>
             \/ cpTimer = 1 /\ cpTimer' = Interval /\ due'
             \/ cpTimer > 1 /\ cpTimer' = cpTimer - 1 /\ (due' <=> due)
    BY <1>10, TickTimers
  <2>3. /\ cp' = "hello" => lost'["cp"] - 1 <= waited'
        /\ cp' = "welcome" => lost'["cp"] - 1 <= HelloTime + waited'
        /\ beat' = "ping" => lost'["cp"] - 1 <= Judged + waited'
        /\ beat' = "touch" => lost'["cp"] - 1 <= Judged + WriteTimeout + waited'
        /\ beat' = "closing" => lost'["cp"] - 1 <= Looked + waited'
    BY <1>0, <1>b, <2>1, <2>2 DEF WatchInv
  <2>4. /\ beat' = "select" => /\ ~due' => lost'["cp"] - 1 <= Begun + Since'
                               /\ due' => lost'["cp"] - 1 <= Looked
        /\ beat' \in {"ping", "touch"} /\ Live' /\ ~due' =>
             lost'["cp"] - 1 <= Judged + Since'
    BY <1>0, <1>b, <2>1, <2>2 DEF WatchInv
  <2> QED BY <2>3, <2>4 DEF WatchInv
<1>11. CASE UNCHANGED vars
  BY <1>11 DEF vars, WatchInv, Live
<1> QED
  BY <1>1, <1>2, <1>3, <1>4, <1>5, <1>6, <1>7, <1>8, <1>9, <1>10, <1>11, StepKinds
     DEF Happens, Serves, Receives

-----------------------------------------------------------------------------
(* The node's count.                                                       *)

\* The time since the loss and what the count has left add up.
LEMMA NodeStep == TypeInv /\ AgeInv /\ QuietInv /\ NodeInv /\ [Next]_vars => NodeInv'
<1> SUFFICES ASSUME TypeInv, AgeInv, QuietInv, NodeInv, [Next]_vars PROVE NodeInv'
  OBVIOUS
<1> USE HeartbeatAssumption
<1>0. /\ lost["node"] \in Nat /\ lost'["node"] \in Nat /\ "node" \in Ends
      /\ nodeTimer \in 0 .. Interval /\ nodeTimer' \in 0 .. Interval /\ missed \in Nat
  BY TypeStep DEF TypeInv, Ends
<1>1. CASE NodeInterval
  <2>1. lost'["node"] = lost["node"]
    BY <1>0, <1>1, LosesFacts DEF NodeInterval, TypeInv
  <2>2. /\ node = "open" /\ nodeTimer = 0 /\ nodeTimer' = Interval
        /\ missed' = missed + 1
        /\ missed' > 2 => node' # "open"
    BY <1>1 DEF NodeInterval
  <2>3. CASE node' # "open"
    BY <2>3 DEF NodeInv
  <2>4. CASE missed' <= 2
    <3>1. \/ missed = 0 /\ Left = 2 * Interval /\ Left' = Interval
          \/ missed = 1 /\ Left = Interval /\ Left' = 0
      BY <1>0, <2>2, <2>4 DEF Left
    <3>2. lost["node"] > 0 => lost["node"] - 1 + 0 + Left <= Delay + 3 * Interval
      BY <2>2 DEF NodeInv
    <3>3. lost["node"] > 0 => lost["node"] - 1 + Interval + Left' <= Delay + 3 * Interval
      BY <1>0, <3>1, <3>2
    <3> QED BY <2>1, <2>2, <2>4, <3>3 DEF NodeInv
  <2> QED BY <1>0, <2>2, <2>3, <2>4
<1>2. CASE OnMessage \/ OnWelcome
  <2>1. /\ Attached /\ toNode # <<>> /\ missed' = 0 /\ lost' = lost
    BY <1>2 DEF OnMessage, OnWelcome, Attached
  <2>2. lost["node"] > 0 => lost["node"] - 1 <= Delay
    BY <2>1, ReadAges
  <2>3. Left' = 2 * Interval
    BY <2>1 DEF Left
  <2>4. lost["node"] > 0 =>
          lost["node"] - 1 + nodeTimer' + 2 * Interval <= Delay + 3 * Interval
    BY <1>0, <2>2
  <2> QED BY <2>1, <2>3, <2>4 DEF NodeInv
<1>3. CASE OnClose \/ NodeCrash
  BY <1>3 DEF OnClose, NodeCrash, NodeInv
<1>4. CASE Serves \/ Receives \/ SendTelemetry \/ (\E side \in Ends : Cut(side))
           \/ CPCrash
  <2>1. UNCHANGED <<node, nodeTimer, missed>>
    BY <1>4 DEF Serves, HelloRecorded, WelcomeWritten, HeartbeatCloses,
       HeartbeatPings, PingWritten, TouchReturns, WriteTimesOut, CloseReturns,
       Receives, DispatchPong, DispatchTelemetry, ReadClose, Reads,
       RecordTelemetry, SendTelemetry, Cut, CPCrash, nodeVars
  <2>2. \/ lost'["node"] = lost["node"]
        \/ lost["node"] = 0 /\ lost'["node"] = 1
    BY <1>0, <1>4, ClocksStart DEF Happens, Answers, Breaks
  <2>3. Left' = Left /\ Left \in Nat /\ Left <= 2 * Interval
    BY <2>1 DEF Left
  <2>4. CASE lost'["node"] = lost["node"]
    BY <2>1, <2>3, <2>4 DEF NodeInv
  <2>5. CASE lost'["node"] = 1
    <3>1. 1 - 1 + nodeTimer + Left <= Delay + 3 * Interval
      BY <1>0, <2>3
    <3> QED BY <2>1, <2>3, <2>5, <3>1 DEF NodeInv
  <2> QED BY <2>2, <2>4, <2>5
<1>5. CASE Tick
  <2>1. /\ lost["node"] = 0 => lost'["node"] = 0
        /\ lost["node"] > 0 => lost'["node"] > 0 /\ lost'["node"] <= lost["node"] + 1
    BY <1>0, <1>5, TickTimers
  <2>2. /\ node' = node
        /\ node = "open" => nodeTimer' = nodeTimer - 1 /\ missed' = missed
    BY <1>5, TickTimers
  <2>3. node = "open" => Left' = Left /\ Left \in Nat
    BY <2>2 DEF Left
  <2>4. ASSUME node = "open", lost'["node"] > 0
        PROVE  lost'["node"] - 1 + nodeTimer' + Left <= Delay + 3 * Interval
    <3>1. /\ lost["node"] > 0 /\ lost'["node"] <= lost["node"] + 1
          /\ nodeTimer' = nodeTimer - 1
      BY <1>0, <2>1, <2>2, <2>4
    <3>2. lost["node"] - 1 + nodeTimer + Left <= Delay + 3 * Interval
      BY <2>4, <3>1 DEF NodeInv
    <3> QED BY <1>0, <2>3, <2>4, <3>1, <3>2
  <2> QED BY <2>2, <2>3, <2>4 DEF NodeInv
<1>6. CASE UNCHANGED vars
  BY <1>6 DEF vars, NodeInv, Left
<1> QED
  BY <1>1, <1>2, <1>3, <1>4, <1>5, <1>6, StepKinds DEF Happens, Answers, Breaks

-----------------------------------------------------------------------------
(* The row.                                                                *)

\* What refreshes last_seen_at after the loss: RecordHello and Touch, which come
\* after a check that came before, and a snapshot that was sent before.
LEMMA RowStep ==
  /\ TypeInv /\ AgeInv /\ QuietInv /\ WaitInv /\ WatchInv /\ RowInv
  /\ [Next]_vars
  => RowInv'
<1> SUFFICES ASSUME TypeInv, AgeInv, QuietInv, WaitInv, WatchInv, RowInv,
                    [Next]_vars
             PROVE  RowInv'
  OBVIOUS
<1> USE HeartbeatAssumption
<1>0. /\ lost["cp"] \in Nat /\ lost'["cp"] \in Nat /\ "cp" \in Ends
      /\ waited \in Nat /\ saving \in -1 .. SaveTime /\ saving' \in -1 .. SaveTime
      /\ seen \in 0 .. OfflineAfter /\ seen' \in 0 .. OfflineAfter
      /\ faults \in 0 .. MaxFaults
  BY TypeStep DEF TypeInv, Ends
<1>b. /\ Refreshed \in Nat /\ Refreshed >= Judged + WriteTimeout + TouchTime
      /\ Refreshed >= Delay + SaveTime /\ Refreshed >= HelloTime /\ Judged \in Nat
  BY BoundFacts
<1>1. CASE HelloRecorded \/ TouchReturns
  <2>1. UNCHANGED <<lost, saving>> /\ Stamps(waited)
    BY <1>1 DEF HelloRecorded, TouchReturns
  <2>2. seen' = seen \/ seen' >= 0
    BY <1>0
  <2>3. lost["cp"] > 0 => lost["cp"] - 1 <= Refreshed
    <3>1. CASE HelloRecorded
      BY <1>0, <1>b, <3>1 DEF HelloRecorded, WatchInv, WaitInv
    <3>2. CASE TouchReturns
      BY <1>0, <1>b, <3>2 DEF TouchReturns, WatchInv, WaitInv
    <3> QED BY <1>1, <3>1, <3>2
  <2> QED BY <1>0, <1>b, <2>1, <2>3 DEF RowInv
<1>2. CASE DispatchTelemetry
  <2>1. /\ cp = "open" /\ toCP # <<>> /\ saving' = SaveTime /\ UNCHANGED <<lost, seen>>
    BY <1>2 DEF DispatchTelemetry, Reads
  <2>2. lost["cp"] > 0 => lost["cp"] - 1 + SaveTime <= Delay + SaveTime
    BY <1>0, <2>1, ReadAges
  <2> QED BY <2>1, <2>2 DEF RowInv
<1>3. CASE RecordTelemetry
  <2>1. saving >= 0 /\ saving' = -1 /\ UNCHANGED lost
    BY <1>3 DEF RecordTelemetry
  <2>2. lost["cp"] > 0 => lost["cp"] - 1 <= 0 + Refreshed
    BY <1>0, <1>b, <2>1 DEF RowInv
  <2> QED BY <1>0, <1>b, <2>1, <2>2 DEF RowInv
<1>4. CASE CPCrash
  <2>1. saving' = -1 /\ seen' = seen
    BY <1>4 DEF CPCrash
  <2>2. \/ lost'["cp"] = lost["cp"]
        \/ lost["cp"] = 0 /\ lost'["cp"] = 1
    BY <1>0, <1>4, ClocksStart DEF Happens, Breaks
  <2> QED BY <1>0, <1>b, <2>1, <2>2 DEF RowInv
<1>5. CASE \/ WelcomeWritten \/ HeartbeatCloses \/ HeartbeatPings \/ PingWritten
           \/ WriteTimesOut \/ CloseReturns \/ DispatchPong \/ ReadClose \/ Answers
           \/ (\E side \in Ends : Cut(side)) \/ NodeCrash
  <2>1. UNCHANGED <<saving, seen>>
    BY <1>5 DEF WelcomeWritten, HeartbeatCloses, HeartbeatPings, PingWritten,
       WriteTimesOut, CloseReturns, DispatchPong, ReadClose, Reads, Answers,
       OnWelcome, NodeInterval, OnMessage, OnClose, SendTelemetry, Cut, NodeCrash
  <2>2. \/ lost'["cp"] = lost["cp"]
        \/ lost["cp"] = 0 /\ lost'["cp"] = 1
    BY <1>0, <1>5, ClocksStart DEF Happens, Serves, Receives, Breaks
  <2> QED BY <1>0, <1>b, <2>1, <2>2 DEF RowInv
<1>6. CASE Tick
  <2>1. /\ lost["cp"] = 0 => lost'["cp"] = 0
        /\ lost["cp"] > 0 => lost'["cp"] > 0 /\ lost'["cp"] <= lost["cp"] + 1
    BY <1>0, <1>6, TickTimers
  <2>2. /\ \/ saving = -1 /\ saving' = -1
           \/ saving > 0 /\ saving' = saving - 1
        /\ seen' = OfflineAfter \/ seen' = seen + 1
    BY <1>6, TickTimers
  <2>3. ASSUME lost'["cp"] > 0, saving' >= 0
        PROVE  lost'["cp"] - 1 + saving' <= Delay + SaveTime
    BY <1>0, <2>1, <2>2, <2>3 DEF RowInv
  <2>4. ASSUME lost'["cp"] > 0, seen' # OfflineAfter
        PROVE  lost'["cp"] - 1 <= seen' + Refreshed
    BY <1>0, <1>b, <2>1, <2>2, <2>4 DEF RowInv
  <2> QED BY <2>3, <2>4 DEF RowInv
<1>7. CASE UNCHANGED vars
  BY <1>7 DEF vars, RowInv
<1> QED
  BY <1>1, <1>2, <1>3, <1>4, <1>5, <1>6, <1>7, StepKinds
     DEF Happens, Serves, Receives, Breaks

-----------------------------------------------------------------------------
(* Healthy connections.                                                    *)

\* What a healthy connection does: none of these starts a clock.
Goes == \/ HelloRecorded \/ WelcomeWritten \/ HeartbeatPings \/ PingWritten
        \/ TouchReturns \/ DispatchPong \/ DispatchTelemetry \/ RecordTelemetry
        \/ OnWelcome \/ (NodeInterval /\ missed < 2) \/ OnMessage
        \/ SendTelemetry

\* A healthy step starts from a healthy connection.
LEMMA StaysHealthy ==
  ASSUME TypeInv, Next, Healthy'
  PROVE  Healthy /\ lost["cp"] = 0 /\ lost["node"] = 0 /\ (Goes \/ Tick)
<1>0. /\ lost \in [Ends -> Nat] /\ "cp" \in Ends /\ "node" \in Ends
      /\ missed \in Nat
  BY DEF TypeInv, Ends
<1>1. \A e \in Ends : lost'[e] = 0
  BY DEF Healthy
<1>2. \A E : Loses(E) => \A e \in E \cap Ends : lost'[e] # 0
  BY <1>0, LosesFacts
<1>3. /\ ~HeartbeatCloses /\ ~WriteTimesOut /\ ~CloseReturns /\ ~ReadClose
      /\ ~OnClose /\ ~NodeCrash /\ ~CPCrash
  BY <1>0, <1>1, <1>2 DEF HeartbeatCloses, WriteTimesOut, CloseReturns, ReadClose,
                          OnClose, NodeCrash, CPCrash
<1>4. ~(\E side \in Ends : Cut(side))
  BY <1>0, <1>1, <1>2 DEF Cut
<1>5. NodeInterval => missed < 2
  <2>1. NodeInterval => ~(missed' > 2) /\ missed' = missed + 1
    BY <1>0, <1>1, <1>2 DEF NodeInterval
  <2> QED BY <1>0, <2>1
<1>6. Healthy
  <2>1. ASSUME Happens, NEW e \in Ends PROVE lost[e] = 0
    BY <1>0, <1>1, <2>1, ClocksStart
  <2>2. Tick => Healthy
    BY TickTimers
  <2>3. Happens \/ Tick
    BY DEF Next, Happens, Serves, Receives, Answers, Breaks
  <2> QED BY <2>1, <2>2, <2>3 DEF Healthy
<1>7. lost["cp"] = 0 /\ lost["node"] = 0
  BY <1>0, <1>6 DEF Healthy
<1>8. Goes \/ Tick
  BY <1>3, <1>4, <1>5 DEF Next, Goes
<1> QED BY <1>6, <1>7, <1>8

\* A frame that is not a close adds none.
LEMMA NoCloseKept ==
  ASSUME NEW q \in Seq(Frame), NoClose(q), NEW to
  PROVE  /\ \A k \in Kinds \ {"close"} : NoClose(Put(q, to, k))
         /\ q # <<>> => NoClose(Tail(q))
         /\ NoClose(Older(q)) /\ NoClose(<<>>)
<1>1. ASSUME NEW k \in Kinds, k # "close" PROVE NoClose(Put(q, to, k))
  <2>1. CASE to \notin hears
    BY <2>1, PutFacts
  <2>2. CASE to \in hears
    <3> DEFINE r == Put(q, to, k)
    <3>1. /\ Len(r) = Len(q) + 1 /\ Len(q) \in Nat /\ r[Len(q) + 1].t = k
          /\ \A j \in 1 .. Len(q) : r[j] = q[j]
      BY <2>2, PutFacts
    <3> HIDE DEF r
    <3>2. \A j \in 1 .. Len(r) : j \in 1 .. Len(q) \/ j = Len(q) + 1
      BY <3>1
    <3>3. \A j \in 1 .. Len(r) : r[j].t # "close"
      BY <1>1, <3>1, <3>2 DEF NoClose
    <3> QED BY <3>3 DEF NoClose, r
  <2> QED BY <2>1, <2>2
<1>2. q # <<>> => NoClose(Tail(q))
  BY TailFacts DEF NoClose
<1>3. NoClose(Older(q)) /\ NoClose(<<>>)
  BY OlderFacts DEF NoClose
<1> QED BY <1>1, <1>2, <1>3

\* What a step that starts no end's clock sends is not a close.
LEMMA SendsNoClose ==
  ASSUME TypeInv, HealthyInv, Happens
  PROVE  /\ lost'["cp"] = 0 => NoClose(toCP')
         /\ lost'["node"] = 0 => NoClose(toNode')
<1>0. /\ toNode \in Seq(Frame) /\ toCP \in Seq(Frame)
      /\ lost \in [Ends -> Nat] /\ "cp" \in Ends /\ "node" \in Ends
  BY DEF TypeInv, Ends
<1>1. /\ lost'["cp"] = 0 => lost["cp"] = 0
      /\ lost'["node"] = 0 => lost["node"] = 0
  BY <1>0, ClocksStart
<1>2. ASSUME lost'["cp"] = 0 PROVE NoClose(toCP')
  <2>1. NoClose(toCP)
    BY <1>1, <1>2 DEF HealthyInv
  <2>2. ~Loses({"cp"})
    BY <1>0, <1>2, LosesFacts
  <2>3. \A k \in Kinds \ {"close"} : ToCP(k) => NoClose(toCP')
    BY <1>0, <2>1, NoCloseKept DEF ToCP
  <2>4. (toCP # <<>> => NoClose(Tail(toCP))) /\ NoClose(<<>>)
    BY <1>0, <2>1, NoCloseKept
  <2>5. CASE Serves \/ RecordTelemetry \/ OnClose \/ Breaks
    <3>1. toCP' = toCP \/ toCP' = <<>>
      BY <2>5 DEF Serves, HelloRecorded, WelcomeWritten, HeartbeatCloses,
         HeartbeatPings, PingWritten, TouchReturns, WriteTimesOut, CloseReturns,
         RecordTelemetry, OnClose, Breaks, Cut, NodeCrash, CPCrash
    <3> QED BY <2>1, <2>4, <3>1
  <2>6. CASE DispatchPong \/ DispatchTelemetry \/ ReadClose
    BY <2>4, <2>6 DEF DispatchPong, DispatchTelemetry, ReadClose, Reads
  <2>7. CASE OnWelcome \/ OnMessage \/ SendTelemetry
    BY <2>3, <2>7 DEF OnWelcome, OnMessage, SendTelemetry, Kinds
  <2>8. CASE NodeInterval
    BY <2>2, <2>3, <2>8 DEF NodeInterval, Kinds
  <2> QED BY <2>5, <2>6, <2>7, <2>8 DEF Happens, Receives, Answers
<1>3. ASSUME lost'["node"] = 0 PROVE NoClose(toNode')
  <2>1. NoClose(toNode)
    BY <1>1, <1>3 DEF HealthyInv
  <2>2. ~HeartbeatCloses
    BY <1>0, <1>3, LosesFacts DEF HeartbeatCloses
  <2>3. \A k \in Kinds \ {"close"} : ToNode(k) => NoClose(toNode')
    BY <1>0, <2>1, NoCloseKept DEF ToNode
  <2>4. (toNode # <<>> => NoClose(Tail(toNode))) /\ NoClose(<<>>)
    BY <1>0, <2>1, NoCloseKept
  <2>5. CASE \/ HelloRecorded \/ HeartbeatPings \/ TouchReturns \/ WriteTimesOut
             \/ CloseReturns \/ Receives \/ NodeInterval \/ SendTelemetry \/ Breaks
    <3>1. toNode' = toNode \/ toNode' = <<>>
      BY <2>5 DEF HelloRecorded, HeartbeatPings, TouchReturns, WriteTimesOut,
         CloseReturns, Receives, DispatchPong, DispatchTelemetry, ReadClose, Reads,
         RecordTelemetry, NodeInterval, SendTelemetry, Breaks, Cut, NodeCrash,
         CPCrash
    <3> QED BY <2>1, <2>4, <3>1
  <2>6. CASE WelcomeWritten \/ PingWritten
    BY <2>3, <2>6 DEF WelcomeWritten, PingWritten, Kinds
  <2>7. CASE OnWelcome \/ OnMessage \/ OnClose
    BY <2>4, <2>7 DEF OnWelcome, OnMessage, OnClose
  <2> QED BY <2>2, <2>5, <2>6, <2>7 DEF Happens, Serves, Answers
<1> QED BY <1>2, <1>3

\* A healthy connection stays up, and closes are sent with the loss.
LEMMA HealthyStep == TypeInv /\ HealthyInv /\ [Next]_vars => HealthyInv'
<1> SUFFICES ASSUME TypeInv, HealthyInv, [Next]_vars PROVE HealthyInv'
  OBVIOUS
<1>0. /\ toNode \in Seq(Frame) /\ toCP \in Seq(Frame) /\ PlaceInv
      /\ lost \in [Ends -> Nat] /\ "cp" \in Ends /\ "node" \in Ends
      /\ lost["cp"] \in Nat /\ lost["node"] \in Nat /\ missed \in Nat
  BY DEF TypeInv, Ends
<1>1. CASE Next
  <2>1. ASSUME Healthy'
        PROVE  /\ Live' /\ beat' \notin {"closing", "done"}
               /\ Attached' /\ hears' = Ends
    <3>1. /\ Live /\ beat \notin {"closing", "done"} /\ Attached /\ hears = Ends
          /\ Goes \/ Tick
      BY <1>1, <2>1, StaysHealthy DEF HealthyInv
    <3>2. CASE HelloRecorded \/ WelcomeWritten \/ HeartbeatPings \/ PingWritten
      BY <3>1, <3>2 DEF HelloRecorded, WelcomeWritten, HeartbeatPings, PingWritten,
                        nodeVars, Live, Attached
    <3>3. CASE TouchReturns
      BY <1>0, <3>1, <3>3 DEF TouchReturns, nodeVars, Live, Attached, PlaceInv
    <3>4. CASE DispatchPong \/ DispatchTelemetry \/ RecordTelemetry
      BY <3>1, <3>4 DEF DispatchPong, DispatchTelemetry, Reads, RecordTelemetry,
                        nodeVars, Live, Attached
    <3>5. CASE OnWelcome \/ OnMessage \/ SendTelemetry
      BY <3>1, <3>5 DEF OnWelcome, OnMessage, SendTelemetry, nodeVars, Live, Attached
    <3>6. CASE NodeInterval /\ missed < 2
      <4>1. ~(missed' > 2)
        BY <1>0, <3>6 DEF NodeInterval
      <4> QED BY <3>1, <3>6, <4>1 DEF NodeInterval, Live, Attached
    <3>7. CASE Tick
      BY <3>1, <3>7, TickTimers
    <3> QED BY <3>1, <3>2, <3>3, <3>4, <3>5, <3>6, <3>7 DEF Goes
  <2>2. /\ lost'["cp"] = 0 => NoClose(toCP')
        /\ lost'["node"] = 0 => NoClose(toNode')
    <3>1. CASE Happens
      BY <3>1, SendsNoClose
    <3>2. CASE Tick
      <4>1. /\ lost'["cp"] = 0 => lost["cp"] = 0
            /\ lost'["node"] = 0 => lost["node"] = 0
        BY <1>0, <3>2, TickTimers
      <4>2. /\ toCP' = Older(toCP) \/ toCP' = <<>>
            /\ toNode' = Older(toNode) \/ toNode' = <<>>
        BY <3>2, TickQueues
      <4> QED BY <1>0, <4>1, <4>2, NoCloseKept DEF HealthyInv
    <3> QED BY <1>1, <3>1, <3>2 DEF Next, Happens, Serves, Receives, Answers, Breaks
  <2> QED BY <2>1, <2>2 DEF HealthyInv
<1>2. CASE UNCHANGED vars
  BY <1>2 DEF vars, HealthyInv, Healthy, Live, Attached
<1> QED BY <1>1, <1>2

-----------------------------------------------------------------------------
(* What holds for every period, grace, deadline and delay.                 *)

LEMMA LossInit == Init => LossInv
<1> SUFFICES ASSUME Init PROVE LossInv
  OBVIOUS
<1>1. TypeInv
  BY TypeInit
<1>2. AgeInv
  BY EmptyBounds, HeartbeatAssumption DEF Init, AgeInv
<1>3. HealthyInv
  BY DEF Init, HealthyInv, NoClose, Live, Attached, Ends
<1>4. QuietInv /\ RowInv /\ SilenceInv /\ WatchInv
  BY DEF Init, QuietInv, RowInv, SilenceInv, WatchInv, Ends
<1>5. WaitInv /\ NodeInv
  BY HeartbeatAssumption DEF Init, WaitInv, NodeInv, Writing
<1> QED BY <1>1, <1>2, <1>3, <1>4, <1>5 DEF LossInv

LEMMA LossStep == LossInv /\ [Next]_vars => LossInv'
BY TypeStep, AgeStep, QuietStep, SilenceStep, WaitStep, WatchStep, NodeStep,
   RowStep, HealthyStep DEF LossInv

\* What each end knows of the other, in every reachable state: the age of what
\* is on its way, what the timers have measured since the loss, how far
\* ServeHTTP and heartbeat have come, and how late the row can be.
THEOREM LossInvariant == Spec => []LossInv
BY LossInit, LossStep, PTL DEF Spec

\* Conn.heartbeat and the node's interval: no loss, of one direction or both,
\* with or without a word, stays unnoticed for longer than the two bounds.
THEOREM LossNoticed == Spec => []LossIsNoticed
<1>1. LossInv => LossIsNoticed
  <2> SUFFICES ASSUME LossInv PROVE LossIsNoticed
    OBVIOUS
  <2> USE HeartbeatAssumption
  <2>0. /\ lost["cp"] \in Nat /\ lost["node"] \in Nat /\ waited \in Nat
        /\ cpTimer \in 1 .. Interval /\ nodeTimer \in 0 .. Interval /\ PlaceInv
        /\ WaitInv /\ due \in BOOLEAN
    BY DEF LossInv, TypeInv, Ends
  <2>b. /\ Judged \in Nat /\ Begun \in Nat /\ Looked \in Nat
        /\ Begun >= HelloTime + WriteTimeout
        /\ Looked >= Judged + WriteTimeout + TouchTime /\ Looked >= Begun + Interval
        /\ NoticeByCP = Looked + CloseTime
    BY BoundFacts DEF NoticeByCP
  <2>1. ASSUME Live, lost["cp"] > 0 PROVE lost["cp"] - 1 <= NoticeByCP
    <3>0. WatchInv
      BY DEF LossInv
    <3>1. CASE cp \in {"hello", "welcome"}
      BY <2>0, <2>b, <2>1, <3>0, <3>1 DEF WatchInv, WaitInv, Writing
    <3>2. CASE beat = "select"
      BY <2>0, <2>b, <2>1, <3>0, <3>2 DEF WatchInv, Since
    <3>3. CASE beat \in {"ping", "touch", "closing"}
      BY <2>0, <2>b, <2>1, <3>0, <3>3 DEF WatchInv, WaitInv, Writing
    <3> QED BY <2>0, <2>1, <3>1, <3>2, <3>3 DEF PlaceInv, Live
  <2>2. ASSUME node = "open" PROVE lost["node"] <= NoticeByNode + 1
    <3>1. lost["node"] > 0 =>
            lost["node"] - 1 + nodeTimer + Left <= Delay + 3 * Interval
      BY <2>2 DEF LossInv, NodeInv
    <3>2. Left \in Nat
      BY DEF Left
    <3> QED BY <2>0, <3>1, <3>2 DEF NoticeByNode
  <2> QED BY <2>0, <2>b, <2>1, <2>2 DEF LossIsNoticed
<1> QED BY <1>1, LossInvariant, PTL

\* Touch and the two readings of last_seen_at: a machine the control plane no
\* longer hears reads offline in the console and on the command line once the
\* bound has passed.  The registry must have let go of it by then, which is why
\* offlineAfter has to be longer than a heartbeat period and the deadlines of
\* RecordHello and ws.Close.
THEOREM GoneMachinesReadOffline ==
  HelloTime + Interval + CloseTime < OfflineAfter => (Spec => []GoneReadsOffline)
<1> SUFFICES ASSUME HelloTime + Interval + CloseTime < OfflineAfter
             PROVE  Spec => []GoneReadsOffline
  OBVIOUS
<1>1. LossInv /\ LossIsNoticed => GoneReadsOffline
  <2> SUFFICES ASSUME LossInv, LossIsNoticed, lost["cp"] > OnlineFor
               PROVE  Status = "offline" /\ NodeStatus = "offline"
    BY DEF GoneReadsOffline
  <2> USE HeartbeatAssumption
  <2>0. lost["cp"] \in Nat /\ seen \in 0 .. OfflineAfter
    BY DEF LossInv, TypeInv, Ends
  <2>1. /\ Judged \in Nat /\ Begun \in Nat /\ Looked \in Nat /\ Refreshed \in Nat
        /\ Begun = Judged \/ Begun = HelloTime + WriteTimeout
        /\ Looked = Judged + WriteTimeout + TouchTime \/ Looked = Begun + Interval
        /\ Refreshed >= Judged + WriteTimeout + TouchTime
        /\ OnlineFor = Refreshed + OfflineAfter /\ NoticeByCP = Looked + CloseTime
    BY BoundFacts DEF OnlineFor, NoticeByCP
  <2>2. ~Live
    <3>1. Live => lost["cp"] <= NoticeByCP + 1
      BY DEF LossIsNoticed
    <3>2. NoticeByCP + 1 <= OnlineFor /\ NoticeByCP \in Int /\ OnlineFor \in Int
      BY <2>1
    <3> QED BY <2>0, <3>1, <3>2
  <2>3. ~RecentlySeen
    <3>1. seen = OfflineAfter \/ lost["cp"] - 1 <= seen + Refreshed
      BY <2>0, <2>1 DEF LossInv, RowInv
    <3>2. seen = OfflineAfter
      BY <2>0, <2>1, <3>1
    <3> QED BY <3>2 DEF RecentlySeen
  <2> QED BY <2>2, <2>3 DEF Status, NodeStatus
<1> QED BY <1>1, LossInvariant, LossNoticed, PTL

-----------------------------------------------------------------------------
(* The row of a healthy machine.                                           *)

\* Where a healthy connection is, and what it does next.
LEMMA HealthyFacts ==
  ASSUME LossInv, Next, Healthy'
  PROVE  /\ Healthy /\ (Goes \/ Tick) /\ TypeInv /\ PlaceInv /\ WaitInv
         /\ Live /\ beat \notin {"closing", "done"} /\ Attached /\ hears = Ends
         /\ "cp" \in hears /\ "node" \in hears
         /\ Live' /\ beat' \notin {"closing", "done"} /\ Attached'
         /\ TypeInv' /\ PlaceInv'
         /\ node = "open" => cp = "open"
         /\ cp = "open" => beat \in {"select", "ping", "touch"}
         /\ cp = "open" => AtMost(toCP, Delay)
         /\ AtMost(toNode, Delay)
<1>1. TypeInv /\ PlaceInv /\ WaitInv /\ HealthyInv /\ AgeInv
  BY DEF LossInv, TypeInv
<1>2. TypeInv' /\ PlaceInv' /\ HealthyInv'
  BY LossStep DEF LossInv, TypeInv
<1>3. Healthy /\ (Goes \/ Tick)
  BY <1>1, StaysHealthy
<1> QED BY <1>1, <1>2, <1>3 DEF HealthyInv, PlaceInv, AgeInv, Live, Ends

\* A healthy write that waits is not overdue.
LEMMA WritesInTime ==
  ASSUME TypeInv, Healthy, Tick
  PROVE  /\ Writing => waited < Delay
         /\ beat = "touch" => waited < TouchTime
<1> USE HeartbeatAssumption
<1>1. Smaller(Delay, WriteTimeout) <= Delay /\ Smaller(Delay, WriteTimeout) \in Nat
  BY DEF Smaller
<1>2. /\ Writing => ~(waited >= Smaller(Delay, WriteTimeout))
      /\ beat = "touch" => ~(waited >= TouchTime)
  BY DEF Tick, Due, Overdue
<1>3. waited \in Nat
  BY DEF TypeInv
<1> QED BY <1>1, <1>2, <1>3

\* RecordHello, every Touch and every snapshot refresh the row of a healthy
\* connection.
LEMMA FreshStep == LossInv /\ FreshInv /\ [Next]_vars => FreshInv'
<1> SUFFICES ASSUME LossInv, FreshInv, [Next]_vars, Healthy', faults' = 0
             PROVE  FreshInv'
  BY DEF FreshInv
<1> USE HeartbeatAssumption DEF Since, Writing
<1>y. Young \in Nat /\ Young >= HelloTime + Delay /\ Young >= SaveTime /\ Young >= TouchTime
  BY DEF Young, Larger
<1>1. CASE Next
  <2>0. /\ TypeInv /\ PlaceInv /\ WaitInv /\ Healthy /\ Live /\ Live'
        /\ Goes \/ Tick
    BY <1>1, HealthyFacts
  <2>t. /\ cpTimer \in 1 .. Interval /\ seen \in 0 .. OfflineAfter /\ waited \in Nat
        /\ faults \in 0 .. MaxFaults /\ saving \in -1 .. SaveTime
        /\ cpTimer' \in 1 .. Interval /\ seen' \in 0 .. OfflineAfter
        /\ due' \in BOOLEAN
    BY <1>1, <2>0, TypeStep DEF TypeInv
  <2>s. Stamps(waited) => seen' <= waited /\ faults = 0
    BY <2>t, StampFacts
  <2>1. CASE HelloRecorded
    <3>1. /\ cp = "hello" /\ cp' = "welcome" /\ beat = "off" /\ beat' = "off"
          /\ waited' = 0 /\ waited <= HelloTime /\ seen' <= waited
      BY <2>0, <2>1, <2>s DEF HelloRecorded, PlaceInv, WaitInv
    <3> QED BY <2>t, <3>1 DEF FreshInv
  <2>2. CASE WelcomeWritten
    <3>1. /\ cp = "welcome" /\ cp' = "open" /\ beat' = "select" /\ due' = FALSE
          /\ cpTimer' = Interval /\ seen' = seen /\ faults = 0
      BY <2>2 DEF WelcomeWritten
    <3> QED BY <1>y, <2>0, <2>t, <3>1 DEF FreshInv
  <2>3. CASE HeartbeatPings
    <3>1. /\ cp = "open" /\ cp' = "open" /\ beat = "select" /\ due /\ beat' = "ping"
          /\ waited' = 0 /\ seen' = seen /\ faults = 0
      BY <2>3 DEF HeartbeatPings, Ticks
    <3> QED BY <1>y, <2>0, <2>t, <3>1 DEF FreshInv
  <2>4. CASE PingWritten
    <3>1. /\ beat = "ping" /\ cp' = cp /\ beat' = "touch"
          /\ waited' = 0 /\ seen' = seen /\ faults = 0
      BY <2>4 DEF PingWritten
    <3>2. cp # "welcome"
      BY <2>0, <3>1 DEF PlaceInv
    <3> QED BY <1>y, <2>0, <2>t, <3>1, <3>2 DEF FreshInv
  <2>5. CASE TouchReturns
    <3>1. /\ beat = "touch" /\ cp' = cp /\ beat' \in {"select", "done"}
          /\ cpTimer' = cpTimer /\ seen' <= waited /\ waited <= TouchTime
      BY <2>0, <2>5, <2>s DEF TouchReturns, WaitInv, tickVars
    <3>2. cp # "welcome"
      BY <2>0, <3>1 DEF PlaceInv
    <3> QED BY <1>y, <2>t, <3>1, <3>2 DEF FreshInv
  <2>6. CASE RecordTelemetry
    <3>1. /\ UNCHANGED <<cp, beat, cpTimer, due, waited>> /\ faults = 0
          /\ saving >= 0 /\ (seen' = seen \/ seen' <= SaveTime - saving)
      BY <2>t, <2>6 DEF RecordTelemetry, tickVars, Smaller
    <3>2. cp # "welcome"
      BY <2>0, <3>1 DEF PlaceInv
    <3> QED BY <1>y, <2>0, <2>t, <3>1, <3>2 DEF FreshInv
  <2>7. CASE DispatchPong \/ DispatchTelemetry \/ Answers
    <3>1. UNCHANGED <<cp, beat, cpTimer, due, waited, seen, faults>>
      BY <2>7 DEF DispatchPong, DispatchTelemetry, Reads, Answers, OnWelcome,
         NodeInterval, OnMessage, OnClose, SendTelemetry, tickVars
    <3> QED BY <2>0, <3>1 DEF FreshInv
  <2>8. CASE Tick
    <3>1. /\ UNCHANGED <<cp, beat, faults>>
          /\ beat = "select" => ~due
          /\ beat \in {"select", "ping", "touch"} =>
               \/ cpTimer = 1 /\ cpTimer' = Interval /\ due'
               \/ cpTimer > 1 /\ cpTimer' = cpTimer - 1 /\ (due' <=> due)
          /\ cp \in {"hello", "welcome"} \/ beat \in {"ping", "touch", "closing"} =>
               waited' = waited + 1
      BY <2>0, <2>8, TickTimers
    <3>2. seen' <= seen + 1
      BY <2>t, <2>8 DEF Tick, Smaller
    <3>3. Writing => waited < Delay
      BY <2>0, <2>8, WritesInTime
    <3>4. FreshInv /\ faults = 0 /\ Healthy
      BY <2>0, <3>1
    <3>5. Writing' => waited' <= Delay
      BY <2>t, <3>1, <3>3
    <3>6. cp' = "welcome" => seen' <= HelloTime + waited'
      BY <2>t, <3>1, <3>2, <3>4 DEF FreshInv
    <3>7. beat' = "select" => /\ ~due' => seen' <= Young + Since'
                              /\ due' => seen' <= Young + Interval
      <4>1. CASE beat # "select"
        BY <3>1, <4>1
      <4>2. CASE beat = "select"
        <5>1. seen <= Young + (Interval - cpTimer)
          BY <3>1, <3>4, <4>2 DEF FreshInv
        <5>2. CASE cpTimer = 1
          BY <1>y, <2>t, <3>1, <3>2, <4>2, <5>1, <5>2
        <5>3. CASE cpTimer > 1
          <6>1. cpTimer' = cpTimer - 1 /\ ~due'
            BY <3>1, <4>2, <5>3
          <6> QED BY <1>y, <2>t, <3>2, <5>1, <6>1
        <5> QED BY <2>t, <5>2, <5>3
      <4> QED BY <4>1, <4>2
    <3>8. /\ beat' = "ping" => seen' <= Young + Interval + waited'
          /\ beat' = "touch" => seen' <= Young + Interval + Delay + waited'
      BY <1>y, <2>t, <3>1, <3>2, <3>4 DEF FreshInv
    <3> QED BY <3>5, <3>6, <3>7, <3>8 DEF FreshInv
  <2> QED
    BY <2>0, <2>1, <2>2, <2>3, <2>4, <2>5, <2>6, <2>7, <2>8 DEF Goes, Answers
<1>2. CASE UNCHANGED vars
  BY <1>2 DEF vars, FreshInv, Healthy
<1> QED BY <1>1, <1>2

\* Touch: while the connection is healthy and the database takes the writes,
\* `dshf node list`, which cannot see the registry, reads online as well: the
\* row is refreshed again before offlineAfter, if that is longer than a period
\* with what RecordHello, a write and Touch may take.
THEOREM HealthyMachinesReadOnline ==
  Larger(Larger(HelloTime + Delay, SaveTime), TouchTime) + Interval + Delay
    + TouchTime < OfflineAfter
  => (Spec => []HealthyReadsOnline)
<1> SUFFICES ASSUME Young + Interval + Delay + TouchTime < OfflineAfter
             PROVE  Spec => []HealthyReadsOnline
  BY DEF Young
<1> USE HeartbeatAssumption
<1>1. Init => FreshInv
  BY DEF Init, FreshInv, Writing
<1>2. LossInv /\ FreshInv /\ [Next]_vars => FreshInv'
  BY FreshStep
<1>3. LossInv /\ FreshInv => HealthyReadsOnline
  <2> SUFFICES ASSUME LossInv, FreshInv, Healthy, faults = 0, cp # "hello"
               PROVE  NodeStatus = "online"
    BY DEF HealthyReadsOnline
  <2>0. /\ TypeInv /\ PlaceInv /\ WaitInv /\ Live /\ beat \notin {"closing", "done"}
        /\ seen \in 0 .. OfflineAfter /\ waited \in Nat /\ cpTimer \in 1 .. Interval
        /\ due \in BOOLEAN
    BY DEF LossInv, TypeInv, HealthyInv
  <2>y. Young \in Nat /\ Young >= HelloTime + Delay
    BY DEF Young, Larger
  <2>1. seen <= Young + Interval + Delay + TouchTime
    <3>1. CASE cp = "welcome"
      BY <2>0, <2>y, <3>1 DEF FreshInv, Writing
    <3>2. CASE beat = "select"
      BY <2>0, <2>y, <3>2 DEF FreshInv, Since
    <3>3. CASE beat \in {"ping", "touch"}
      BY <2>0, <2>y, <3>3 DEF FreshInv, WaitInv, Writing
    <3> QED BY <2>0, <3>1, <3>2, <3>3 DEF PlaceInv, Live
  <2>2. seen < OfflineAfter
    BY <2>0, <2>y, <2>1
  <2> QED BY <2>2 DEF NodeStatus, RecentlySeen
<1> QED BY <1>1, <1>2, <1>3, LossInvariant, PTL DEF Spec

-----------------------------------------------------------------------------
(* The rhythm of a healthy connection.                                     *)

\* What the theorem asks: frames and writes take less than half a period, Touch
\* is done before the next tick, the silence of the handshake is within the
\* grace, and a healthy write does not time out.
InTime ==
  /\ 2 * Delay < Interval /\ Delay + TouchTime <= Interval
  /\ HelloTime + Delay <= Interval + Grace /\ Delay < WriteTimeout

\* A pong on its way stays there until it is read, and gets older.
LEMMA AnswerFacts ==
  ASSUME NEW q \in Seq(Frame), NEW n \in Int
  PROVE  /\ \A k \in Kinds : \A to : Answering(q, n) => Answering(Put(q, to, k), n)
         /\ q # <<>> /\ q[1].t # "pong" /\ Answering(q, n) => Answering(Tail(q), n)
         /\ Answering(q, n) => Answering(Older(q), n + 1)
         /\ \A to \in hears : Answering(Put(q, to, "pong"), 0)
         /\ \A m \in Int : AtMost(q, m) /\ Answering(q, n) => n <= m
<1>0. Len(q) \in Nat /\ \A i \in 1 .. Len(q) : q[i].age \in Nat
  BY OlderFacts
<1>1. ASSUME NEW k \in Kinds, NEW to, Answering(q, n)
      PROVE  Answering(Put(q, to, k), n)
  <2>1. CASE to \notin hears
    BY <1>1, <2>1, PutFacts
  <2>2. CASE to \in hears
    <3> DEFINE r == Put(q, to, k)
    <3>1. Len(r) = Len(q) + 1 /\ \A i \in 1 .. Len(q) : r[i] = q[i]
      BY <2>2, PutFacts
    <3> HIDE DEF r
    <3>2. PICK i \in 1 .. Len(q) : q[i].t = "pong" /\ q[i].age >= n
      BY <1>1 DEF Answering
    <3>3. i \in 1 .. Len(r) /\ r[i] = q[i]
      BY <1>0, <3>1
    <3> QED BY <3>2, <3>3 DEF Answering, r
  <2> QED BY <2>1, <2>2
<1>2. ASSUME q # <<>>, q[1].t # "pong", Answering(q, n) PROVE Answering(Tail(q), n)
  <2>1. PICK i \in 1 .. Len(q) : q[i].t = "pong" /\ q[i].age >= n
    BY <1>2 DEF Answering
  <2>2. i # 1 /\ i \in Nat
    BY <1>0, <1>2, <2>1
  <2>3. i - 1 \in 1 .. Len(q) - 1 /\ Tail(q)[i - 1] = q[i - 1 + 1] /\ i - 1 + 1 = i
        /\ Len(Tail(q)) = Len(q) - 1
    BY <1>0, <1>2, <2>1, <2>2, TailFacts
  <2> QED BY <2>1, <2>3 DEF Answering
<1>3. ASSUME Answering(q, n) PROVE Answering(Older(q), n + 1)
  <2>1. PICK i \in 1 .. Len(q) : q[i].t = "pong" /\ q[i].age >= n
    BY <1>3 DEF Answering
  <2>2. /\ Len(Older(q)) = Len(q) /\ Older(q)[i].t = q[i].t
        /\ Older(q)[i].age = q[i].age + 1
    BY OlderFacts
  <2> QED BY <1>0, <2>1, <2>2 DEF Answering
<1>4. ASSUME NEW to \in hears PROVE Answering(Put(q, to, "pong"), 0)
  <2> DEFINE r == Put(q, to, "pong")
  <2>1. /\ Len(r) = Len(q) + 1 /\ r[Len(q) + 1].t = "pong"
        /\ r[Len(q) + 1].age = 0
    <3>1. "pong" \in Kinds
      BY DEF Kinds
    <3> QED BY <3>1, PutFacts
  <2> HIDE DEF r
  <2>2. Len(q) + 1 \in 1 .. Len(r)
    BY <1>0, <2>1
  <2>3. Answering(r, 0)
    BY <2>1, <2>2 DEF Answering
  <2> QED BY <2>3 DEF r
<1>5. ASSUME NEW m \in Int, AtMost(q, m), Answering(q, n) PROVE n <= m
  BY <1>0, <1>5 DEF Answering, AtMost
<1> QED BY <1>1, <1>2, <1>3, <1>4, <1>5

\* A frame put into an empty queue is its only one.
LEMMA PutOnly ==
  ASSUME NEW k \in Kinds, NEW to \in hears
  PROVE  LET q == Put(<<>>, to, k) IN
         /\ Len(q) = 1 /\ q # <<>> /\ q[1].t = k /\ q[1].age = 0
<1> DEFINE x == [t |-> k, age |-> 0]
<1>1. x.t = k /\ x.age = 0
  OBVIOUS
<1>2. Put(<<>>, to, k) = Append(<<>>, x)
  BY DEF Put
<1> HIDE DEF x
<1>3. Len(Append(<<>>, x)) = 1 /\ Append(<<>>, x) # <<>> /\ Append(<<>>, x)[1] = x
  OBVIOUS
<1> QED BY <1>1, <1>2, <1>3

\* A healthy connection in its rhythm is not given up by anyone.
LEMMA PulseIsEnough ==
  ASSUME InTime, LossInv, PulseInv, Healthy
  PROVE  /\ Ticks => ~SilentTooLong
         /\ node = "open" /\ nodeTimer = 0 => missed < 2
         /\ Writing => waited < WriteTimeout
<1> USE HeartbeatAssumption DEF InTime, Since, Passed
<1>0. /\ cpTimer \in 1 .. Interval /\ nodeTimer \in 0 .. Interval /\ missed \in Nat
      /\ silent \in Nat /\ waited \in Nat /\ due \in BOOLEAN
      /\ toNode \in Seq(Frame) /\ toCP \in Seq(Frame)
      /\ PlaceInv /\ Live /\ Attached /\ AgeInv
  BY DEF LossInv, TypeInv, HealthyInv
<1>p. StartInv /\ BeatInv /\ PongInv /\ CountInv
  BY DEF PulseInv
<1>1. ASSUME Ticks PROVE ~SilentTooLong
  <2>1. node = "open" /\ Since = 0 /\ cpTimer = Interval
    BY <1>0, <1>1, <1>p DEF Ticks, StartInv, BeatInv, Attached
  <2>2. Passed \in Nat /\ Passed <= Interval
    BY <1>0
  <2>3. silent <= 2 * Interval + Grace
    BY <1>0, <1>p, <2>1, <2>2 DEF PongInv
  <2> QED BY <1>0, <2>3 DEF SilentTooLong
<1>2. ASSUME node = "open", nodeTimer = 0 PROVE missed < 2
  <2>1. Counted < 2 * Interval
    <3>0. Counted \in Nat
      BY DEF Counted
    <3>1. CASE toNode = <<>>
      <4>1. Coming >= 0 /\ Coming \in Int
        BY <1>0, <1>p DEF Coming, BeatInv, Writing
      <4> QED BY <1>0, <1>2, <1>p, <3>0, <3>1, <4>1 DEF CountInv
    <3>2. CASE toNode # <<>>
      <4>1. AtMost(toNode, Delay) /\ 1 \in 1 .. Len(toNode)
        BY <1>0, <3>2, TailFacts DEF AgeInv
      <4>2. toNode[1].age <= Delay /\ toNode[1].age \in Nat
        BY <1>0, <4>1, OlderFacts DEF AtMost
      <4> QED BY <1>0, <1>2, <1>p, <3>0, <3>2, <4>2 DEF CountInv
    <3> QED BY <3>1, <3>2
  <2> QED BY <1>0, <2>1 DEF Counted
<1>3. Writing => waited < WriteTimeout
  BY <1>0, <1>p DEF BeatInv
<1> QED BY <1>1, <1>2, <1>3

\* What the node does, and what is read from it, leaves the control plane's
\* loop where it is.
LEMMA HealthyOthersKeep ==
  ASSUME \/ OnWelcome \/ NodeInterval \/ OnMessage \/ SendTelemetry
         \/ DispatchPong \/ DispatchTelemetry \/ RecordTelemetry
  PROVE  UNCHANGED <<cp, beat, cpTimer, due, waited>>
BY DEF OnWelcome, NodeInterval, OnMessage, SendTelemetry, DispatchPong,
   DispatchTelemetry, Reads, RecordTelemetry, tickVars

\* The handshake, until the welcome has arrived.
LEMMA StartStep ==
  ASSUME InTime, LossInv, PulseInv, Next, Healthy'
  PROVE  StartInv'
<1> USE HeartbeatAssumption DEF InTime, Since
<1>0. /\ Healthy /\ (Goes \/ Tick) /\ TypeInv /\ PlaceInv /\ WaitInv
      /\ Live /\ Attached /\ "node" \in hears /\ AtMost(toNode, Delay)
      /\ cp = "open" => beat \in {"select", "ping", "touch"}
  BY HealthyFacts
<1>t. /\ cpTimer \in 1 .. Interval /\ silent \in Nat /\ waited \in Nat
      /\ toNode \in Seq(Frame) /\ toCP \in Seq(Frame) /\ due \in BOOLEAN
  BY <1>0 DEF TypeInv
<1>p. StartInv /\ BeatInv
  BY <1>0 DEF PulseInv
<1>1. CASE HelloRecorded
  <2>1. /\ cp = "hello" /\ cp' = "welcome" /\ waited' = 0 /\ silent' = silent
        /\ waited <= HelloTime
    BY <1>0, <1>1 DEF HelloRecorded, WaitInv
  <2> QED BY <1>t, <1>p, <2>1 DEF StartInv
<1>2. CASE WelcomeWritten
  <2>1. /\ cp = "welcome" /\ cp' = "open" /\ beat' = "select" /\ due' = FALSE
        /\ cpTimer' = Interval /\ silent' = silent
        /\ toNode' = Put(toNode, "node", "welcome")
    BY <1>2 DEF WelcomeWritten, ToNode
  <2>2. toNode = <<>> /\ Len(toNode) = 0
    BY <1>0, <2>1 DEF PlaceInv
  <2>3. Len(toNode') = 1 /\ toNode'[1].t = "welcome" /\ toNode'[1].age = 0
    <3>1. "welcome" \in Kinds
      BY DEF Kinds
    <3> QED BY <1>0, <2>1, <2>2, <3>1, PutOnly
  <2>4. silent <= HelloTime + Delay
    BY <1>t, <1>p, <2>1 DEF StartInv, BeatInv, Writing
  <2> QED BY <2>1, <2>3, <2>4 DEF StartInv
<1>3. CASE HeartbeatPings \/ PingWritten \/ TouchReturns
  <2>1. cp = "open" /\ cp' = cp /\ node' = node /\ (beat = "select" => due)
    BY <1>0, <1>3 DEF HeartbeatPings, Ticks, PingWritten, TouchReturns, nodeVars,
                      PlaceInv, Live
  <2>2. node # "waiting"
    BY <1>3, <1>p, <2>1 DEF StartInv, HeartbeatPings, Ticks, PingWritten, TouchReturns
  <2> QED BY <2>1, <2>2 DEF StartInv
<1>4. CASE DispatchPong \/ DispatchTelemetry
  <2>1. cp' = "open" /\ toCP # <<>> /\ node' = node
    BY <1>4 DEF DispatchPong, DispatchTelemetry, Reads, nodeVars
  <2> QED BY <1>0, <2>1 DEF StartInv, PlaceInv
<1>5. CASE RecordTelemetry
  <2>1. UNCHANGED <<cp, beat, cpTimer, due, waited, node, toNode, silent>>
    BY <1>5 DEF RecordTelemetry, nodeVars, tickVars
  <2> QED BY <1>p, <2>1 DEF StartInv
<1>6. CASE OnWelcome \/ NodeInterval \/ OnMessage \/ SendTelemetry
  <2>1. /\ UNCHANGED <<cp, waited, silent>>
        /\ node' # "waiting"
    BY <1>6 DEF OnWelcome, NodeInterval, OnMessage, SendTelemetry, nodeVars
  <2> QED BY <1>p, <2>1 DEF StartInv
<1>7. CASE Tick
  <2>1. /\ UNCHANGED <<cp, beat, node>> /\ silent' = silent + 1
        /\ cp \in {"hello", "welcome"} => waited' = waited + 1
        /\ cp = "open" /\ beat = "select" =>
             \/ cpTimer = 1 /\ cpTimer' = Interval /\ due'
             \/ cpTimer > 1 /\ cpTimer' = cpTimer - 1 /\ (due' <=> due)
    BY <1>0, <1>7, TickTimers
  <2>2. ASSUME cp = "open", node = "waiting"
        PROVE  /\ Len(toNode') = 1 /\ toNode'[1].t = "welcome"
               /\ toNode'[1].age = Since'
               /\ ~due' /\ silent' <= HelloTime + Delay + Since'
    <3>1. /\ Len(toNode) = 1 /\ toNode[1].t = "welcome" /\ toNode[1].age = Since
          /\ beat = "select" /\ ~due /\ silent <= HelloTime + Delay + Since
      BY <1>p, <2>2 DEF StartInv
    <3>2. toNode' = Older(toNode) /\ AtMost(toNode, Delay - 1)
      BY <1>0, <1>7, TickQueues
    <3>3. /\ Len(toNode') = 1 /\ toNode'[1].t = "welcome"
          /\ toNode'[1].age = Since + 1 /\ Since <= Delay - 1
      <4>1. 1 \in 1 .. Len(toNode)
        BY <3>1
      <4> QED BY <1>t, <3>1, <3>2, <4>1, OlderFacts DEF AtMost
    <3>4. cpTimer' = cpTimer - 1 /\ (due' <=> due)
      BY <1>t, <2>1, <2>2, <3>1, <3>3
    <3>5. Since' = Since + 1 /\ ~due' /\ Since \in Nat
      BY <1>t, <3>1, <3>4
    <3>6. silent' = silent + 1
      BY <2>1
    <3> QED BY SMTT(30), <1>t, <3>1, <3>3, <3>5, <3>6
  <2>3. /\ cp' = "hello" => silent' <= waited'
        /\ cp' = "welcome" => silent' <= HelloTime + waited'
    BY <1>t, <1>p, <2>1 DEF StartInv
  <2>4. cp = "open" /\ node = "waiting" => beat = "select"
    BY <1>p DEF StartInv
  <2> QED BY <2>1, <2>2, <2>3, <2>4 DEF StartInv
<1> QED BY <1>0, <1>1, <1>2, <1>3, <1>4, <1>5, <1>6, <1>7 DEF Goes

\* The ping and Touch are done in time.
LEMMA BeatStep ==
  ASSUME InTime, LossInv, PulseInv, Next, Healthy'
  PROVE  BeatInv'
<1> USE HeartbeatAssumption DEF InTime, Since, Writing
<1>0. /\ Healthy /\ (Goes \/ Tick) /\ TypeInv /\ PlaceInv /\ WaitInv /\ Live
  BY HealthyFacts
<1>t. /\ cpTimer \in 1 .. Interval /\ waited \in Nat /\ due \in BOOLEAN
      /\ cpTimer' \in 1 .. Interval /\ waited' \in Nat /\ due' \in BOOLEAN
  BY <1>0, TypeStep DEF TypeInv
<1>p. BeatInv
  BY <1>0 DEF PulseInv
<1>1. CASE HelloRecorded
  <2>1. /\ beat = "off" /\ beat' = "off" /\ waited' = 0 /\ due' = due
    BY <1>0, <1>1 DEF HelloRecorded, PlaceInv, tickVars
  <2> QED BY <1>p, <2>1 DEF BeatInv
<1>2. CASE WelcomeWritten
  BY <1>2 DEF WelcomeWritten, BeatInv
<1>3. CASE HeartbeatPings
  <2>1. /\ beat = "select" /\ due /\ beat' = "ping" /\ due' = FALSE /\ waited' = 0
        /\ cpTimer' = cpTimer /\ cp' = "open"
    BY <1>3 DEF HeartbeatPings, Ticks
  <2> QED BY <1>t, <1>p, <2>1 DEF BeatInv
<1>4. CASE PingWritten
  <2>1. /\ beat = "ping" /\ beat' = "touch" /\ due' = due /\ waited' = 0
        /\ cpTimer' = cpTimer /\ cp' = cp
    BY <1>4 DEF PingWritten, tickVars
  <2>2. cp # "welcome"
    BY <1>0, <2>1 DEF PlaceInv
  <2> QED BY <1>t, <1>p, <2>1, <2>2 DEF BeatInv
<1>5. CASE TouchReturns
  <2>1. /\ beat = "touch" /\ cp = "open" /\ beat' = "select" /\ due' = due
        /\ cpTimer' = cpTimer /\ cp' = cp
    BY <1>0, <1>5 DEF TouchReturns, tickVars, PlaceInv, Live
  <2> QED BY <1>t, <1>p, <2>1 DEF BeatInv
<1>6. CASE \/ OnWelcome \/ NodeInterval \/ OnMessage \/ SendTelemetry
           \/ DispatchPong \/ DispatchTelemetry \/ RecordTelemetry
  BY <1>6, <1>p, HealthyOthersKeep DEF BeatInv
<1>7. CASE Tick
  <2>1. /\ UNCHANGED <<cp, beat>>
        /\ beat \in {"select", "ping", "touch"} =>
             \/ cpTimer = 1 /\ cpTimer' = Interval /\ due'
             \/ cpTimer > 1 /\ cpTimer' = cpTimer - 1 /\ (due' <=> due)
        /\ cp \in {"hello", "welcome"} \/ beat \in {"ping", "touch"} =>
             waited' = waited + 1
    BY <1>0, <1>7, TickTimers
  <2>2. /\ Writing => waited < Delay
        /\ beat = "touch" => waited < TouchTime
        /\ beat = "select" => ~due
    BY <1>0, <1>7, WritesInTime, TickTimers
  <2>3. beat \in {"off", "done", "closing"} => due' = due \/ due' = FALSE
    BY Zenon, <1>7 DEF Tick, TickerRuns
  <2>4. Writing' => waited' <= Delay
    BY <1>t, <2>1, <2>2
  <2>5. beat' = "ping" => waited' = Since' /\ ~due'
    <3> SUFFICES ASSUME beat = "ping" PROVE waited' = Since' /\ ~due'
      BY <2>1
    <3>1. waited = Interval - cpTimer /\ ~due /\ waited < Delay /\ waited' = waited + 1
      BY <1>p, <2>1, <2>2 DEF BeatInv
    <3>2. cpTimer > 1
      BY <1>t, <3>1
    <3>3. cpTimer' = cpTimer - 1 /\ ~due'
      BY <1>t, <2>1, <3>1, <3>2
    <3> QED BY <1>t, <3>1, <3>3
  <2>6. beat' = "touch" => /\ due' => waited' >= TouchTime /\ cpTimer' = Interval
                           /\ ~due' => Since' <= Delay + waited'
    <3> SUFFICES ASSUME beat = "touch"
                 PROVE  /\ due' => waited' >= TouchTime /\ cpTimer' = Interval
                        /\ ~due' => Since' <= Delay + waited'
      BY <2>1
    <3>1. waited < TouchTime /\ waited' = waited + 1
      BY <2>1, <2>2
    <3>2. ~due /\ Interval - cpTimer <= Delay + waited
      BY <1>t, <1>p, <3>1 DEF BeatInv
    <3>3. CASE cpTimer = 1
      BY <1>t, <2>1, <3>1, <3>2, <3>3
    <3>4. CASE cpTimer > 1
      <4>1. cpTimer' = cpTimer - 1 /\ ~due'
        BY <2>1, <3>2, <3>4
      <4> QED BY <1>t, <3>1, <3>2, <4>1
    <3>5. cpTimer = 1 \/ cpTimer > 1
      BY <1>t
    <3> QED BY Zenon, <3>3, <3>4, <3>5
  <2>7. due' => cpTimer' = Interval /\ beat' \in {"select", "touch"}
    <3>1. CASE beat = "select"
      BY <1>t, <2>1, <2>2, <3>1
    <3>2. CASE beat \in {"ping", "touch"}
      BY <2>1, <2>5, <2>6, <3>2
    <3>3. CASE beat \in {"off", "done", "closing"}
      BY <1>p, <2>1, <2>3, <3>3 DEF BeatInv
    <3> QED BY <1>0, <3>1, <3>2, <3>3 DEF TypeInv
  <2> QED BY <2>4, <2>5, <2>6, <2>7 DEF BeatInv
<1> QED BY <1>0, <1>1, <1>2, <1>3, <1>4, <1>5, <1>6, <1>7 DEF Goes


\* The pongs.
LEMMA PongStep ==
  ASSUME InTime, LossInv, PulseInv, Next, Healthy'
  PROVE  PongInv'
<1> SUFFICES ASSUME node' = "open" PROVE PongInv'
  BY DEF PongInv
<1> USE HeartbeatAssumption DEF InTime, Since, Passed
<1>0. /\ Healthy /\ (Goes \/ Tick) /\ TypeInv /\ PlaceInv /\ "cp" \in hears
      /\ node = "open" => cp = "open"
      /\ cp = "open" => beat \in {"select", "ping", "touch"} /\ AtMost(toCP, Delay)
      /\ AtMost(toNode, Delay) /\ Live
  BY HealthyFacts
<1>t. /\ cpTimer \in 1 .. Interval /\ nodeTimer \in 0 .. Interval /\ silent \in Nat
      /\ toNode \in Seq(Frame) /\ toCP \in Seq(Frame)
  BY <1>0 DEF TypeInv
<1>p. StartInv /\ PongInv
  BY <1>0 DEF PulseInv
<1>k. ASSUME node = "open", UNCHANGED <<nodeTimer, cpTimer, silent>>,
             \A n \in Int : Answering(toCP, n) => Answering(toCP', n)
      PROVE  PongInv'
  BY <1>t, <1>p, <1>k DEF PongInv
<1>1. CASE HelloRecorded \/ WelcomeWritten
  <2>1. cp \in {"hello", "welcome"} /\ node' = node
    BY <1>1 DEF HelloRecorded, WelcomeWritten, nodeVars
  <2> QED BY <1>0, <2>1 DEF PlaceInv
<1>2. CASE \/ HeartbeatPings \/ PingWritten \/ TouchReturns \/ RecordTelemetry
  <2>1. UNCHANGED <<node, nodeTimer, cpTimer, silent, toCP>>
    BY <1>2 DEF HeartbeatPings, PingWritten, TouchReturns, RecordTelemetry,
                nodeVars, tickVars
  <2> QED BY <1>k, <2>1
<1>3. CASE SendTelemetry
  <2>1. /\ node = "open" /\ UNCHANGED <<nodeTimer, cpTimer, silent>>
        /\ toCP' = Put(toCP, "cp", "tlm") /\ "tlm" \in Kinds
    BY <1>3 DEF SendTelemetry, nodeVars, tickVars, ToCP, Kinds
  <2> QED BY <1>t, <1>k, <2>1, AnswerFacts
<1>4. CASE OnMessage
  <2>1. /\ node = "open" /\ UNCHANGED <<nodeTimer, cpTimer, silent>>
        /\ toCP' = Put(toCP, "cp", "pong") /\ "pong" \in Kinds
    BY <1>4 DEF OnMessage, tickVars, ToCP, Kinds
  <2> QED BY <1>t, <1>k, <2>1, AnswerFacts
<1>5. CASE DispatchTelemetry
  <2>1. /\ UNCHANGED <<node, nodeTimer, cpTimer, silent>>
        /\ toCP # <<>> /\ Head(toCP).t = "tlm" /\ toCP' = Tail(toCP)
    BY <1>5 DEF DispatchTelemetry, Reads, nodeVars, tickVars
  <2>2. toCP[1].t # "pong"
    BY <1>t, <2>1, TailFacts
  <2> QED BY <1>t, <1>k, <2>1, <2>2, AnswerFacts
<1>6. CASE DispatchPong
  <2>1. silent' = 0 /\ nodeTimer' = nodeTimer
    BY <1>6 DEF DispatchPong, Reads, nodeVars
  <2> QED BY <1>t, <2>1 DEF PongInv
<1>7. CASE OnWelcome
  <2>1. /\ node = "waiting" /\ toNode # <<>> /\ nodeTimer' = Interval
        /\ UNCHANGED <<cpTimer, silent>>
    BY <1>7 DEF OnWelcome, tickVars
  <2>2. /\ cp = "open" /\ 1 \in 1 .. Len(toNode)
    BY <1>0, <1>t, <2>1, TailFacts DEF PlaceInv, Live
  <2>3. Since <= Delay /\ silent <= HelloTime + Delay + Since
    BY <1>0, <1>p, <2>1, <2>2 DEF StartInv, AtMost
  <2>4. Passed' = 0 /\ Since' = Since
    BY <2>1
  <2> QED BY <1>t, <2>1, <2>3, <2>4 DEF PongInv
<1>8. CASE NodeInterval /\ missed < 2
  <2>1. /\ node = "open" /\ nodeTimer = 0 /\ nodeTimer' = Interval
        /\ UNCHANGED <<cpTimer, silent>>
        /\ toCP' = Put(toCP, "cp", "pong")
    BY <1>0, <1>8 DEF NodeInterval, ToCP, tickVars, TypeInv
  <2>2. Answering(toCP', 0)
    BY <1>0, <1>t, <2>1, AnswerFacts
  <2>3. Passed = Interval /\ Passed' = 0 /\ Since' = Since /\ Passed \in Int
    BY <1>t, <2>1
  <2>4. ~Answering(toCP, Passed)
    BY <1>0, <1>t, <2>1, <2>3, AnswerFacts
  <2>5. \/ silent <= Interval
        \/ Since <= Delay /\ silent <= HelloTime + Delay + Interval + Since
    BY <1>t, <1>p, <2>1, <2>3, <2>4 DEF PongInv
  <2> QED BY <1>t, <2>1, <2>2, <2>3, <2>5 DEF PongInv
<1>9. CASE Tick
  <2>1. /\ node = "open" /\ silent' = silent + 1 /\ nodeTimer > 0
        /\ nodeTimer' = nodeTimer - 1
        /\ \/ cpTimer = 1 /\ cpTimer' = Interval
           \/ cpTimer > 1 /\ cpTimer' = cpTimer - 1
    BY <1>0, <1>9, TickTimers
  <2>2. toCP' = Older(toCP) /\ AtMost(toCP, Delay - 1)
    BY <1>0, <1>9, <2>1, TickQueues
  <2>3. Passed' = Passed + 1 /\ Passed \in Nat /\ Passed < Interval
    BY <1>t, <2>1
  <2>4. Answering(toCP, Passed) => Answering(toCP', Passed + 1) /\ Passed <= Delay - 1
    BY <1>t, <2>2, <2>3, AnswerFacts
  <2>5. CASE silent <= Passed
    BY <1>t, <2>1, <2>3, <2>5 DEF PongInv
  <2>6. CASE silent <= Interval + Passed /\ Answering(toCP, Passed)
    BY <1>t, <2>1, <2>3, <2>4, <2>6 DEF PongInv
  <2>7. CASE /\ Passed <= Since /\ Since <= Passed + Delay
             /\ silent <= HelloTime + Delay + Since
    BY <1>t, <2>1, <2>3, <2>7 DEF PongInv
  <2>8. CASE /\ silent <= HelloTime + Delay + Interval + Since
             /\ Interval + Since <= Passed + Delay
    BY <1>t, <2>1, <2>3, <2>8 DEF PongInv
  <2>9. CASE /\ silent <= HelloTime + Delay + Interval + Since
             /\ Answering(toCP, Passed) /\ Passed <= Since /\ Since <= Passed + Delay
    BY <1>t, <2>1, <2>3, <2>4, <2>9 DEF PongInv
  <2> QED BY <1>p, <2>1, <2>5, <2>6, <2>7, <2>8, <2>9 DEF PongInv
<1> QED
  BY <1>0, <1>1, <1>2, <1>3, <1>4, <1>5, <1>6, <1>7, <1>8, <1>9 DEF Goes

\* The pings.
LEMMA CountStep ==
  ASSUME InTime, LossInv, PulseInv, Next, Healthy'
  PROVE  CountInv'
<1> SUFFICES ASSUME node' = "open" PROVE CountInv'
  BY DEF CountInv
<1> USE HeartbeatAssumption DEF InTime, Since, Writing
<1>0. /\ Healthy /\ (Goes \/ Tick) /\ TypeInv /\ PlaceInv /\ "node" \in hears
      /\ node = "open" => cp = "open"
      /\ cp = "open" => beat \in {"select", "ping", "touch"}
      /\ AtMost(toNode, Delay) /\ Attached /\ Live
  BY HealthyFacts
<1>t. /\ cpTimer \in 1 .. Interval /\ nodeTimer \in 0 .. Interval /\ missed \in Nat
      /\ waited \in Nat /\ due \in BOOLEAN /\ toNode \in Seq(Frame)
  BY <1>0 DEF TypeInv
<1>p. StartInv /\ BeatInv /\ CountInv
  BY <1>0 DEF PulseInv
<1>c. Counted \in {0, Interval, 2 * Interval} /\ Coming \in Int
  BY <1>t DEF Counted, Coming
<1>1. CASE HelloRecorded \/ WelcomeWritten
  <2>1. cp \in {"hello", "welcome"} /\ node' = node
    BY <1>1 DEF HelloRecorded, WelcomeWritten, nodeVars
  <2> QED BY <1>0, <2>1 DEF PlaceInv
<1>2. CASE HeartbeatPings
  <2>1. /\ beat = "select" /\ due /\ beat' = "ping" /\ waited' = 0
        /\ UNCHANGED <<node, nodeTimer, missed, toNode>>
    BY <1>2 DEF HeartbeatPings, Ticks, nodeVars
  <2>2. toNode = <<>> /\ Coming + Counted < nodeTimer + 2 * Interval
    BY <1>p, <2>1 DEF CountInv
  <2>3. Coming' = Coming /\ Counted' = Counted
    BY <1>t, <2>1 DEF Coming, Counted
  <2> QED BY <2>1, <2>2, <2>3 DEF CountInv
<1>3. CASE PingWritten
  <2>1. /\ beat = "ping" /\ beat' = "touch" /\ toNode' = Put(toNode, "node", "ping")
        /\ UNCHANGED <<node, nodeTimer, missed, cpTimer, due>>
    BY <1>3 DEF PingWritten, ToNode, nodeVars, tickVars
  <2>2. toNode = <<>> /\ Coming + Counted < nodeTimer + 2 * Interval
    BY <1>p, <2>1 DEF CountInv
  <2>3. ~due /\ waited = Interval - cpTimer /\ waited <= Delay
    BY <1>p, <2>1 DEF BeatInv
  <2>4. /\ Len(toNode') = 1 /\ toNode'[1].t = "ping" /\ toNode'[1].age = 0
        /\ toNode' # <<>>
    <3>1. "ping" \in Kinds
      BY DEF Kinds
    <3> QED BY <1>0, <2>1, <2>2, <3>1, PutOnly
  <2>5. Coming = 2 * Delay - waited /\ Counted' = Counted
    BY <1>t, <2>1 DEF Coming, Counted
  <2>6. Delay - 0 + Counted < nodeTimer + 2 * Interval
    BY <1>t, <1>c, <2>2, <2>3, <2>5
  <2> QED BY <1>t, <2>1, <2>3, <2>4, <2>5, <2>6 DEF CountInv
<1>4. CASE TouchReturns
  <2>1. /\ beat = "touch" /\ beat' = "select"
        /\ UNCHANGED <<node, nodeTimer, missed, toNode, cpTimer, due>>
    BY <1>0, <1>4 DEF TouchReturns, nodeVars, tickVars
  <2>2. Coming' = Coming /\ Counted' = Counted
    BY <1>t, <2>1 DEF Coming, Counted
  <2> QED BY <1>p, <2>1, <2>2 DEF CountInv
<1>5. CASE SendTelemetry \/ DispatchPong \/ DispatchTelemetry \/ RecordTelemetry
  <2>1. UNCHANGED <<node, nodeTimer, missed, toNode, cpTimer, due, beat, waited>>
    BY <1>5 DEF SendTelemetry, DispatchPong, DispatchTelemetry, RecordTelemetry,
                Reads, nodeVars, tickVars
  <2>2. Coming' = Coming /\ Counted' = Counted
    BY <2>1 DEF Coming, Counted
  <2> QED BY <1>p, <2>1, <2>2 DEF CountInv
<1>6. CASE OnWelcome
  <2>1. /\ node = "waiting" /\ toNode # <<>> /\ nodeTimer' = Interval /\ missed' = 0
        /\ toNode' = Tail(toNode) /\ UNCHANGED <<cpTimer, due, beat, waited>>
    BY <1>6 DEF OnWelcome, tickVars
  <2>2. cp = "open" /\ Len(toNode) = 1 /\ beat = "select" /\ ~due
    BY <1>0, <1>p, <2>1 DEF PlaceInv, Live, StartInv
  <2>3. toNode' = <<>>
    <3>1. Len(Tail(toNode)) = 0 /\ Tail(toNode) \in Seq(Frame)
      BY <1>t, <2>1, <2>2, TailFacts
    <3> QED BY <2>1, <3>1, OlderFacts
  <2>4. Counted' = 0 /\ Coming' = 2 * Delay + cpTimer
    BY <2>1, <2>2 DEF Counted, Coming
  <2> QED BY <1>t, <2>1, <2>3, <2>4 DEF CountInv
<1>7. CASE NodeInterval /\ missed < 2
  <2>1. /\ node = "open" /\ nodeTimer = 0 /\ nodeTimer' = Interval
        /\ missed' = missed + 1
        /\ UNCHANGED <<toNode, cpTimer, due, beat, waited>>
    BY <1>7 DEF NodeInterval, tickVars
  <2>2. Coming' = Coming
    BY <2>1 DEF Coming
  <2>3. Counted' = Counted + Interval
    BY <1>t, <1>7, <2>1 DEF Counted
  <2>4. CASE toNode = <<>>
    BY <1>t, <1>c, <1>p, <2>1, <2>2, <2>3, <2>4 DEF CountInv
  <2>5. CASE toNode # <<>>
    <3>1. toNode[1].age \in Nat
      BY <1>t, <2>5, TailFacts, OlderFacts
    <3> QED BY <1>t, <1>c, <1>p, <2>1, <2>3, <2>5, <3>1 DEF CountInv
  <2> QED BY <2>4, <2>5
<1>8. CASE OnMessage
  <2>1. /\ node = "open" /\ toNode # <<>> /\ missed' = 0
        /\ toNode' = Tail(toNode)
        /\ UNCHANGED <<nodeTimer, cpTimer, due, beat, waited>>
    BY <1>8 DEF OnMessage, tickVars
  <2>2. Len(toNode) = 1 /\ ~due /\ beat \in {"select", "touch"}
    BY <1>p, <2>1 DEF CountInv
  <2>3. toNode' = <<>>
    <3>1. Len(Tail(toNode)) = 0 /\ Tail(toNode) \in Seq(Frame)
      BY <1>t, <2>1, <2>2, TailFacts
    <3> QED BY <2>1, <3>1, OlderFacts
  <2>4. Counted' = 0 /\ Coming' = 2 * Delay + cpTimer
    BY <2>1, <2>2 DEF Counted, Coming
  <2> QED BY <1>t, <2>1, <2>3, <2>4 DEF CountInv
<1>9. CASE Tick
  <2>1. /\ node = "open" /\ UNCHANGED <<cp, beat>> /\ nodeTimer > 0
        /\ nodeTimer' = nodeTimer - 1 /\ missed' = missed
        /\ beat \in {"select", "ping", "touch"}
        /\ \/ cpTimer = 1 /\ cpTimer' = Interval /\ due'
           \/ cpTimer > 1 /\ cpTimer' = cpTimer - 1 /\ (due' <=> due)
        /\ beat \in {"ping", "touch"} => waited' = waited + 1
    BY <1>0, <1>9, TickTimers
  <2>2. toNode' = Older(toNode) /\ AtMost(toNode, Delay - 1)
    BY <1>0, <1>9, TickQueues
  <2>3. Counted' = Counted
    BY <2>1 DEF Counted
  <2>4. CASE toNode = <<>>
    <3>1. toNode' = <<>> /\ Coming + Counted < nodeTimer + 2 * Interval
      BY <1>t, <1>p, <2>1, <2>2, <2>4, OlderFacts DEF CountInv
    <3>2. Coming' = Coming - 1
      <4>1. CASE beat = "ping"
        BY <1>t, <2>1, <4>1 DEF Coming
      <4>2. CASE beat \in {"select", "touch"}
        <5>1. ~due
          BY <1>0, <1>9, <1>p, <1>t, <4>2, TickTimers, WritesInTime DEF BeatInv
        <5>2. CASE cpTimer = 1
          BY <1>t, <2>1, <4>2, <5>1, <5>2 DEF Coming
        <5>3. CASE cpTimer > 1
          <6>1. ~due' /\ cpTimer' = cpTimer - 1
            BY <2>1, <5>1, <5>3
          <6> QED BY <1>t, <2>1, <4>2, <5>1, <6>1 DEF Coming
        <5>4. cpTimer = 1 \/ cpTimer > 1
          BY <1>t
        <5> QED BY <5>2, <5>3, <5>4
      <4> QED BY <2>1, <4>1, <4>2
    <3> QED BY <1>t, <1>c, <2>1, <2>3, <3>1, <3>2 DEF CountInv
  <2>5. CASE toNode # <<>>
    <3>1. /\ Len(toNode) = 1 /\ toNode[1].t = "ping"
          /\ ~due /\ beat \in {"select", "touch"}
          /\ Since <= Delay + toNode[1].age
          /\ Delay - toNode[1].age + Counted < nodeTimer + 2 * Interval
      BY <1>p, <2>1, <2>5 DEF CountInv
    <3>2. 1 \in 1 .. Len(toNode)
      BY <3>1
    <3>3. /\ toNode[1].age \in Nat /\ toNode[1].age <= Delay - 1
          /\ Len(toNode') = 1 /\ toNode'[1].t = "ping"
          /\ toNode'[1].age = toNode[1].age + 1 /\ toNode' # <<>>
      BY <1>t, <2>2, <2>5, <3>1, <3>2, OlderFacts DEF AtMost
    <3>4. cpTimer > 1
      BY <1>t, <3>1, <3>3
    <3>5. cpTimer' = cpTimer - 1 /\ ~due'
      BY <2>1, <3>1, <3>4
    <3>6. /\ Since' <= Delay + toNode'[1].age
          /\ Delay - toNode'[1].age + Counted' < nodeTimer' + 2 * Interval
      <4>1. nodeTimer' = nodeTimer - 1
        BY <2>1
      <4> QED BY SMTT(30), <1>t, <1>c, <2>3, <3>1, <3>3, <3>5, <4>1
    <3> QED BY <2>1, <3>1, <3>3, <3>5, <3>6 DEF CountInv
  <2> QED BY <2>4, <2>5
<1> QED
  BY <1>0, <1>1, <1>2, <1>3, <1>4, <1>5, <1>6, <1>7, <1>8, <1>9 DEF Goes

LEMMA PulseStep ==
  ASSUME InTime
  PROVE  LossInv /\ PulseInv /\ [Next]_vars => PulseInv'
<1> SUFFICES ASSUME LossInv, PulseInv, [Next]_vars, Healthy' PROVE PulseInv'
  BY DEF PulseInv
<1>1. CASE Next
  BY <1>1, StartStep, BeatStep, PongStep, CountStep DEF PulseInv
<1>2. CASE UNCHANGED vars
  BY <1>2 DEF vars, PulseInv, Healthy, StartInv, BeatInv, PongInv, CountInv,
     Since, Passed, Counted, Coming, Writing, Answering
<1> QED BY <1>1, <1>2

\* What can close a healthy connection does not happen in its rhythm.
LEMMA NothingCloses ==
  ASSUME InTime, LossInv, PulseInv, Next, Healthy
  PROVE  cp' # "closed" /\ beat' # "closing" /\ node' # "closed"
<1>0. /\ TypeInv /\ PlaceInv /\ Live /\ beat \notin {"closing", "done"} /\ Attached
      /\ toNode \in Seq(Frame) /\ toCP \in Seq(Frame)
      /\ lost["cp"] = 0 /\ lost["node"] = 0
      /\ NoClose(toCP) /\ NoClose(toNode) /\ missed \in Nat
      /\ waited \in Nat /\ WriteTimeout \in Nat
  BY HeartbeatAssumption DEF LossInv, TypeInv, HealthyInv, Healthy, Ends
<1>1. ~HeartbeatCloses /\ ~WriteTimesOut /\ ~CloseReturns
  BY <1>0, PulseIsEnough DEF HeartbeatCloses, WriteTimesOut, CloseReturns, Writing
<1>2. ~ReadClose /\ ~OnClose
  <2>1. toCP # <<>> => Head(toCP).t # "close"
    BY <1>0, TailFacts DEF NoClose
  <2>2. toNode # <<>> => Head(toNode).t # "close"
    BY <1>0, TailFacts DEF NoClose
  <2> QED BY <2>1, <2>2 DEF ReadClose, Reads, OnClose
<1>3. NodeInterval => UNCHANGED <<cp, beat, node>>
  <2>1. NodeInterval => missed + 1 <= 2
    BY <1>0, PulseIsEnough DEF NodeInterval
  <2> QED BY <1>0, <2>1 DEF NodeInterval
<1>4. Tick => UNCHANGED <<cp, beat, node>>
  BY DEF Tick
<1>5. CASE \/ HelloRecorded \/ WelcomeWritten \/ HeartbeatPings \/ PingWritten
           \/ TouchReturns \/ DispatchPong \/ DispatchTelemetry
           \/ RecordTelemetry \/ OnWelcome \/ OnMessage \/ SendTelemetry
  BY <1>0, <1>5 DEF HelloRecorded, WelcomeWritten, HeartbeatPings, PingWritten,
     TouchReturns, DispatchPong, DispatchTelemetry, Reads, RecordTelemetry,
     OnWelcome, OnMessage, SendTelemetry, nodeVars, Live, Attached
<1>6. CASE (\E side \in Ends : Cut(side)) \/ NodeCrash \/ CPCrash
  BY <1>0, <1>6 DEF Cut, NodeCrash, CPCrash, nodeVars, Live, Attached
<1> QED BY <1>0, <1>1, <1>2, <1>3, <1>4, <1>5, <1>6 DEF Next, Live, Attached

\* conn.go heartbeat and uplink.ts onWelcome: the two timers never close a
\* connection whose ends are both there, if a frame and a write take less than
\* half a period, a Touch is done by the next tick, the silence of the handshake
\* is within the grace and a write does not time out.
THEOREM HealthyConnectionsStay ==
  /\ 2 * Delay < Interval /\ Delay + TouchTime <= Interval
  /\ HelloTime + Delay <= Interval + Grace /\ Delay < WriteTimeout
  => (Spec => HealthyIsKept)
<1> SUFFICES ASSUME InTime PROVE Spec => HealthyIsKept
  BY DEF InTime
<1>1. Init => PulseInv
  BY HeartbeatAssumption DEF Init, PulseInv, StartInv, BeatInv, PongInv, CountInv,
                             Writing
<1>2. LossInv /\ PulseInv /\ [Next]_vars => PulseInv'
  BY PulseStep
<1>3. LossInv /\ PulseInv /\ [Next]_vars =>
        [Healthy => cp' # "closed" /\ beat' # "closing" /\ node' # "closed"]_vars
  BY NothingCloses
<1> QED BY <1>1, <1>2, <1>3, LossInvariant, PTL DEF Spec, HealthyIsKept
=============================================================================

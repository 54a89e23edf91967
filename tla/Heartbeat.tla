------------------------------ MODULE Heartbeat ------------------------------
(***************************************************************************)
(* How the two ends of an uplink notice that the other is gone, and what   *)
(* the console says meanwhile: newConn, Conn.heartbeat and the pong and    *)
(* tlm cases of dispatch (internal/uplink/conn.go), what ServeHTTP does    *)
(* between newConn and serve (internal/uplink/handler.go), the node's      *)
(* heartbeat timer (dsh/src/uplink.ts), RecordHello, Touch and             *)
(* RecordTelemetry (internal/nodes/store.go) and the two readings of       *)
(* last_seen_at (internal/console/nodes.go and cmd/dshf/main.go).          *)
(*                                                                         *)
(* One connection, in units of 5 s.  Timers are countdowns: Tick lets a    *)
(* unit pass and never passes a deadline, so what is due happens first.    *)
(* What takes time, a query or a write, starts in one action and ends in   *)
(* another, with time in between up to its deadline.  Delay bounds how     *)
(* long a frame takes, time in a read loop included, and how long a write  *)
(* waits, while both ends are there.                                       *)
(***************************************************************************)
EXTENDS Integers, Sequences

CONSTANTS Interval,      \* heartbeatInterval, 20 s
          Grace,         \* what heartbeat adds to two intervals, 5 s
          WriteTimeout,  \* writeTimeout, 30 s: no other write waits before it
          HelloTime,     \* RecordHello's deadline, 10 s
          TouchTime,     \* Touch's deadline, 5 s
          SaveTime,      \* RecordTelemetry's deadline, 10 s
          CloseTime,     \* ws.Close: 5 s for its frame and 5 s for the peer's
          OfflineAfter,  \* offlineAfter, 60 s
          Delay,         \* bound: a frame's way through a healthy network
          MaxFaults      \* bound: RecordHello and Touch calls that fail

ASSUME HeartbeatAssumption ==
  /\ Interval \in Nat \ {0} /\ Grace \in Nat /\ WriteTimeout \in Nat
  /\ HelloTime \in Nat /\ TouchTime \in Nat /\ SaveTime \in Nat
  /\ CloseTime \in Nat /\ OfflineAfter \in Nat \ {0} /\ Delay \in Nat
  /\ MaxFaults \in Nat

VARIABLES
  cp,        \* ServeHTTP: in RecordHello ("hello"), writing the "welcome",
             \* "open" in serve, "closed", or "crashed" with its process
  beat,      \* Conn.heartbeat: not started ("off"), in "select", writing its
             \* "ping", in "touch", "closing" in ws.Close, or "done"
  node,      \* Uplink: "waiting" for welcome, "open", "closed" or "crashed"
  hears,     \* the ends that still receive what the other sends
  toNode,    \* frames in flight, with their age
  toCP,
  cpTimer,   \* until the control plane's ticker fires
  due,       \* its channel holds a tick; another one would be dropped
  nodeTimer, \* until the next run of the node's interval
  waited,    \* how long RecordHello, a write, Touch or ws.Close has taken
  silent,    \* time.Since(c.lastPong)
  missed,    \* missedPongs
  saving,    \* time left to a RecordTelemetry under way, -1 for none
  seen,      \* age of last_seen_at, OfflineAfter standing for anything older
  lost,      \* per end, how long nothing the other sends has reached it: 0
             \* while it does, 1 at the moment it stops
  faults     \* RecordHello and Touch calls that failed

vars == <<cp, beat, node, hears, toNode, toCP, cpTimer, due, nodeTimer, waited,
          silent, missed, saving, seen, lost, faults>>
nodeVars == <<node, nodeTimer, missed>>
tickVars == <<cpTimer, due>>

Ends == {"cp", "node"}
Smaller(a, b) == IF a < b THEN a ELSE b
Larger(a, b) == IF a > b THEN a ELSE b

\* How long after a loss the silence may still pass for short, a ticker may
\* start whose ticks nothing holds up, a tick may come to be judged, and a
\* query may begin that refreshes the row.
Judged == Delay + 2 * Interval + Grace
Begun == Larger(Judged, HelloTime + WriteTimeout)
Looked == Larger(Judged + WriteTimeout + TouchTime, Begun + Interval)
Refreshed == Larger(Judged + WriteTimeout + TouchTime,
                    Larger(Delay + SaveTime, HelloTime))

\* How long each end may still take the other for present.
NoticeByCP == Looked + CloseTime
NoticeByNode == Delay + 3 * Interval
\* How long a machine may read as online that the control plane cannot hear.
OnlineFor == Refreshed + OfflineAfter

\* Bound: the clocks of the losses stop once all the limits are passed.
Forgotten(end) == (IF end = "cp" THEN OnlineFor ELSE NoticeByNode) + 2

\* The registry holds the connection from newConn until serve has returned.
Live == cp \in {"hello", "welcome", "open"}
\* The node's socket is open, and read.
Attached == node \in {"waiting", "open"}

\* newConn set lastPong and Add has registered the connection; RecordHello is
\* under way, and the row has the age this machine's last connection left.
Init ==
  /\ cp = "hello" /\ beat = "off" /\ node = "waiting" /\ hears = Ends
  /\ toNode = <<>> /\ toCP = <<>>
  /\ cpTimer = Interval /\ due = FALSE /\ nodeTimer = Interval
  /\ waited = 0 /\ silent = 0 /\ missed = 0 /\ saving = -1
  /\ seen \in 0 .. OfflineAfter /\ lost = [end \in Ends |-> 0] /\ faults = 0

-----------------------------------------------------------------------------
\* A frame toward an end that no longer receives is lost without a sign.
Put(q, to, t) ==
  IF to \in hears THEN Append(q, [t |-> t, age |-> 0]) ELSE q
ToNode(t) == toNode' = Put(toNode, "node", t)
ToCP(t) == toCP' = Put(toCP, "cp", t)

\* The clocks the properties are about.
Loses(E) == lost' = [end \in Ends |->
              IF end \in E /\ lost[end] = 0 THEN 1 ELSE lost[end]]

\* A query sets last_seen_at to the moment it began, at most w ago; or it
\* fails, which the code logs and forgets.
Stamps(w) ==
  \/ /\ \E a \in 0 .. w : seen' = Smaller(a, OfflineAfter)
     /\ UNCHANGED faults
  \/ faults < MaxFaults /\ faults' = faults + 1 /\ UNCHANGED seen

\* RecordHello returns, and ServeHTTP writes the welcome.
HelloRecorded ==
  /\ cp = "hello" /\ Stamps(waited)
  /\ cp' = "welcome" /\ waited' = 0
  /\ UNCHANGED <<beat, nodeVars, hears, toNode, toCP, tickVars, silent, saving,
                 lost>>

\* The welcome is written: serve starts, and heartbeat with its ticker.
WelcomeWritten ==
  /\ cp = "welcome"
  /\ cp' = "open" /\ beat' = "select" /\ ToNode("welcome")
  /\ cpTimer' = Interval /\ due' = FALSE /\ waited' = 0
  /\ UNCHANGED <<nodeVars, hears, toCP, silent, saving, seen, lost, faults>>

\* heartbeat's select receives a tick.
Ticks == cp = "open" /\ beat = "select" /\ due

\* Mutant: the silence is never judged too long.
SilentTooLongNever == FALSE

\* silent > 2*heartbeatInterval+5*time.Second
SilentTooLong == silent > 2 * Interval + Grace

\* Too long a silence: ws.Close sends a close frame, then waits for the peer.
HeartbeatCloses ==
  /\ Ticks /\ SilentTooLong
  /\ beat' = "closing" /\ due' = FALSE /\ waited' = 0
  /\ ToNode("close") /\ Loses({"node"})
  /\ UNCHANGED <<cp, nodeVars, hears, toCP, cpTimer, silent, saving, seen,
                 faults>>

\* Otherwise a ping is written.
HeartbeatPings ==
  /\ Ticks /\ ~SilentTooLong
  /\ beat' = "ping" /\ due' = FALSE /\ waited' = 0
  /\ UNCHANGED <<cp, nodeVars, hears, toNode, toCP, cpTimer, silent, saving,
                 seen, lost, faults>>

\* Mutant: the ping goes out, the row is left alone.
PingWrittenOnly ==
  /\ beat = "ping"
  /\ beat' = "select" /\ waited' = 0 /\ ToNode("ping")
  /\ UNCHANGED <<cp, nodeVars, hears, toCP, tickVars, silent, saving, seen,
                 lost, faults>>

\* Once it is on the wire, received or not, Touch refreshes last_seen_at.
PingWritten ==
  /\ beat = "ping"
  /\ beat' = "touch" /\ waited' = 0 /\ ToNode("ping")
  /\ UNCHANGED <<cp, nodeVars, hears, toCP, tickVars, silent, saving, seen,
                 lost, faults>>

\* Touch returns, perhaps after the connection has ended: its context outlives
\* it.  The loop then waits for the next tick.
TouchReturns ==
  /\ beat = "touch" /\ Stamps(waited)
  /\ beat' = (IF cp = "open" THEN "select" ELSE "done") /\ waited' = 0
  /\ UNCHANGED <<cp, nodeVars, hears, toNode, toCP, tickVars, silent, saving,
                 lost>>

\* writeTimeout: a peer that no longer acknowledges has filled the socket, and
\* ws.Write takes the connection down.
WriteTimesOut ==
  /\ cp = "welcome" \/ beat = "ping"
  /\ waited >= WriteTimeout
  /\ cp' = "closed" /\ beat' = "done" /\ waited' = 0 /\ Loses(Ends)
  /\ UNCHANGED <<nodeVars, hears, toNode, toCP, tickVars, silent, saving, seen,
                 faults>>

\* ws.Close returns, with the peer's close frame or after its time, and serve
\* with it.
CloseReturns ==
  /\ beat = "closing"
  /\ cp' = "closed" /\ beat' = "done" /\ waited' = 0 /\ Loses({"cp"})
  /\ UNCHANGED <<nodeVars, hears, toNode, toCP, tickVars, silent, saving, seen,
                 faults>>

\* serve reads the next frame.
Reads(t) ==
  /\ cp = "open" /\ "cp" \in hears /\ toCP # <<>> /\ Head(toCP).t = t
  /\ toCP' = Tail(toCP)
  /\ UNCHANGED <<nodeVars, hears, toNode, tickVars, seen, faults>>

\* dispatch: a pong, solicited or not, resets lastPong; tlm starts a goroutine
\* that writes the snapshot.
DispatchPong ==
  Reads("pong") /\ silent' = 0 /\ UNCHANGED <<cp, beat, waited, saving, lost>>
DispatchTelemetry ==
  /\ Reads("tlm") /\ saving' = SaveTime
  /\ UNCHANGED <<cp, beat, waited, silent, lost>>

\* A close ends serve, and heartbeat with it, which first finishes a Touch.
ReadClose ==
  /\ Reads("close") /\ cp' = "closed" /\ Loses(Ends)
  /\ IF beat = "touch" THEN UNCHANGED <<beat, waited>>
                       ELSE beat' = "done" /\ waited' = 0
  /\ UNCHANGED <<silent, saving>>

\* RecordTelemetry: the row was seen when it began, or the write failed.
RecordTelemetry ==
  /\ saving >= 0 /\ saving' = -1
  /\ \/ \E a \in 0 .. SaveTime - saving : seen' = Smaller(a, OfflineAfter)
     \/ UNCHANGED seen
  /\ UNCHANGED <<cp, beat, nodeVars, hears, toNode, toCP, tickVars, waited,
                 silent, lost, faults>>

-----------------------------------------------------------------------------
\* onWelcome: the timers start, and telemetry is sent.
OnWelcome ==
  /\ node = "waiting" /\ toNode # <<>> /\ Head(toNode).t = "welcome"
  /\ node' = "open" /\ toNode' = Tail(toNode) /\ ToCP("tlm")
  /\ missed' = 0 /\ nodeTimer' = Interval
  /\ UNCHANGED <<cp, beat, hears, tickVars, waited, silent, saving, seen, lost,
                 faults>>

\* The node's interval: count, give up at the third one without a ping, else
\* send a pong of its own accord.
NodeInterval ==
  /\ node = "open" /\ nodeTimer = 0
  /\ missed' = missed + 1 /\ nodeTimer' = Interval
  /\ IF missed' > 2
     THEN node' = "closed" /\ ToCP("close") /\ Loses({"cp"})
     ELSE ToCP("pong") /\ UNCHANGED <<node, lost>>
  /\ UNCHANGED <<cp, beat, hears, toNode, tickVars, waited, silent, saving, seen,
                 faults>>

\* Mutant: a ping is answered but not counted as a sign of life.
OnMessageForgets ==
  /\ node = "open" /\ toNode # <<>> /\ Head(toNode).t = "ping"
  /\ toNode' = Tail(toNode) /\ ToCP("pong")
  /\ UNCHANGED <<cp, beat, nodeVars, hears, tickVars, waited, silent, saving,
                 seen, lost, faults>>

\* onMessage, case 'ping'.
OnMessage ==
  /\ node = "open" /\ toNode # <<>> /\ Head(toNode).t = "ping"
  /\ toNode' = Tail(toNode) /\ missed' = 0 /\ ToCP("pong")
  /\ UNCHANGED <<cp, beat, node, nodeTimer, hears, tickVars, waited, silent,
                 saving, seen, lost, faults>>

\* onClose: the timers stop.
OnClose ==
  /\ node = "open" /\ toNode # <<>> /\ Head(toNode).t = "close"
  /\ toNode' = Tail(toNode) /\ node' = "closed" /\ Loses({"cp"})
  /\ UNCHANGED <<cp, beat, nodeTimer, missed, hears, toCP, tickVars, waited,
                 silent, saving, seen, faults>>

\* sendTelemetry: at any moment, one snapshot on its way at a time.
SendTelemetry ==
  /\ node = "open" /\ saving = -1
  /\ \A i \in DOMAIN toCP : toCP[i].t # "tlm"
  /\ ToCP("tlm")
  /\ UNCHANGED <<cp, beat, nodeVars, hears, toNode, tickVars, waited, silent,
                 saving, seen, lost, faults>>

-----------------------------------------------------------------------------
\* The network stops carrying one direction, and neither end is told.
Cut(side) ==
  /\ side \in hears
  /\ hears' = hears \ {side} /\ Loses({side})
  /\ IF side = "cp" THEN toCP' = <<>> /\ UNCHANGED toNode
                    ELSE toNode' = <<>> /\ UNCHANGED toCP
  /\ UNCHANGED <<cp, beat, nodeVars, tickVars, waited, silent, saving, seen,
                 faults>>

\* The machine vanishes: a lid closed, a lost uplink, a power cut.
NodeCrash ==
  /\ Attached
  /\ node' = "crashed" /\ hears' = hears \ {"node"} /\ toNode' = <<>>
  /\ Loses({"cp"})
  /\ UNCHANGED <<cp, beat, nodeTimer, missed, toCP, tickVars, waited, silent,
                 saving, seen, faults>>

\* The control plane's host goes down with its table of connections; the
\* next process starts with an empty one and the row it finds.
CPCrash ==
  /\ Live
  /\ cp' = "crashed" /\ beat' = "done" /\ saving' = -1 /\ waited' = 0
  /\ hears' = hears \ {"cp"} /\ toCP' = <<>> /\ Loses(Ends)
  /\ UNCHANGED <<nodeVars, toNode, tickVars, silent, seen, faults>>

-----------------------------------------------------------------------------
\* Each end receives what the other sends.
Healthy == \A end \in Ends : lost[end] = 0

\* What is due before time may pass.
Writing == cp = "welcome" \/ beat = "ping"
Overdue == \/ cp = "hello" /\ waited >= HelloTime
           \/ Writing /\ waited >= (IF Healthy THEN Smaller(Delay, WriteTimeout)
                                               ELSE WriteTimeout)
           \/ beat = "touch" /\ waited >= TouchTime
           \/ beat = "closing" /\ waited >= CloseTime
Late(q) == \E i \in DOMAIN q : q[i].age >= Delay
Due == \/ Ticks \/ Overdue
       \/ node = "open" /\ nodeTimer = 0
       \/ saving = 0
       \/ cp = "open" /\ Late(toCP)
       \/ Attached /\ Late(toNode)

Older(q) == [i \in DOMAIN q |-> [q[i] EXCEPT !.age = @ + 1]]

\* A ticker that fires with a tick in its channel drops this one.  (A timer
\* nobody reads any more stands at its start, which keeps the states few.)
TickerRuns ==
  IF beat \notin {"select", "ping", "touch"} THEN cpTimer' = Interval /\ due' = FALSE
  ELSE IF cpTimer = 1 THEN cpTimer' = Interval /\ due' = TRUE
                      ELSE cpTimer' = cpTimer - 1 /\ UNCHANGED due

Tick ==
  /\ ~Due /\ TickerRuns
  /\ toCP' = IF cp = "open" THEN Older(toCP) ELSE <<>>
  /\ toNode' = IF Attached THEN Older(toNode) ELSE <<>>
  /\ nodeTimer' = IF node = "open" THEN nodeTimer - 1 ELSE Interval
  /\ waited' = IF cp \in {"hello", "welcome"} \/ beat \in {"ping", "touch", "closing"}
               THEN waited + 1 ELSE 0
  /\ silent' = IF Live THEN silent + 1 ELSE 0
  /\ saving' = IF saving > 0 THEN saving - 1 ELSE saving
  /\ seen' = Smaller(seen + 1, OfflineAfter)
  /\ lost' = [end \in Ends |->
       IF lost[end] = 0 THEN 0 ELSE Smaller(lost[end] + 1, Forgotten(end))]
  /\ missed' = IF node = "open" THEN missed ELSE 0
  /\ UNCHANGED <<cp, beat, node, hears, faults>>

Next ==
  \/ HelloRecorded \/ WelcomeWritten
  \/ HeartbeatCloses \/ HeartbeatPings \/ PingWritten \/ TouchReturns
  \/ WriteTimesOut \/ CloseReturns
  \/ DispatchPong \/ DispatchTelemetry \/ ReadClose \/ RecordTelemetry
  \/ OnWelcome \/ NodeInterval \/ OnMessage \/ OnClose \/ SendTelemetry
  \/ (\E side \in Ends : Cut(side)) \/ NodeCrash \/ CPCrash
  \/ Tick

Spec == Init /\ [][Next]_vars

-----------------------------------------------------------------------------
\* Mutant: a row that was ever seen reads as online.
RecentlySeenEver == TRUE

\* time.Since(*n.LastSeenAt) < offlineAfter
RecentlySeen == seen < OfflineAfter

\* `dshf node list`: nodeStatus knows the row only.  The row was seen once,
\* and is not revoked here.
NodeStatus == IF RecentlySeen THEN "online" ELSE "offline"

\* The chooser and the overlay: status looks in the registry first.
Status == IF Live THEN "online" ELSE NodeStatus

\* conn.go heartbeat and uplink.ts onWelcome: two timers that were started at
\* different moments, the one after RecordHello and a write and the other after
\* the welcome's way, and count in each other's frames never close a connection
\* whose ends are both there and whose frames and writes take at most Delay.
HealthyIsKept ==
  [][Healthy => cp' # "closed" /\ beat' # "closing" /\ node' # "closed"]_vars

\* The same timers notice every loss: one direction or both, either machine
\* gone without a word, a welcome or a ping stuck in a full socket.
LossIsNoticed ==
  /\ Live => lost["cp"] <= NoticeByCP + 1
  /\ node = "open" => lost["node"] <= NoticeByNode + 1

\* Touch: while the connection is healthy and the database takes the writes,
\* `dshf node list`, which cannot see the registry, reads online as well, from
\* the moment RecordHello has returned.
HealthyReadsOnline ==
  Healthy /\ faults = 0 /\ cp # "hello" => NodeStatus = "online"

\* Touch: "a control-plane crash cannot leave nodes stuck online"; neither does
\* anything else, although last_seen_at is refreshed for pings nobody answers,
\* late, and even after the connection has ended.
GoneReadsOffline ==
  lost["cp"] > OnlineFor => Status = "offline" /\ NodeStatus = "offline"
=============================================================================

-------------------------------- MODULE Audit --------------------------------
(***************************************************************************)
(* The recorder of the privilege gate's decisions (internal/audit/audit.go):*)
(* a bounded queue that request handlers fill without ever waiting, one    *)
(* goroutine that drains it into audit_log, and a stop function that       *)
(* cmd/dshf/main.go defers.  The n-th decision is the number n.            *)
(***************************************************************************)
EXTENDS Integers, Sequences

CONSTANTS QueueSize,    \* 1024 in the code
          MaxDecisions, \* bound: decisions made
          MaxFaults     \* bound: inserts that fail on their own

ASSUME AuditAssumption == /\ QueueSize \in Nat \ {0}
                          /\ MaxDecisions \in Nat /\ MaxFaults \in Nat

VARIABLES
  made,     \* decisions so far
  queue,    \* Recorder.queue
  drain,    \* where the goroutine is: "select" in its loop, "flush" after the
            \* context ended, "write" and "flushWrite" holding an entry, "done"
  hand,     \* the entry being written
  stopping, \* the recorder's context is cancelled
  before,   \* decisions made before that
  rows,     \* audit_log
  warned,   \* decisions whose loss was logged
  faults    \* inserts failed so far

vars == <<made, queue, drain, hand, stopping, before, rows, warned, faults>>

Decision == 1 .. MaxDecisions

TypeOK ==
  /\ made \in 0 .. MaxDecisions /\ before \in 0 .. MaxDecisions
  /\ queue \in Seq(Decision) /\ Len(queue) <= QueueSize
  /\ drain \in {"select", "write", "flush", "flushWrite", "done"}
  /\ hand \in 0 .. MaxDecisions /\ stopping \in BOOLEAN
  /\ rows \in Seq(Decision) /\ warned \subseteq Decision
  /\ faults \in 0 .. MaxFaults

Init ==
  /\ made = 0 /\ before = 0 /\ queue = <<>> /\ rows = <<>> /\ warned = {}
  /\ drain = "select" /\ hand = 0 /\ stopping = FALSE /\ faults = 0

\* Mutant: an entry is dropped without a warning.
RecordDecisionSilent ==
  /\ made < MaxDecisions
  /\ made' = made + 1
  /\ queue' = IF Len(queue) < QueueSize THEN Append(queue, made + 1) ELSE queue
  /\ UNCHANGED <<drain, hand, stopping, before, rows, warned, faults>>

\* RecordDecision: never blocks; a full queue drops the entry with a warning.
RecordDecision ==
  /\ made < MaxDecisions
  /\ made' = made + 1
  /\ IF Len(queue) < QueueSize
     THEN queue' = Append(queue, made + 1) /\ UNCHANGED warned
     ELSE warned' = warned \cup {made + 1} /\ UNCHANGED queue
  /\ UNCHANGED <<drain, hand, stopping, before, rows, faults>>

\* The stop function's cancel; it then waits for the goroutine.
Stop ==
  /\ ~stopping
  /\ stopping' = TRUE /\ before' = made
  /\ UNCHANGED <<made, queue, drain, hand, rows, warned, faults>>

\* case e := <-r.queue: ready whether or not the context has ended, and Go
\* picks among ready cases at random.
Take ==
  /\ drain = "select" /\ queue # <<>>
  /\ hand' = Head(queue) /\ queue' = Tail(queue)
  /\ drain' = "write"
  /\ UNCHANGED <<made, stopping, before, rows, warned, faults>>

\* case <-ctx.Done()
BeginFlush ==
  /\ drain = "select" /\ stopping
  /\ drain' = "flush"
  /\ UNCHANGED <<made, queue, hand, stopping, before, rows, warned, faults>>

FlushTake ==
  /\ drain = "flush" /\ queue # <<>>
  /\ hand' = Head(queue) /\ queue' = Tail(queue)
  /\ drain' = "flushWrite"
  /\ UNCHANGED <<made, stopping, before, rows, warned, faults>>

\* Mutant: the flush waits for a next entry instead of looking for one.
FlushDoneWaits == FALSE

\* Nothing queued any more: the goroutine returns.
FlushDone ==
  /\ drain = "flush" /\ queue = <<>>
  /\ drain' = "done"
  /\ UNCHANGED <<made, queue, hand, stopping, before, rows, warned, faults>>

\* Back to the loop the entry came from.
Return == drain' = IF drain = "write" THEN "select" ELSE "flush"

\* write: the insert succeeds.  It may still do so when the context ends while
\* it runs.
Written ==
  /\ drain \in {"write", "flushWrite"}
  /\ rows' = Append(rows, hand) /\ hand' = 0
  /\ Return
  /\ UNCHANGED <<made, queue, stopping, before, warned, faults>>

\* Mutant: a failed insert is tried again later.
WriteFailsRetries ==
  /\ drain = "write" /\ faults < MaxFaults /\ Len(queue) < QueueSize
  /\ faults' = faults + 1
  /\ queue' = Append(queue, hand) /\ hand' = 0
  /\ rows' \in {rows, Append(rows, hand)}
  /\ Return
  /\ UNCHANGED <<made, stopping, before, warned>>

\* write: the insert fails (database down, 5 s timeout, a foreign key), or its
\* context is the cancelled one of the main loop.  A timed-out or cancelled
\* insert may have been committed all the same.
WriteFails ==
  /\ \/ drain \in {"write", "flushWrite"} /\ faults < MaxFaults
        /\ faults' = faults + 1
     \/ drain = "write" /\ stopping /\ UNCHANGED faults
  /\ warned' = warned \cup {hand} /\ hand' = 0
  /\ rows' \in {rows, Append(rows, hand)}
  /\ Return
  /\ UNCHANGED <<made, queue, stopping, before>>

Drain == Take \/ BeginFlush \/ FlushTake \/ FlushDone \/ Written \/ WriteFails

Next == RecordDecision \/ Stop \/ Drain

Spec == Init /\ [][Next]_vars

\* The goroutine runs.
FairSpec == Spec /\ WF_vars(Drain)

-----------------------------------------------------------------------------
\* One queue and one writer: rows appear in the order the decisions were made,
\* each at most once.
RowsInOrder == \A i, j \in 1 .. Len(rows) : i < j => rows[i] < rows[j]

\* RecordDecision: "the dropped-count warning makes the loss visible".  Once
\* the recorder has stopped, every decision made before it was told to stop
\* has a row or a warning.
LossIsVisible ==
  drain = "done" =>
    \A d \in 1 .. before :
      d \notin warned => \E i \in 1 .. Len(rows) : rows[i] = d

\* stop's <-done: from the moment it is told to stop until it has, the
\* goroutine has a step of its own to take, whatever the requests do; a write
\* ends by itself, after 5 s at the latest.
StopNeverWaits == stopping /\ drain # "done" => ENABLED Drain

\* ... and with finitely many decisions it gets there.
StopReturns == stopping ~> drain = "done"

\* drain: "Flush what is already queued so a clean shutdown does not lose the
\* decisions that led up to it."
CleanStopKeepsAll ==
  drain = "done" /\ faults = 0 /\ made <= QueueSize =>
    \A d \in 1 .. before : d \notin warned
=============================================================================

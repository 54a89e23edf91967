------------------------------- MODULE Gateway -------------------------------
(***************************************************************************)
(* A browser request on its way to a machine: Handler.ServeHTTP, bridge and *)
(* fail of internal/proxy/http.go, with the recorder of Audit below it and *)
(* the uplink as RequestContract describes it, which UplinkConn implements.*)
(*                                                                         *)
(* One handler goroutine per request.  A step is what it does between two  *)
(* waits: the selection, the gate and the lookup need none, so a request   *)
(* that is not forwarded is answered in one step; then it waits for its    *)
(* own body, for Do, and for each chunk.  Chunks are positions, the        *)
(* spliced tag is Tag.  The gate's two lists are the classes "read" and    *)
(* "write"; "fleet" is the namespace it leaves alone.                      *)
(***************************************************************************)
EXTENDS Audit

CONSTANTS Req,          \* browser requests
          Levels,       \* DSHF_PRIVILEGED_ACCESS values to consider
          MaxChunks,    \* bound: chunks of an answer
          MaxDocument,  \* maxDocumentBytes, in chunks
          MaxFlips      \* bound: times the machine comes or goes

ASSUME GatewayAssumption ==
  /\ MaxChunks \in Nat /\ MaxDocument \in Nat \ {0} /\ MaxFlips \in Nat
  /\ Levels \subseteq {"none", "read", "full"}

VARIABLES
  level,     \* Handler.Privileged
  online,    \* Registry.Get finds the machine
  flips,     \* times that changed
  pc,        \* the handler: "idle", "body" reading the request, "opening" a
             \* bridge, "do", "buffer", "stream", then how it was answered
  withheld,  \* the level withholds the method this request names
  decision,  \* the number RecordDecision gave to it, 0 for none
  allowed,   \* ... and what it said
  shown,     \* what was written to the browser
  said,      \* a warning was logged for this answer
  call, source, sent, got, end   \* see RequestContract

Up == INSTANCE RequestContract

proxyVars == <<level, online, flips, pc, withheld, decision, allowed, shown,
               said>>
upVars == <<call, source, sent, got, end>>
allVars == <<vars, proxyVars, upVars>>

Tag == -1
Answered == {"chosen", "refused", "offline", "tooLarge", "failed", "bridged",
             "rejected", "whole", "broken", "left"}

GatewayInit ==
  /\ Init /\ Up!ContractInit
  /\ level \in Levels /\ online \in BOOLEAN /\ flips = 0
  /\ pc = [r \in Req |-> "idle"] /\ withheld = [r \in Req |-> FALSE]
  /\ decision = [r \in Req |-> 0] /\ allowed = [r \in Req |-> FALSE]
  /\ shown = [r \in Req |-> <<>>] /\ said = [r \in Req |-> FALSE]

-----------------------------------------------------------------------------
Goto(r, s) == pc' = [pc EXCEPT ![r] = s]

\* record: one decision, handed to the recorder without waiting.
Decide(r, ok) ==
  /\ RecordDecision
  /\ decision' = [decision EXCEPT ![r] = made']
  /\ allowed' = [allowed EXCEPT ![r] = ok]
NoDecision == UNCHANGED <<vars, decision, allowed>>

\* classify: methods of namespace dsh in neither list, in privilegedRead or in
\* privilegedWrite, and those of namespace fleet.
Class == {"plain", "read", "write", "fleet"}

\* Access.refuse, for the methods of namespace dsh.
Refuses(class) == \/ class = "write" /\ level # "full"
                  \/ class = "read" /\ level = "none"

\* Mutant: the machine is looked up first.
BlockedOnline(class) == online /\ Refuses(class)

\* The gate runs before the connection is looked up.
Blocked(class) == Refuses(class)

\* No machine selected: the chooser, or a status.
Choose(r) ==
  /\ pc[r] = "idle"
  /\ Goto(r, "chosen") /\ NoDecision
  /\ UNCHANGED <<level, online, flips, withheld, shown, said, upVars>>

\* A machine is selected; classify names the method's class.
Arrives(r, class) ==
  /\ pc[r] = "idle"
  /\ withheld' = [withheld EXCEPT ![r] = Refuses(class)]
  /\ UNCHANGED <<level, online, flips, shown, said, upVars>>

Deny(r, class) ==
  /\ Arrives(r, class) /\ Blocked(class)
  /\ Goto(r, "refused") /\ Decide(r, FALSE)

\* The lookup finds no connection: a page for a navigation, else a status.
Offline(r, class) ==
  /\ Arrives(r, class) /\ ~Blocked(class) /\ ~online
  /\ Goto(r, "offline") /\ Decide(r, TRUE)

\* It finds one, for a request or for an upgrade.
Forward(r, class) ==
  /\ Arrives(r, class) /\ ~Blocked(class) /\ online
  /\ Goto(r, "body") \/ Goto(r, "opening")
  /\ NoDecision

\* bridge: OpenWS fails, the browser's upgrade is rejected, or both are up.
OpenBridge(r) ==
  /\ pc[r] = "opening"
  /\ \/ Goto(r, "failed") /\ Decide(r, TRUE)
     \/ Goto(r, "rejected") /\ NoDecision
     \/ Goto(r, "bridged") /\ Decide(r, TRUE)
  /\ UNCHANGED <<level, online, flips, withheld, shown, said, upVars>>

\* The request's body is over the cap or cannot be read, or Do is called on
\* the connection that was found, which may be gone by now.
ReadBody(r) ==
  /\ pc[r] = "body"
  /\ \/ Goto(r, "tooLarge") /\ NoDecision /\ UNCHANGED upVars
     \/ Goto(r, "do") /\ NoDecision /\ Up!Ask(r)
     \/ Goto(r, "failed") /\ Decide(r, TRUE) /\ Up!Refuse(r)
  /\ UNCHANGED <<level, online, flips, withheld, shown, said>>

\* fail: Do returned an error, the browser's own departure included.
Fail(r) ==
  /\ pc[r] = "do" /\ Up!Fail(r)
  /\ Goto(r, "failed") /\ Decide(r, TRUE)
  /\ UNCHANGED <<level, online, flips, withheld, shown, said>>

\* Do returned a response: a document is buffered for injection before
\* anything is written, any other answer is recorded and streamed.
HeadArrives(r) ==
  /\ pc[r] = "do" /\ Up!Answer(r)
  /\ \/ Goto(r, "buffer") /\ NoDecision
     \/ Goto(r, "stream") /\ Decide(r, TRUE)
  /\ UNCHANGED <<level, online, flips, withheld, shown, said>>

\* ReadAll(LimitReader(...)) takes one more chunk.
Buffer(r) ==
  /\ pc[r] = "buffer" /\ Len(got[r]) < MaxDocument /\ Up!Receive(r)
  /\ UNCHANGED <<vars, proxyVars>>

\* ... and is done, at the end of the body or at the limit: the page goes out
\* with the tag.
Splice(r) ==
  /\ pc[r] = "buffer"
  /\ \/ Len(got[r]) < MaxDocument /\ Up!EndClean(r)
     \/ Len(got[r]) = MaxDocument /\ UNCHANGED upVars
  /\ shown' = [shown EXCEPT ![r] = Append(got[r], Tag)]
  /\ Goto(r, "whole") /\ Decide(r, TRUE)
  /\ UNCHANGED <<level, online, flips, withheld, said>>

\* ... or fails: a warning, the head, and on to the loop below, whose first
\* read reports the same error.  What was buffered is not written.
BufferFails(r) ==
  /\ pc[r] = "buffer" /\ Len(got[r]) < MaxDocument /\ Up!EndBroken(r)
  /\ said' = [said EXCEPT ![r] = TRUE]
  /\ Goto(r, "broken") /\ Decide(r, TRUE)
  /\ UNCHANGED <<level, online, flips, withheld, shown>>

\* One chunk is read, written and flushed; a browser that is gone ends it.
Stream(r) ==
  /\ pc[r] = "stream" /\ NoDecision /\ Up!Receive(r)
  /\ \/ shown' = [shown EXCEPT ![r] = Append(@, Len(got[r]))] /\ UNCHANGED pc
     \/ Goto(r, "left") /\ UNCHANGED shown
  /\ UNCHANGED <<level, online, flips, withheld, said>>

\* Mutant: every end of the body is taken for io.EOF.
StreamEndsSilently(r) ==
  /\ pc[r] = "stream" /\ NoDecision
  /\ Up!EndClean(r) \/ Up!EndBroken(r)
  /\ Goto(r, "whole")
  /\ UNCHANGED <<level, online, flips, withheld, shown, said>>

\* The body ends: at io.EOF silently, at any other error with a warning.  The
\* handler returns in both cases, so the browser sees the same end.
StreamEnds(r) ==
  /\ pc[r] = "stream" /\ NoDecision
  /\ \/ Up!EndClean(r) /\ Goto(r, "whole") /\ UNCHANGED said
     \/ Up!EndBroken(r) /\ Goto(r, "broken")
        /\ said' = [said EXCEPT ![r] = TRUE]
  /\ UNCHANGED <<level, online, flips, withheld, shown>>

-----------------------------------------------------------------------------
\* The machine works on what it was asked, or fails it.  What it does once the
\* handler has returned reaches nobody and is left out.
Machine(r) ==
  /\ pc[r] \in {"do", "buffer", "stream"}
  /\ \/ Up!Begin(r) \/ Up!Open(r) \/ Up!Finish(r) \/ Up!Lose({r})
     \/ sent[r] < MaxChunks /\ Up!Produce(r)
  /\ UNCHANGED <<vars, proxyVars>>

\* The machine registers or drops out, with everything it was working on.
Flip ==
  /\ flips < MaxFlips
  /\ flips' = flips + 1 /\ online' = ~online
  /\ LET R == {r \in Req : /\ pc[r] \in {"do", "buffer", "stream"}
                          /\ source[r] \in {"working", "open"}} IN
       IF online /\ R # {} THEN Up!Lose(R) ELSE UNCHANGED upVars
  /\ UNCHANGED <<vars, level, pc, withheld, decision, allowed, shown, said>>

Recorder == (Stop \/ Drain) /\ UNCHANGED <<proxyVars, upVars>>

Handles(r) ==
  \/ Choose(r) \/ OpenBridge(r) \/ ReadBody(r) \/ Fail(r) \/ HeadArrives(r)
  \/ Buffer(r) \/ Splice(r) \/ BufferFails(r) \/ Stream(r) \/ StreamEnds(r)
  \/ \E class \in Class : \/ Deny(r, class) \/ Offline(r, class)
                           \/ Forward(r, class)

GatewayNext == (\E r \in Req : Handles(r) \/ Machine(r)) \/ Flip \/ Recorder

GatewaySpec == GatewayInit /\ [][GatewayNext]_allVars

-----------------------------------------------------------------------------
\* ServeHTTP: "A refusal must not depend on whether the machine happens to be
\* up", and neither must its record: of every answer a machine was selected
\* for there is exactly the decision that was taken, made before the browser
\* saw a byte.  Two answers have none, the code's 413 and an upgrade the
\* browser spoilt.
AnswersAreRecorded ==
  \A r \in Req :
    /\ pc[r] \in Answered \ {"chosen", "tooLarge", "rejected"} =>
         decision[r] # 0 /\ allowed[r] = ~withheld[r]
    /\ shown[r] # <<>> => decision[r] # 0
    /\ withheld[r] => pc[r] = "refused" /\ source[r] = "idle"

\* record and the recorder together: once the recorder has stopped, an answer
\* recorded before it was told to stop has its row, in the place of its
\* decision, or a warning.
TrailIsComplete ==
  drain = "done" =>
    \A r \in Req : decision[r] \in (1 .. before) \ warned =>
      \E i \in 1 .. Len(rows) : rows[i] = decision[r]

\* The body loop and splice: a browser is shown the machine's bytes in order,
\* all of them when the answer ended and no warning was logged, unless a page
\* outgrew maxDocumentBytes.
ShortIsSaid ==
  \A r \in Req :
    /\ \A i \in DOMAIN shown[r] : shown[r][i] \in {i - 1, Tag}
    /\ pc[r] = "whole" /\ ~said[r] =>
         \/ source[r] = "ended" /\ \A n \in 0 .. sent[r] - 1 :
              \E i \in DOMAIN shown[r] : shown[r][i] = n
         \/ Len(got[r]) = MaxDocument

\* http.go: "a document we could not read whole is still better delivered
\* without the overlay than not delivered at all".
UnreadPageIsDelivered ==
  \A r \in Req : pc[r] = "broken" => shown[r] = got[r]
=============================================================================

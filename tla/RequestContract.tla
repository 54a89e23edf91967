--------------------------- MODULE RequestContract ---------------------------
(***************************************************************************)
(* What internal/proxy may rely on when it sends a request up a connection *)
(* (Conn.Do and Response.Body of internal/uplink/conn.go), without goro-   *)
(* utines, frames or correlation ids: a call is answered or fails, once;   *)
(* an answered call has a body that hands over the machine's bytes in      *)
(* order; the body ends cleanly only after all of them, else in an error;  *)
(* after its end it hands over nothing.  UplinkConn implements it, and     *)
(* Gateway is built on it.                                                 *)
(***************************************************************************)
EXTENDS Naturals, Sequences

CONSTANT Req            \* requests

VARIABLES call,         \* "idle", "waiting" in Do, "answered" or "failed"
          source,       \* the machine's side: "idle", "working" before its
                        \* head, "open", "ended" or "lost"
          sent,         \* chunks the machine has produced
          got,          \* what the body has handed over, by position
          end           \* the body: "none", "open", "eof" or "error"

contractVars == <<call, source, sent, got, end>>

ContractInit ==
  /\ call = [r \in Req |-> "idle"] /\ source = [r \in Req |-> "idle"]
  /\ sent = [r \in Req |-> 0] /\ got = [r \in Req |-> <<>>]
  /\ end = [r \in Req |-> "none"]

\* Do is called; it may refuse at once.
Ask(r) ==
  /\ call[r] = "idle"
  /\ call' = [call EXCEPT ![r] = "waiting"]
  /\ UNCHANGED <<source, sent, got, end>>

Refuse(r) ==
  /\ call[r] = "idle"
  /\ call' = [call EXCEPT ![r] = "failed"]
  /\ UNCHANGED <<source, sent, got, end>>

\* Do returns an error, whatever the machine is doing.
Fail(r) ==
  /\ call[r] = "waiting"
  /\ call' = [call EXCEPT ![r] = "failed"]
  /\ UNCHANGED <<source, sent, got, end>>

\* Do returns a response: the machine had begun to answer.
Answer(r) ==
  /\ call[r] = "waiting" /\ source[r] \in {"open", "ended", "lost"}
  /\ call' = [call EXCEPT ![r] = "answered"]
  /\ end' = [end EXCEPT ![r] = "open"]
  /\ UNCHANGED <<source, sent, got>>

\* Read hands over the next chunk.
Receive(r) ==
  /\ end[r] = "open" /\ Len(got[r]) < sent[r]
  /\ got' = [got EXCEPT ![r] = Append(@, Len(@))]
  /\ UNCHANGED <<call, source, sent, end>>

\* Read reports io.EOF: the machine had ended and all of it was handed over.
EndClean(r) ==
  /\ end[r] = "open" /\ source[r] = "ended" /\ Len(got[r]) = sent[r]
  /\ end' = [end EXCEPT ![r] = "eof"]
  /\ UNCHANGED <<call, source, sent, got>>

\* Read reports any other error.
EndBroken(r) ==
  /\ end[r] = "open"
  /\ end' = [end EXCEPT ![r] = "error"]
  /\ UNCHANGED <<call, source, sent, got>>

\* The machine takes the request up, which needs a call, produces, and ends.
Begin(r) ==
  /\ source[r] = "idle" /\ call[r] # "idle"
  /\ source' = [source EXCEPT ![r] = "working"]
  /\ UNCHANGED <<call, sent, got, end>>

Open(r) ==
  /\ source[r] = "working"
  /\ source' = [source EXCEPT ![r] = "open"]
  /\ UNCHANGED <<call, sent, got, end>>

Produce(r) ==
  /\ source[r] = "open"
  /\ sent' = [sent EXCEPT ![r] = @ + 1]
  /\ UNCHANGED <<call, source, got, end>>

Finish(r) ==
  /\ source[r] = "open"
  /\ source' = [source EXCEPT ![r] = "ended"]
  /\ UNCHANGED <<call, sent, got, end>>

\* The machine fails some requests, or the connection is lost under all those
\* it is serving.
Lose(R) ==
  /\ R # {} /\ \A r \in R : source[r] \in {"working", "open"}
  /\ source' = [r \in Req |-> IF r \in R THEN "lost" ELSE source[r]]
  /\ UNCHANGED <<call, sent, got, end>>

ContractNext ==
  \/ \E r \in Req : \/ Ask(r) \/ Refuse(r) \/ Fail(r) \/ Answer(r)
                    \/ Receive(r) \/ EndClean(r) \/ EndBroken(r)
                    \/ Begin(r) \/ Open(r) \/ Produce(r) \/ Finish(r)
  \/ \E R \in SUBSET Req : Lose(R)

ContractSpec == ContractInit /\ [][ContractNext]_contractVars
=============================================================================

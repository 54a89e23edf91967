--------------------------- MODULE UplinkRefinement ---------------------------
(* UplinkConn implements RequestContract: what is behind Do and a body.    *)
EXTENDS UplinkConn

\* Do as its caller sees it.
CallOf(s) ==
  CASE s = "idle" -> "idle"
    [] s \in {"write", "select"} -> "waiting"
    [] s = "head" -> "answered"
    [] OTHER -> "failed"

\* The node's handling of a request; a failure and a lost socket look alike.
SourceOf(s) ==
  CASE s = "idle" -> "idle"
    [] s = "serving" -> "working"
    [] s = "streaming" -> "open"
    [] s = "ended" -> "ended"
    [] OTHER -> "lost"

calls == [r \in Req |-> CallOf(do[r])]
sources == [r \in Req |-> SourceOf(node[r])]

Contract == INSTANCE RequestContract
  WITH call <- calls,
       source <- sources,
       sent <- produced,
       got <- delivered,
       end <- body

\* conn.go, Do and Response.Body: through every interleaving of goroutines,
\* frames and lost sockets, and with a node that loses or repeats data frames,
\* a caller sees only what RequestContract allows: one outcome per call, the
\* node's bytes in order, a clean end only after the last of them, nothing
\* after an end.
ImplementsContract == Contract!ContractSpec
=============================================================================

---------------------------- MODULE HTTP2Server -----------------------------
(***************************************************************************)
(* The life cycle of Server in core/http2/server.go: ListenAndServe holds  *)
(* the mutex of the server as long as it serves, and Close needs it.  The  *)
(* http.Server inside is external: it serves until it fails or is closed.  *)
(***************************************************************************)
EXTENDS Naturals

CONSTANTS Callers, MaxCalls, Nobody

HTTP2Assumption == Nobody \notin Callers

VARIABLES mu, closed,    \* Server.mu (its holder) and Server.closed
          pc,            \* per caller: step of ListenAndServe or Close
          stopped,       \* http.Server.Close was called
          calls

vars == <<mu, closed, pc, stopped, calls>>

Init == /\ mu = Nobody /\ closed = FALSE /\ stopped = FALSE /\ calls = 0
        /\ pc = [c \in Callers |-> "idle"]

Call(c, op) ==
  /\ pc[c] = "idle" /\ calls < MaxCalls /\ calls' = calls + 1
  /\ pc' = [pc EXCEPT ![c] = op] /\ UNCHANGED <<mu, closed, stopped>>

\* Lock, and serve with the mutex held; a closed server returns an error.
ListenAndServe(c) ==
  /\ pc[c] = "listen" /\ mu = Nobody
  /\ IF closed THEN pc' = [pc EXCEPT ![c] = "idle"] /\ UNCHANGED mu
     ELSE pc' = [pc EXCEPT ![c] = "serving"] /\ mu' = c
  /\ UNCHANGED <<closed, stopped, calls>>

\* http.Server stops serving: it was closed, or its listener failed.
ServeEnds(c) ==
  /\ pc[c] = "serving" /\ pc' = [pc EXCEPT ![c] = "idle"]
  /\ mu' = IF mu = c THEN Nobody ELSE mu
  /\ UNCHANGED <<closed, stopped, calls>>

Close(c) ==
  /\ pc[c] = "close" /\ mu = Nobody
  /\ closed' = TRUE /\ stopped' = TRUE /\ pc' = [pc EXCEPT ![c] = "idle"]
  /\ UNCHANGED <<mu, calls>>

Next ==
  \E c \in Callers : \/ \E op \in {"listen", "close"} : Call(c, op)
                     \/ ListenAndServe(c) \/ ServeEnds(c) \/ Close(c)

Spec == Init /\ [][Next]_vars
-----------------------------------------------------------------------------
\* Nothing serves once Close has returned, and nothing starts to, whichever
\* of the calls got the mutex first.
ClosedServesNothing == closed => \A c \in Callers : pc[c] # "serving"

\* Close takes effect only when nothing serves: it needs the mutex that
\* ListenAndServe keeps, so it never ends the serving of its own server.
CloseWaits == [][closed' # closed => \A c \in Callers : pc[c] # "serving"]_vars
=============================================================================

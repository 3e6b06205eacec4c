------------------------------ MODULE RPCPeer ------------------------------
(***************************************************************************)
(* What an RPC server promises on each connection: every answer belongs to *)
(* a frame that was sent, fits its type, and comes once and in the order   *)
(* of the frames.  RPCClient!Answer assumes no more than this.             *)
(***************************************************************************)
EXTENDS Naturals, Sequences

CONSTANT Conns

VARIABLES asked,    \* per connection: the frames sent on it, by type
          answered  \* and the answers that reached the peer

vars == <<asked, answered>>

FrameTypes == {"request", "ping", "other"}
AnswersTo(type) ==
  CASE type = "request" -> {"response", "error"}
    [] type = "ping"    -> {"pong"}
    [] OTHER            -> {}

LastAnswered(c) ==
  IF answered[c] = <<>> THEN 0 ELSE answered[c][Len(answered[c])].id

Init == /\ asked = [c \in Conns |-> <<>>]
        /\ answered = [c \in Conns |-> <<>>]

Ask(c, type) == asked' = [asked EXCEPT ![c] = Append(@, type)] /\ UNCHANGED answered

Answer(c, i) ==
  /\ i > LastAnswered(c)
  /\ \E type \in AnswersTo(asked[c][i]) :
       answered' = [answered EXCEPT ![c] = Append(@, [id |-> i, type |-> type])]
  /\ UNCHANGED asked

Next == \E c \in Conns : \/ \E type \in FrameTypes : Ask(c, type)
                         \/ \E i \in DOMAIN asked[c] : Answer(c, i)

Spec == Init /\ [][Next]_vars
=============================================================================

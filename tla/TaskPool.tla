------------------------------ MODULE TaskPool ------------------------------
(***************************************************************************)
(* What a goroutine pool promises: an accepted task runs exactly once, a   *)
(* task is turned away only after Close, and no task runs unaccepted.      *)
(***************************************************************************)
CONSTANT Tasks

VARIABLES status,  \* what has become of each task
          closed   \* Close has been called

vars == <<status, closed>>

Init == status = [t \in Tasks |-> "new"] /\ closed = FALSE

Move(t, from, to) == status[t] = from /\ status' = [status EXCEPT ![t] = to]

Accept(t) == Move(t, "new", "pending") /\ UNCHANGED closed
Reject(t) == closed /\ Move(t, "new", "rejected") /\ UNCHANGED closed
Execute(t) == Move(t, "pending", "done") /\ UNCHANGED closed
Close == ~closed /\ closed' = TRUE /\ UNCHANGED status

Next == Close \/ \E t \in Tasks : Accept(t) \/ Reject(t) \/ Execute(t)

Spec == Init /\ [][Next]_vars
=============================================================================

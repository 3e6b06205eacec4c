----------------------------- MODULE WorkerPool -----------------------------
(***************************************************************************)
(* The work-stealing goroutine pool of core/pools/worker_pool.go.          *)
(*                                                                         *)
(* Every task has a goroutine of its own that calls Submit with it; one    *)
(* goroutine per queue runs worker.run; some goroutine calls Close.        *)
(* Atomic variables and channel operations are single steps; everything    *)
(* between them interleaves.  The steal counters are left out.             *)
(***************************************************************************)
EXTENDS Naturals, Sequences, FiniteSets

CONSTANTS Tasks,       \* the tasks submitted, one call each
          NoTask,
          NumWorkers,  \* numWorkers
          QueueCap     \* capacity of each tasks channel, 256 in the code

ASSUME PoolAssumption ==
  /\ NoTask \notin Tasks
  /\ NumWorkers \in Nat \ {0}
  /\ QueueCap \in Nat \ {0}

Workers == 0 .. NumWorkers - 1

VARIABLES
  closed,      \* WorkerPool.closed
  queue,       \* contents of queues[i].tasks
  toClose,     \* Close: the first queue whose channel is not closed yet
  submitted, completed,
               \* stats.tasksSubmitted, stats.tasksCompleted
  sub, idx,    \* Submit, per task: where it is, the queue index it computed
  wpc, task, tries,
               \* worker.run and trySteal, per worker: where it is, the task
               \* in its hands, victims already tried
  runs,        \* history: how often each task was executed
  panicked     \* a send on a closed channel has ended the process

submits == <<sub, idx>>
workers == <<wpc, task, tries>>
stats   == <<submitted, completed>>
vars    == <<closed, queue, toClose, stats, submits, workers, runs, panicked>>

QueueClosed(q) == q < toClose

Init ==
  /\ closed = FALSE /\ toClose = 0
  /\ queue = [w \in Workers |-> <<>>]
  /\ submitted = 0 /\ completed = 0
  /\ sub = [t \in Tasks |-> "idle"] /\ idx = [t \in Tasks |-> 0]
  /\ wpc = [w \in Workers |-> "own"] /\ task = [w \in Workers |-> NoTask]
  /\ tries = [w \in Workers |-> 0]
  /\ runs = [t \in Tasks |-> 0]
  /\ panicked = FALSE
-----------------------------------------------------------------------------
(* Submit.                                                                 *)

SubGoto(t, label) == sub' = [sub EXCEPT ![t] = label]

\* if p.closed.Load() { return false }
CheckClosed(t) ==
  /\ sub[t] = "idle"
  /\ SubGoto(t, IF closed THEN "rejected" ELSE "count")
  /\ UNCHANGED <<closed, queue, toClose, stats, idx, workers, runs, panicked>>

\* tasksSubmitted.Add(1)
CountSubmitted(t) ==
  /\ sub[t] = "count" /\ SubGoto(t, "index")
  /\ submitted' = submitted + 1
  /\ UNCHANGED <<closed, queue, toClose, completed, idx, workers, runs,
                 panicked>>

\* idx := int(tasksSubmitted.Load()) % numWorkers, a second atomic access
PickQueue(t) ==
  /\ sub[t] = "index" /\ SubGoto(t, "first")
  /\ idx' = [idx EXCEPT ![t] = submitted % NumWorkers]
  /\ UNCHANGED <<closed, queue, toClose, stats, workers, runs, panicked>>

\* One non-blocking send; a full queue leads to the next attempt.
TrySend(t, from, next) ==
  /\ sub[t] = from
  /\ IF QueueClosed(idx[t])
     THEN panicked' = TRUE /\ UNCHANGED <<queue, submits>>
     ELSE /\ UNCHANGED panicked
          /\ IF Len(queue[idx[t]]) < QueueCap
             THEN /\ queue' = [queue EXCEPT ![idx[t]] = Append(@, t)]
                  /\ SubGoto(t, "accepted") /\ UNCHANGED idx
             ELSE /\ idx' = [idx EXCEPT ![t] = (@ + 1) % NumWorkers]
                  /\ SubGoto(t, next) /\ UNCHANGED queue
  /\ UNCHANGED <<closed, toClose, stats, workers, runs>>

SendFirst(t) == TrySend(t, "first", "second")

\* Mutants: full queues drop the task, or turn it away, instead of running it.
SendSecond_Drops(t) == TrySend(t, "second", "accepted")
SendSecond_Rejects(t) == TrySend(t, "second", "rejected")

SendSecond(t) == TrySend(t, "second", "inline")

Execute(t) == runs' = [runs EXCEPT ![t] = @ + 1]

\* task(), in the submitting goroutine, then tasksCompleted.Add(1)
RunInline(t) ==
  /\ sub[t] = "inline" /\ SubGoto(t, "inlined") /\ Execute(t)
  /\ UNCHANGED <<closed, queue, toClose, stats, idx, workers, panicked>>

CountInline(t) ==
  /\ sub[t] = "inlined" /\ SubGoto(t, "accepted")
  /\ completed' = completed + 1
  /\ UNCHANGED <<closed, queue, toClose, submitted, idx, workers, runs,
                 panicked>>
-----------------------------------------------------------------------------
(* worker.run and trySteal.                                                *)

WorkerGoto(w, label) == wpc' = [wpc EXCEPT ![w] = label]

\* A receive from the channel of queue q that yields a task.
Take(w, q) ==
  /\ queue[q] # <<>>
  /\ queue' = [queue EXCEPT ![q] = Tail(@)]
  /\ task' = [task EXCEPT ![w] = Head(queue[q])]
  /\ WorkerGoto(w, "run") /\ UNCHANGED tries

\* Mutant: the worker ends on the closed flag, before its queue is drained.
PollOwn_ExitsOnFlag(w) ==
  /\ wpc[w] = "own"
  /\ \/ ~closed /\ Take(w, w)
     \/ closed /\ WorkerGoto(w, "exit") /\ UNCHANGED <<queue, task, tries>>
     \/ /\ queue[w] = <<>> /\ ~closed
        /\ WorkerGoto(w, "steal")
        /\ tries' = [tries EXCEPT ![w] = 0] /\ UNCHANGED <<queue, task>>
  /\ UNCHANGED <<closed, toClose, stats, submits, runs, panicked>>

\* The receive without waiting from the own queue: a task; nil from a closed
\* channel, which ends the worker; or on to stealing.
PollOwn(w) ==
  /\ wpc[w] = "own"
  /\ \/ Take(w, w)
     \/ /\ queue[w] = <<>> /\ QueueClosed(w)
        /\ WorkerGoto(w, "exit") /\ UNCHANGED <<queue, task, tries>>
     \/ /\ queue[w] = <<>> /\ ~QueueClosed(w)
        /\ WorkerGoto(w, "steal")
        /\ tries' = [tries EXCEPT ![w] = 0] /\ UNCHANGED <<queue, task>>
  /\ UNCHANGED <<closed, toClose, stats, submits, runs, panicked>>

\* One round of the loop of trySteal; an empty or a closed queue is passed
\* over, and after the last one the worker blocks.
Steal(w) ==
  LET victim == (w + 1 + tries[w]) % NumWorkers
  IN /\ wpc[w] = "steal"
     /\ \/ tries[w] < NumWorkers - 1 /\ Take(w, victim)
        \/ /\ tries[w] < NumWorkers - 1 /\ queue[victim] = <<>>
           /\ tries' = [tries EXCEPT ![w] = @ + 1]
           /\ UNCHANGED <<queue, task, wpc>>
        \/ /\ tries[w] = NumWorkers - 1 /\ WorkerGoto(w, "park")
           /\ UNCHANGED <<queue, task, tries>>
     /\ UNCHANGED <<closed, toClose, stats, submits, runs, panicked>>

\* The blocking receive from the own queue.
Wake(w) ==
  /\ wpc[w] = "park"
  /\ \/ Take(w, w)
     \/ /\ queue[w] = <<>> /\ QueueClosed(w)
        /\ WorkerGoto(w, "exit") /\ UNCHANGED <<queue, task, tries>>
  /\ UNCHANGED <<closed, toClose, stats, submits, runs, panicked>>

\* task(), then tasksCompleted.Add(1)
Run(w) ==
  /\ wpc[w] = "run" /\ Execute(task[w]) /\ WorkerGoto(w, "count")
  /\ UNCHANGED <<closed, queue, toClose, stats, submits, task, tries, panicked>>

CountCompleted(w) ==
  /\ wpc[w] = "count" /\ WorkerGoto(w, "own")
  /\ task' = [task EXCEPT ![w] = NoTask]
  /\ completed' = completed + 1
  /\ UNCHANGED <<closed, queue, toClose, submitted, submits, tries, runs,
                 panicked>>
-----------------------------------------------------------------------------
(* Close.  A second call fails the CompareAndSwap and changes nothing.     *)

CloseFlag ==
  /\ ~closed /\ closed' = TRUE
  /\ UNCHANGED <<queue, toClose, stats, submits, workers, runs, panicked>>

\* Mutant: the last queue is left open.
CloseQueue_OffByOne ==
  /\ closed /\ toClose < NumWorkers - 1 /\ toClose' = toClose + 1
  /\ UNCHANGED <<closed, queue, stats, submits, workers, runs, panicked>>

CloseQueue ==
  /\ closed /\ toClose < NumWorkers /\ toClose' = toClose + 1
  /\ UNCHANGED <<closed, queue, stats, submits, workers, runs, panicked>>
-----------------------------------------------------------------------------
SubmitStep(t) ==
  \/ CheckClosed(t) \/ CountSubmitted(t) \/ PickQueue(t) \/ SendFirst(t)
  \/ SendSecond(t) \/ RunInline(t) \/ CountInline(t)

WorkerStep(w) == PollOwn(w) \/ Steal(w) \/ Wake(w) \/ Run(w) \/ CountCompleted(w)

Next ==
  /\ ~panicked
  /\ \/ \E t \in Tasks : SubmitStep(t)
     \/ \E w \in Workers : WorkerStep(w)
     \/ CloseFlag \/ CloseQueue

Spec == Init /\ [][Next]_vars

\* Goroutines that can run do run, tasks return, and a Close that has begun
\* goes on.  Nobody has to call Submit or Close.
FairSpec ==
  /\ Spec
  /\ \A w \in Workers : WF_vars(~panicked /\ WorkerStep(w))
  /\ \A t \in Tasks : WF_vars(~panicked /\ sub[t] # "idle" /\ SubmitStep(t))
  /\ WF_vars(~panicked /\ CloseQueue)
-----------------------------------------------------------------------------
TypeOK ==
  /\ closed \in BOOLEAN /\ panicked \in BOOLEAN
  /\ toClose \in 0 .. NumWorkers
  /\ queue \in [Workers -> Seq(Tasks)]
  /\ submitted \in Nat /\ completed \in Nat
  /\ sub \in [Tasks -> {"idle", "rejected", "count", "index", "first",
                        "second", "inline", "inlined", "accepted"}]
  /\ idx \in [Tasks -> Workers]
  /\ wpc \in [Workers -> {"own", "steal", "park", "run", "count", "exit"}]
  /\ task \in [Workers -> Tasks \cup {NoTask}]
  /\ tries \in [Workers -> Nat]
  /\ runs \in [Tasks -> Nat]

Queued(t) == \E w \in Workers : \E i \in 1 .. Len(queue[w]) : queue[w][i] = t
InHand(t) == \E w \in Workers : wpc[w] = "run" /\ task[w] = t

\* Whatever the interleaving of submitters, owners, thieves and Close, a task is
\* executed at most once, and a queued one or one in a worker's hands has not
\* been executed yet.
ExecutedOnce ==
  \A t \in Tasks :
    /\ runs[t] <= 1
    /\ Queued(t) \/ InHand(t) => runs[t] = 0
    /\ ~(Queued(t) /\ InHand(t))

\* A task for which Submit has returned true has been executed, is queued, or is
\* in the hands of a worker; one for which it returned false is none of these.
NoTaskLost ==
  \A t \in Tasks :
    /\ sub[t] = "accepted" => runs[t] = 1 \/ Queued(t) \/ InHand(t)
    /\ sub[t] = "rejected" => runs[t] = 0 /\ ~Queued(t) /\ ~InHand(t)

\* Close is graceful: a worker ends only after it has drained its own queue,
\* and nothing is ever put into that queue afterwards.
DrainedBeforeExit ==
  \A w \in Workers : wpc[w] = "exit" => QueueClosed(w) /\ queue[w] = <<>>

\* At every instant the counters of Stats are consistent with the tasks:
\* completed never runs ahead of submitted.
CompletedBehindSubmitted == completed <= submitted

\* The comment on Close: "Close gracefully shuts down the worker pool".
ClosesGracefully == ~panicked

\* Every accepted task is eventually executed, also when Close intervenes.
AcceptedIsExecuted ==
  \A t \in Tasks : sub[t] = "accepted" ~> runs[t] = 1 \/ panicked

\* After Close every worker goroutine ends.
CloseEndsWorkers ==
  closed ~> (\A w \in Workers : wpc[w] = "exit") \/ panicked

\* The pool implements the abstract TaskPool.
Status(t) ==
  IF runs[t] > 0 THEN "done"
  ELSE IF Queued(t) \/ InHand(t) \/ sub[t] = "inline" THEN "pending"
  ELSE IF sub[t] = "rejected" THEN "rejected" ELSE "new"

Abstract == INSTANCE TaskPool WITH status <- [t \in Tasks |-> Status(t)]

\* Every behaviour of the pool, stealing and inline execution included, is one
\* of the abstract pool: a task is accepted before it is executed, executed once,
\* and rejected only after Close.
ImplementsTaskPool == Abstract!Spec
=============================================================================

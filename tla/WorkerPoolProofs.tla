-------------------------- MODULE WorkerPoolProofs --------------------------
(* Proofs about the goroutine pool, for every number of workers and tasks. *)
EXTENDS WorkerPool, FiniteSetTheorems, TLAPS

\* The provers of a leaf that names none: most leaves are first-order.
USE ZenonT(20), SMTT(30), SMTT(60)

Busy(w) == wpc[w] \in {"run", "count"}

\* A queued task was accepted, was not executed and is in one place of one queue.
QueuesSound ==
  \A w \in Workers : \A i \in 1 .. Len(queue[w]) :
    /\ sub[queue[w][i]] = "accepted" /\ runs[queue[w][i]] = 0
    /\ \A v \in Workers : \A j \in 1 .. Len(queue[v]) :
         queue[w][i] = queue[v][j] => w = v /\ i = j

\* A worker between a receive and tasksCompleted.Add(1) holds a task of its own,
\* which no queue holds any more.
HandsSound ==
  \A w \in Workers :
    IF Busy(w)
    THEN /\ task[w] \in Tasks /\ sub[task[w]] = "accepted"
         /\ runs[task[w]] = (IF wpc[w] = "run" THEN 0 ELSE 1)
         /\ \A v \in Workers : \A j \in 1 .. Len(queue[v]) :
              queue[v][j] # task[w]
         /\ \A v \in Workers : Busy(v) /\ task[v] = task[w] => v = w
    ELSE task[w] = NoTask

\* How far Submit has come decides whether its task may have been executed.
SubmitSound ==
  \A t \in Tasks :
    IF sub[t] = "accepted"
    THEN runs[t] = 1 \/ (runs[t] = 0 /\ (Queued(t) \/ InHand(t)))
    ELSE runs[t] = (IF sub[t] = "inlined" THEN 1 ELSE 0)

\* Only Close closes channels, and only a closed and drained one ends a worker.
CloseSound ==
  /\ toClose > 0 => closed
  /\ DrainedBeforeExit

IInv == TypeOK /\ QueuesSound /\ HandsSound /\ SubmitSound /\ CloseSound
-----------------------------------------------------------------------------
\* A pool has a worker, and the index arithmetic of Submit and trySteal stays
\* within the queues.
LEMMA IndexInRange ==
  /\ 0 \in Workers
  /\ \A n \in Nat : n % NumWorkers \in Workers
BY SMTT(30), SMTT(60), PoolAssumption DEF Workers

\* What a send adds to the contents of a channel.
LEMMA Sent ==
  ASSUME NEW S, NEW s \in Seq(S), NEW e \in S
  PROVE  /\ Append(s, e) \in Seq(S) /\ Append(s, e) # <<>>
         /\ Len(Append(s, e)) = Len(s) + 1
         /\ \A i \in 1 .. Len(s) : Append(s, e)[i] = s[i]
         /\ Append(s, e)[Len(s) + 1] = e
BY SMTT(30), SMTT(60)

\* What a receive takes from the contents of a channel.
LEMMA Received ==
  ASSUME NEW S, NEW s \in Seq(S), s # <<>>
  PROVE  /\ Len(s) \in Nat \ {0}
         /\ Head(s) = s[1] /\ s[1] \in S
         /\ Tail(s) \in Seq(S) /\ Len(Tail(s)) = Len(s) - 1
         /\ \A i \in 1 .. Len(s) - 1 : Tail(s)[i] = s[i + 1]
BY SMTT(30), SMTT(60)

\* NewWorkerPool establishes the invariant.
LEMMA InitInv == Init => IInv
<1> SUFFICES ASSUME Init PROVE IInv
  OBVIOUS
<1>0. \A w \in Workers : queue[w] = <<>> /\ Len(queue[w]) = 0
  BY DEF Init
<1>1. TypeOK
  <2>1. closed \in BOOLEAN /\ panicked \in BOOLEAN
    BY DEF Init
  <2>2. toClose \in 0 .. NumWorkers /\ idx \in [Tasks -> Workers]
    BY SMTT(30), SMTT(60), IndexInRange, PoolAssumption DEF Init
  <2> QED
    BY SMTT(30), SMTT(60), <2>1, <2>2 DEF Init, TypeOK
<1>2. QueuesSound
  BY SMTT(30), SMTT(60), <1>0 DEF QueuesSound
<1>3. HandsSound /\ SubmitSound
  BY <1>0 DEF Init, HandsSound, SubmitSound, Busy
<1>4. CloseSound
  BY SMTT(30), SMTT(60), PoolAssumption DEF Init, CloseSound, DrainedBeforeExit
<1> QED
  BY <1>1, <1>2, <1>3, <1>4 DEF IInv

\* What a queue holds is a task.
LEMMA QueuedIsTask ==
  ASSUME TypeOK
  PROVE  \A w \in Workers : /\ queue[w] \in Seq(Tasks) /\ Len(queue[w]) \in Nat
                            /\ \A i \in 1 .. Len(queue[w]) : queue[w][i] \in Tasks
BY SMTT(30), SMTT(60) DEF TypeOK

\* Steps that leave tasks, queues and hands alone keep what is said of them.
LEMMA QueuesFrame ==
  ASSUME QueuesSound, queue' = queue, sub' = sub, runs' = runs
  PROVE  QueuesSound'
BY SMTT(30), SMTT(60) DEF QueuesSound

\* The same for the workers' hands and the progress of Submit.
LEMMA HandsFrame ==
  ASSUME HandsSound, SubmitSound,
         UNCHANGED <<queue, sub, runs, wpc, task>>
  PROVE  HandsSound' /\ SubmitSound'
<1>1. HandsSound'
  BY DEF HandsSound, Busy
<1>2. SubmitSound'
  BY DEF SubmitSound, Queued, InHand
<1> QED
  BY <1>1, <1>2

\* The invariant survives the load of the closed flag in Submit.
LEMMA CheckClosedInv ==
  ASSUME IInv, NEW t \in Tasks, CheckClosed(t)
  PROVE  IInv'
<1> USE DEF IInv, SubGoto, submits, workers, stats
<1>1. \A v \in Workers : \A i \in 1 .. Len(queue[v]) : queue[v][i] \in Tasks
  BY QueuedIsTask
<1>2. TypeOK'
  BY DEF TypeOK, CheckClosed
<1>3. QueuesSound'
  BY SMTT(30), SMTT(60), <1>1 DEF TypeOK, CheckClosed, QueuesSound
<1>4. HandsSound'
  BY SMTT(30), SMTT(60), <1>1 DEF TypeOK, CheckClosed, HandsSound, Busy
<1>5. SubmitSound'
  <2>1. \A u \in Tasks : Queued(u)' = Queued(u)
    BY DEF CheckClosed, Queued
  <2>2. \A u \in Tasks : InHand(u)' = InHand(u)
    BY DEF CheckClosed, InHand
  <2> QED
    BY <2>1, <2>2 DEF TypeOK, CheckClosed, SubmitSound
<1>6. CloseSound'
  BY DEF TypeOK, CheckClosed, CloseSound, DrainedBeforeExit, QueueClosed, Workers
<1> QED
  BY <1>2, <1>3, <1>4, <1>5, <1>6

\* It survives tasksSubmitted.Add(1).
LEMMA CountSubmittedInv ==
  ASSUME IInv, NEW t \in Tasks, CountSubmitted(t)
  PROVE  IInv'
<1> USE DEF IInv, SubGoto, submits, workers, stats
<1>1. \A v \in Workers : \A i \in 1 .. Len(queue[v]) : queue[v][i] \in Tasks
  BY QueuedIsTask
<1>2. TypeOK'
  BY SMTT(30), SMTT(60) DEF TypeOK, CountSubmitted
<1>3. QueuesSound'
  BY SMTT(30), SMTT(60), <1>1 DEF TypeOK, CountSubmitted, QueuesSound
<1>4. HandsSound'
  BY SMTT(30), SMTT(60), <1>1 DEF TypeOK, CountSubmitted, HandsSound, Busy
<1>5. SubmitSound'
  <2>1. \A u \in Tasks : Queued(u)' = Queued(u)
    BY DEF CountSubmitted, Queued
  <2>2. \A u \in Tasks : InHand(u)' = InHand(u)
    BY DEF CountSubmitted, InHand
  <2> QED
    BY <2>1, <2>2 DEF TypeOK, CountSubmitted, SubmitSound
<1>6. CloseSound'
  BY DEF TypeOK, CountSubmitted, CloseSound, DrainedBeforeExit, QueueClosed, Workers
<1> QED
  BY <1>2, <1>3, <1>4, <1>5, <1>6

\* It survives the computation of the queue index.
LEMMA PickQueueInv ==
  ASSUME IInv, NEW t \in Tasks, PickQueue(t)
  PROVE  IInv'
<1> USE DEF IInv, SubGoto, submits, workers, stats
<1>1. \A v \in Workers : \A i \in 1 .. Len(queue[v]) : queue[v][i] \in Tasks
  BY QueuedIsTask
<1>2. TypeOK'
  BY IndexInRange DEF TypeOK, PickQueue
<1>3. QueuesSound'
  BY SMTT(30), SMTT(60), <1>1 DEF TypeOK, PickQueue, QueuesSound
<1>4. HandsSound'
  BY SMTT(30), SMTT(60), <1>1 DEF TypeOK, PickQueue, HandsSound, Busy
<1>5. SubmitSound'
  <2>1. \A u \in Tasks : Queued(u)' = Queued(u)
    BY DEF PickQueue, Queued
  <2>2. \A u \in Tasks : InHand(u)' = InHand(u)
    BY DEF PickQueue, InHand
  <2> QED
    BY <2>1, <2>2 DEF TypeOK, PickQueue, SubmitSound
<1>6. CloseSound'
  BY DEF TypeOK, PickQueue, CloseSound, DrainedBeforeExit, QueueClosed, Workers
<1> QED
  BY <1>2, <1>3, <1>4, <1>5, <1>6

\* It survives an inline execution, whose task was never sent to a queue.
LEMMA RunInlineInv ==
  ASSUME IInv, NEW t \in Tasks, RunInline(t)
  PROVE  IInv'
<1> USE DEF IInv, SubGoto, submits, workers, stats, Execute
<1>1. \A v \in Workers : \A i \in 1 .. Len(queue[v]) : queue[v][i] \in Tasks
  BY QueuedIsTask
<1>0. \A v \in Workers : \A i \in 1 .. Len(queue[v]) : queue[v][i] # t
  BY DEF QueuesSound, RunInline
<1>2. TypeOK'
  BY SMTT(30), SMTT(60) DEF TypeOK, RunInline
<1>3. QueuesSound'
  <2>1. \A u \in Tasks : u # t => sub'[u] = sub[u] /\ runs'[u] = runs[u]
    BY DEF TypeOK, RunInline
  <2>2. queue' = queue
    BY DEF RunInline
  <2> QED
    BY SMTT(30), SMTT(60), <2>1, <2>2, <1>0, <1>1 DEF QueuesSound
<1>4. HandsSound'
  BY SMTT(30), SMTT(60), <1>1 DEF TypeOK, RunInline, HandsSound, Busy
<1>5. SubmitSound'
  <2>1. \A u \in Tasks : Queued(u)' = Queued(u)
    BY DEF RunInline, Queued
  <2>2. \A u \in Tasks : InHand(u)' = InHand(u)
    BY DEF RunInline, InHand
  <2> QED
    BY SMTT(30), SMTT(60), <2>1, <2>2 DEF TypeOK, RunInline, SubmitSound
<1>6. CloseSound'
  BY DEF TypeOK, RunInline, CloseSound, DrainedBeforeExit, QueueClosed, Workers
<1> QED
  BY <1>2, <1>3, <1>4, <1>5, <1>6

\* It survives tasksCompleted.Add(1) after an inline execution.
LEMMA CountInlineInv ==
  ASSUME IInv, NEW t \in Tasks, CountInline(t)
  PROVE  IInv'
<1> USE DEF IInv, SubGoto, submits, workers, stats
<1>1. \A v \in Workers : \A i \in 1 .. Len(queue[v]) : queue[v][i] \in Tasks
  BY QueuedIsTask
<1>2. TypeOK'
  BY SMTT(30), SMTT(60) DEF TypeOK, CountInline
<1>3. QueuesSound'
  BY SMTT(30), SMTT(60), <1>1 DEF TypeOK, CountInline, QueuesSound
<1>4. HandsSound'
  BY SMTT(30), SMTT(60), <1>1 DEF TypeOK, CountInline, HandsSound, Busy
<1>5. SubmitSound'
  <2>1. \A u \in Tasks : Queued(u)' = Queued(u)
    BY DEF CountInline, Queued
  <2>2. \A u \in Tasks : InHand(u)' = InHand(u)
    BY DEF CountInline, InHand
  <2> QED
    BY <2>1, <2>2 DEF TypeOK, CountInline, SubmitSound
<1>6. CloseSound'
  BY DEF TypeOK, CountInline, CloseSound, DrainedBeforeExit, QueueClosed, Workers
<1> QED
  BY <1>2, <1>3, <1>4, <1>5, <1>6

\* It survives the execution of the task in a worker's hands.
LEMMA RunInv ==
  ASSUME IInv, NEW w \in Workers, Run(w)
  PROVE  IInv'
<1> USE DEF IInv, WorkerGoto, Execute, submits, workers, stats
<1>1. \A v \in Workers : \A i \in 1 .. Len(queue[v]) : queue[v][i] \in Tasks
  BY QueuedIsTask
<1>0. \A v \in Workers : \A i \in 1 .. Len(queue[v]) : queue[v][i] # task[w]
  BY DEF HandsSound, Busy, Run
<1>2. TypeOK'
  BY SMTT(30), SMTT(60) DEF TypeOK, HandsSound, Busy, Run
<1>3. QueuesSound'
  BY SMTT(30), SMTT(60), <1>0, <1>1 DEF TypeOK, Run, QueuesSound
<1>4. HandsSound'
  BY SMTT(30), SMTT(60), <1>1 DEF TypeOK, Run, HandsSound, Busy
<1>5. SubmitSound'
  <2>1. \A u \in Tasks : Queued(u)' = Queued(u)
    BY DEF Run, Queued
  <2>2. \A u \in Tasks : InHand(u) => InHand(u)' \/ u = task[w]
    BY DEF TypeOK, Run, InHand
  <2> QED
    BY SMTT(30), SMTT(60), <2>1, <2>2
    DEF TypeOK, Run, SubmitSound, HandsSound, Busy
<1>6. CloseSound'
  BY DEF TypeOK, Run, CloseSound, DrainedBeforeExit, QueueClosed, Workers
<1> QED
  BY <1>2, <1>3, <1>4, <1>5, <1>6

\* It survives tasksCompleted.Add(1) in a worker.
LEMMA CountCompletedInv ==
  ASSUME IInv, NEW w \in Workers, CountCompleted(w)
  PROVE  IInv'
<1> USE DEF IInv, WorkerGoto, submits, workers, stats
<1>1. \A v \in Workers : \A i \in 1 .. Len(queue[v]) : queue[v][i] \in Tasks
  BY QueuedIsTask
<1>2. TypeOK'
  BY SMTT(30), SMTT(60) DEF TypeOK, CountCompleted
<1>3. QueuesSound'
  BY SMTT(30), SMTT(60), <1>1 DEF TypeOK, CountCompleted, QueuesSound
<1>4. HandsSound'
  <2>1. /\ wpc'[w] = "own" /\ task'[w] = NoTask
        /\ \A v \in Workers \ {w} : wpc'[v] = wpc[v] /\ task'[v] = task[v]
        /\ queue' = queue /\ sub' = sub /\ runs' = runs
    BY DEF TypeOK, CountCompleted
  <2>2. HandsSound
    OBVIOUS
  <2> HIDE DEF IInv
  <2> QED
    BY SMTT(30), SMTT(60), <2>1, <2>2 DEF HandsSound, Busy
<1>5. SubmitSound'
  <2>1. \A u \in Tasks : Queued(u)' = Queued(u)
    BY DEF CountCompleted, Queued
  <2>2. \A u \in Tasks : InHand(u) => InHand(u)'
    BY DEF TypeOK, CountCompleted, InHand
  <2> QED
    BY <2>1, <2>2 DEF TypeOK, CountCompleted, SubmitSound
<1>6. CloseSound'
  BY DEF TypeOK, CountCompleted, CloseSound, DrainedBeforeExit, QueueClosed, Workers
<1> QED
  BY <1>2, <1>3, <1>4, <1>5, <1>6

\* It survives the CompareAndSwap of Close.
LEMMA CloseFlagInv ==
  ASSUME IInv, CloseFlag
  PROVE  IInv'
<1> USE DEF IInv, submits, workers, stats
<1>1. \A v \in Workers : \A i \in 1 .. Len(queue[v]) : queue[v][i] \in Tasks
  BY QueuedIsTask
<1>2. TypeOK'
  BY DEF TypeOK, CloseFlag
<1>3. QueuesSound'
  BY SMTT(30), SMTT(60), <1>1 DEF TypeOK, CloseFlag, QueuesSound
<1>4. HandsSound'
  BY <1>1 DEF TypeOK, CloseFlag, HandsSound, Busy
<1>5. SubmitSound'
  <2>1. \A u \in Tasks : Queued(u)' = Queued(u)
    BY DEF CloseFlag, Queued
  <2>2. \A u \in Tasks : InHand(u)' = InHand(u)
    BY DEF CloseFlag, InHand
  <2> QED
    BY <2>1, <2>2 DEF TypeOK, CloseFlag, SubmitSound
<1>6. CloseSound'
  BY DEF TypeOK, CloseFlag, CloseSound, DrainedBeforeExit, QueueClosed, Workers
<1> QED
  BY <1>2, <1>3, <1>4, <1>5, <1>6

\* It survives the closing of one channel.
LEMMA CloseQueueInv ==
  ASSUME IInv, CloseQueue
  PROVE  IInv'
<1> USE DEF IInv, submits, workers, stats
<1>1. \A v \in Workers : \A i \in 1 .. Len(queue[v]) : queue[v][i] \in Tasks
  BY QueuedIsTask
<1>2. TypeOK'
  BY SMTT(30), SMTT(60), PoolAssumption DEF TypeOK, CloseQueue
<1>3. QueuesSound'
  BY SMTT(30), SMTT(60), <1>1 DEF TypeOK, CloseQueue, QueuesSound
<1>4. HandsSound'
  BY <1>1 DEF TypeOK, CloseQueue, HandsSound, Busy
<1>5. SubmitSound'
  <2>1. \A u \in Tasks : Queued(u)' = Queued(u)
    BY DEF CloseQueue, Queued
  <2>2. \A u \in Tasks : InHand(u)' = InHand(u)
    BY DEF CloseQueue, InHand
  <2> QED
    BY <2>1, <2>2 DEF TypeOK, CloseQueue, SubmitSound
<1>6. CloseSound'
  BY SMTT(30), SMTT(60)
  DEF TypeOK, CloseQueue, CloseSound, DrainedBeforeExit, QueueClosed, Workers
<1> QED
  BY <1>2, <1>3, <1>4, <1>5, <1>6

\* It survives a send that succeeds, which puts a task that was nowhere at the end of a queue.
LEMMA EnqueueInv ==
  ASSUME IInv, NEW t \in Tasks, NEW q \in Workers, ~QueueClosed(q),
         sub[t] \in {"first", "second"},
         queue' = [queue EXCEPT ![q] = Append(@, t)], SubGoto(t, "accepted"),
         UNCHANGED <<closed, toClose, stats, idx, workers, runs, panicked>>
  PROVE  IInv'
<1> USE DEF IInv, SubGoto, workers, stats
<1> DEFINE n == Len(queue[q]) + 1
<1>1. /\ \A v \in Workers : queue[v] \in Seq(Tasks) /\ Len(queue[v]) \in Nat
      /\ \A v \in Workers : \A i \in 1 .. Len(queue[v]) : queue[v][i] \in Tasks
  BY QueuedIsTask
<1>2. /\ queue'[q] \in Seq(Tasks) /\ Len(queue'[q]) = n /\ queue'[q][n] = t
      /\ \A i \in 1 .. Len(queue[q]) : queue'[q][i] = queue[q][i]
      /\ \A v \in Workers : v # q => queue'[v] = queue[v]
  BY SMTT(30), SMTT(60), <1>1, Sent DEF TypeOK
<1>3. \A v \in Workers : \A i \in 1 .. Len(queue[v]) : queue[v][i] # t
  BY DEF QueuesSound
<1>4. \A v \in Workers : \A i \in 1 .. Len(queue'[v]) :
        \/ v = q /\ i = n /\ queue'[v][i] = t
        \/ i \in 1 .. Len(queue[v]) /\ queue'[v][i] = queue[v][i]
  BY SMTT(30), SMTT(60), <1>1, <1>2
<1>5. /\ sub'[t] = "accepted" /\ runs[t] = 0
      /\ \A u \in Tasks : u # t => sub'[u] = sub[u]
  BY DEF TypeOK, SubmitSound
<1>6. TypeOK'
  BY <1>1, Sent DEF TypeOK
<1>7. QueuesSound'
  BY SMTT(30), SMTT(60), <1>1, <1>3, <1>4, <1>5 DEF QueuesSound
<1>8. HandsSound'
  BY SMTT(30), SMTT(60), <1>4, <1>5 DEF HandsSound, Busy
<1>9. SubmitSound'
  <2>1. Queued(t)'
    BY SMTT(30), SMTT(60), <1>1, <1>2 DEF Queued
  <2>2. \A u \in Tasks : Queued(u) => Queued(u)'
    BY SMTT(30), SMTT(60), <1>1, <1>2 DEF Queued
  <2>3. \A u \in Tasks : InHand(u)' = InHand(u)
    BY DEF InHand
  <2> QED
    BY SMTT(30), SMTT(60), <2>1, <2>2, <2>3, <1>5 DEF SubmitSound
<1>10. CloseSound'
  BY <1>2 DEF CloseSound, DrainedBeforeExit, QueueClosed
<1> QED
  BY <1>6, <1>7, <1>8, <1>9, <1>10

\* It survives a receive, which moves the first task of a queue into the hands of a worker.
LEMMA TakeInv ==
  ASSUME IInv, NEW w \in Workers, NEW q \in Workers, Take(w, q),
         wpc[w] \in {"own", "steal", "park"},
         UNCHANGED <<closed, toClose, stats, submits, runs, panicked>>
  PROVE  IInv'
<1> USE DEF IInv, WorkerGoto, submits, stats
<1>0. PICK t : t = queue[q][1]
  OBVIOUS
<1>1. /\ \A v \in Workers : queue[v] \in Seq(Tasks) /\ Len(queue[v]) \in Nat
      /\ \A v \in Workers : \A i \in 1 .. Len(queue[v]) : queue[v][i] \in Tasks
  BY QueuedIsTask
<1>2. /\ t \in Tasks /\ Head(queue[q]) = t /\ Len(queue[q]) \in Nat \ {0}
      /\ Tail(queue[q]) \in Seq(Tasks) /\ Len(Tail(queue[q])) = Len(queue[q]) - 1
      /\ \A i \in 1 .. Len(queue[q]) - 1 : Tail(queue[q])[i] = queue[q][i + 1]
  BY <1>0, <1>1, Received DEF Take
<1>3. /\ queue'[q] = Tail(queue[q])
      /\ \A v \in Workers : v # q => queue'[v] = queue[v]
      /\ task'[w] = t /\ wpc'[w] = "run"
      /\ \A v \in Workers : v # w => task'[v] = task[v] /\ wpc'[v] = wpc[v]
  BY <1>2 DEF TypeOK, Take
<1>4. /\ sub[t] = "accepted" /\ runs[t] = 0
      /\ \A v \in Workers : \A i \in 1 .. Len(queue[v]) :
           queue[v][i] = t => v = q /\ i = 1
      /\ \A v \in Workers : Busy(v) => task[v] # t
  BY SMTT(30), SMTT(60), <1>0, <1>1, <1>2 DEF QueuesSound, HandsSound
<1>5. \A v \in Workers : \A i \in 1 .. Len(queue'[v]) :
        \E k \in 1 .. Len(queue[v]) :
          /\ queue'[v][i] = queue[v][k]
          /\ k = (IF v = q THEN i + 1 ELSE i) /\ (v = q => k # 1)
  <2> SUFFICES ASSUME NEW v \in Workers, NEW i \in 1 .. Len(queue'[v])
               PROVE  \E k \in 1 .. Len(queue[v]) :
                        /\ queue'[v][i] = queue[v][k]
                        /\ k = (IF v = q THEN i + 1 ELSE i) /\ (v = q => k # 1)
    OBVIOUS
  <2>1. CASE v # q
    BY <2>1, <1>3
  <2>2. CASE v = q
    <3>1. i + 1 \in 1 .. Len(queue[q]) /\ queue'[q][i] = queue[q][i + 1] /\ i + 1 # 1
      BY SMTT(30), SMTT(60), <2>2, <1>2, <1>3
    <3> QED
      BY <2>2, <3>1
  <2> QED
    BY <2>1, <2>2
<1>6. TypeOK'
  BY <1>2 DEF TypeOK, Take
<1>7. QueuesSound'
  <2> SUFFICES ASSUME NEW v \in Workers, NEW i \in 1 .. Len(queue'[v]),
                      NEW x \in Workers, NEW j \in 1 .. Len(queue'[x])
               PROVE  /\ sub[queue'[v][i]] = "accepted" /\ runs[queue'[v][i]] = 0
                      /\ queue'[v][i] = queue'[x][j] => v = x /\ i = j
    BY SMTT(30), SMTT(60) DEF QueuesSound
  <2>1. PICK k \in 1 .. Len(queue[v]) :
          queue'[v][i] = queue[v][k] /\ k = (IF v = q THEN i + 1 ELSE i)
    BY SMTT(30), SMTT(60), <1>5
  <2>2. PICK m \in 1 .. Len(queue[x]) :
          queue'[x][j] = queue[x][m] /\ m = (IF x = q THEN j + 1 ELSE j)
    BY SMTT(30), SMTT(60), <1>5
  <2>3. i \in Nat /\ j \in Nat
    BY SMTT(30), SMTT(60)
  <2> QED
    BY SMTT(30), SMTT(60), <2>1, <2>2, <2>3 DEF QueuesSound
<1>8. HandsSound'
  <2>1. \A v \in Workers : \A i \in 1 .. Len(queue'[v]) : queue'[v][i] # t
    BY SMTT(30), SMTT(60), <1>4, <1>5
  <2>2. \A v \in Workers : v # w => (Busy(v)' <=> Busy(v))
    BY <1>3 DEF Busy
  <2>3. Busy(w)' /\ ~Busy(w)
    BY <1>3 DEF Busy
  <2>4. \A u \in Workers : Busy(u) =>
          \A v \in Workers : \A i \in 1 .. Len(queue'[v]) :
            queue'[v][i] # task[u]
    BY SMTT(30), SMTT(60), <1>5 DEF HandsSound
  <2> QED
    BY SMTT(30), SMTT(60), <2>1, <2>2, <2>3, <2>4, <1>2, <1>3, <1>4 DEF HandsSound
<1>9. SubmitSound'
  <2>1. InHand(t)'
    BY <1>3 DEF InHand
  <2>2. \A u \in Tasks : Queued(u) => u = t \/ Queued(u)'
    <3> SUFFICES ASSUME NEW u \in Tasks, Queued(u), u # t PROVE Queued(u)'
      OBVIOUS
    <3>1. PICK v \in Workers : \E i \in 1 .. Len(queue[v]) : queue[v][i] = u
      BY DEF Queued
    <3>2. PICK i \in 1 .. Len(queue[v]) : queue[v][i] = u
      BY <3>1
    <3>3. CASE v # q
      BY <3>2, <3>3, <1>3 DEF Queued
    <3>4. CASE v = q
      <4>1. i # 1 /\ i - 1 \in 1 .. Len(queue'[q]) /\ queue'[q][i - 1] = u
        BY SMTT(30), SMTT(60), <3>2, <3>4, <1>0, <1>2, <1>3
      <4> QED
        BY <4>1 DEF Queued
    <3> QED
      BY <3>3, <3>4
  <2>3. \A u \in Tasks : InHand(u) => InHand(u)'
    BY <1>3 DEF InHand
  <2> QED
    BY <2>1, <2>2, <2>3, <1>4 DEF SubmitSound
<1>10. CloseSound'
  BY <1>2, <1>3 DEF CloseSound, DrainedBeforeExit, QueueClosed, Take
<1> QED
  BY <1>6, <1>7, <1>8, <1>9, <1>10

\* It survives a worker without a task going on to steal, to block or to end.
LEMMA IdleInv ==
  ASSUME IInv, NEW w \in Workers, NEW l \in {"steal", "park", "exit"},
         wpc[w] \in {"own", "steal", "park"}, WorkerGoto(w, l),
         l = "exit" => QueueClosed(w) /\ queue[w] = <<>>,
         tries' \in [Workers -> Nat],
         UNCHANGED <<closed, queue, task, toClose, stats, submits, runs, panicked>>
  PROVE  IInv'
<1> USE DEF IInv, WorkerGoto, submits, stats
<1>1. TypeOK'
  BY DEF TypeOK
<1>2. QueuesSound'
  <2>1. queue' = queue /\ sub' = sub /\ runs' = runs
    OBVIOUS
  <2> QED
    BY <2>1, QueuesFrame
<1>3. HandsSound'
  <2>1. \A v \in Workers : Busy(v)' = Busy(v) /\ (Busy(v) => wpc'[v] = wpc[v])
    BY SMTT(30), SMTT(60) DEF TypeOK, Busy
  <2> QED
    BY <2>1 DEF HandsSound
<1>4. SubmitSound'
  <2>1. \A u \in Tasks : Queued(u)' = Queued(u)
    BY DEF Queued
  <2>2. \A u \in Tasks : InHand(u) => InHand(u)'
    BY DEF TypeOK, InHand
  <2> QED
    BY <2>1, <2>2 DEF SubmitSound
<1>5. CloseSound'
  BY DEF TypeOK, CloseSound, DrainedBeforeExit, QueueClosed
<1> QED
  BY <1>1, <1>2, <1>3, <1>4, <1>5

\* Every step of the pool preserves the invariant.
LEMMA NextInv == IInv /\ [Next]_vars => IInv'
<1> SUFFICES ASSUME IInv, [Next]_vars PROVE IInv'
  OBVIOUS
<1>1. ASSUME NEW t \in Tasks, NEW from \in {"first", "second"},
             NEW next \in {"second", "inline"}, TrySend(t, from, next)
      PROVE  IInv'
  <2>1. idx[t] \in Workers
    BY DEF IInv, TypeOK
  <2>2. CASE QueueClosed(idx[t])
    <3>1. /\ panicked' \in BOOLEAN
          /\ UNCHANGED <<closed, queue, toClose, stats, submits, workers, runs>>
      BY <1>1, <2>2 DEF TrySend
    <3> USE DEF IInv, submits, workers, stats
    <3>2. TypeOK'
      BY <3>1 DEF TypeOK
    <3>3. QueuesSound' /\ HandsSound' /\ SubmitSound'
      BY <3>1, QueuesFrame, HandsFrame
    <3>4. CloseSound'
      BY <3>1 DEF CloseSound, DrainedBeforeExit, QueueClosed
    <3> QED
      BY <3>2, <3>3, <3>4
  <2>3. CASE ~QueueClosed(idx[t]) /\ Len(queue[idx[t]]) < QueueCap
    BY <1>1, <2>1, <2>3, EnqueueInv DEF TrySend
  <2>4. CASE ~QueueClosed(idx[t]) /\ ~(Len(queue[idx[t]]) < QueueCap)
    <3> USE DEF IInv, SubGoto, stats, workers
    <3>1. /\ sub[t] = from /\ sub' = [sub EXCEPT ![t] = next]
          /\ idx' = [idx EXCEPT ![t] = (@ + 1) % NumWorkers]
          /\ UNCHANGED <<closed, queue, toClose, stats, workers, runs, panicked>>
      BY <1>1, <2>4 DEF TrySend
    <3>2. TypeOK'
      <4>1. (idx[t] + 1) % NumWorkers \in Workers
        BY SMTT(30), SMTT(60), <2>1, IndexInRange DEF Workers
      <4> QED
        BY <3>1, <4>1 DEF TypeOK
    <3>3. QueuesSound' /\ HandsSound'
      <4>1. \A u \in Tasks : sub[u] = "accepted" => sub'[u] = "accepted"
        BY <3>1 DEF TypeOK
      <4>2. QueuesSound'
        BY SMTT(30), SMTT(60), <3>1, <4>1, QueuedIsTask DEF QueuesSound
      <4>3. HandsSound'
        BY <3>1, <4>1 DEF HandsSound, Busy
      <4> QED
        BY <4>2, <4>3
    <3>4. SubmitSound'
      <4>1. \A u \in Tasks : Queued(u)' = Queued(u) /\ InHand(u)' = InHand(u)
        BY <3>1 DEF Queued, InHand
      <4> QED
        BY <3>1, <4>1 DEF TypeOK, SubmitSound
    <3>5. CloseSound'
      BY <3>1 DEF CloseSound, DrainedBeforeExit, QueueClosed
    <3> QED
      BY <3>2, <3>3, <3>4, <3>5
  <2> QED
    BY <2>2, <2>3, <2>4
<1>2. ASSUME NEW t \in Tasks, SubmitStep(t) PROVE IInv'
  BY <1>1, <1>2, CheckClosedInv, CountSubmittedInv, PickQueueInv, RunInlineInv,
     CountInlineInv DEF SubmitStep, SendFirst, SendSecond
<1>3. ASSUME NEW w \in Workers, PollOwn(w) PROVE IInv'
  <2>1. CASE Take(w, w)
    BY <1>3, <2>1, TakeInv DEF PollOwn
  <2>2. CASE WorkerGoto(w, "exit") /\ queue[w] = <<>> /\ QueueClosed(w)
               /\ UNCHANGED <<queue, task, tries>>
    BY <1>3, <2>2, IdleInv DEF PollOwn, IInv, TypeOK
  <2>3. CASE WorkerGoto(w, "steal") /\ tries' = [tries EXCEPT ![w] = 0]
               /\ UNCHANGED <<queue, task>>
    <3>1. tries' \in [Workers -> Nat]
      BY <2>3 DEF IInv, TypeOK
    <3> QED
      BY <1>3, <2>3, <3>1, IdleInv DEF PollOwn
  <2> QED
    BY <1>3, <2>1, <2>2, <2>3 DEF PollOwn
<1>4. ASSUME NEW w \in Workers, Steal(w) PROVE IInv'
  <2> DEFINE victim == (w + 1 + tries[w]) % NumWorkers
  <2>1. victim \in Workers
    <3>1. tries[w] \in Nat
      BY DEF IInv, TypeOK
    <3>2. w + 1 + tries[w] \in Nat
      BY SMTT(30), SMTT(60), <3>1 DEF Workers
    <3> QED
      BY <3>2, IndexInRange
  <2>2. CASE Take(w, victim)
    BY <1>4, <2>1, <2>2, TakeInv DEF Steal
  <2>3. CASE tries' = [tries EXCEPT ![w] = @ + 1] /\ UNCHANGED <<queue, task, wpc>>
    <3>1. tries' \in [Workers -> Nat] /\ WorkerGoto(w, "steal")
      BY SMTT(30), SMTT(60), <1>4, <2>3 DEF Steal, WorkerGoto, IInv, TypeOK
    <3> QED
      BY <1>4, <2>3, <3>1, IdleInv DEF Steal
  <2>4. CASE WorkerGoto(w, "park") /\ UNCHANGED <<queue, task, tries>>
    <3>1. tries' \in [Workers -> Nat]
      BY <2>4 DEF IInv, TypeOK
    <3> QED
      BY <1>4, <2>4, <3>1, IdleInv DEF Steal
  <2> QED
    BY <1>4, <2>2, <2>3, <2>4 DEF Steal
<1>5. ASSUME NEW w \in Workers, Wake(w) PROVE IInv'
  <2>1. CASE Take(w, w)
    BY <1>5, <2>1, TakeInv DEF Wake
  <2>2. CASE ~Take(w, w)
    <3>1. /\ WorkerGoto(w, "exit") /\ QueueClosed(w) /\ queue[w] = <<>>
          /\ tries' \in [Workers -> Nat] /\ UNCHANGED <<queue, task>>
      BY <1>5, <2>2 DEF Wake, IInv, TypeOK
    <3> QED
      BY <1>5, <3>1, IdleInv DEF Wake
  <2> QED
    BY <2>1, <2>2
<1>6. CASE UNCHANGED vars
  BY SMTT(30), SMTT(60), <1>6
  DEF IInv, TypeOK, QueuesSound, HandsSound, SubmitSound, CloseSound,
     DrainedBeforeExit, QueueClosed, Busy, Queued, InHand, vars, stats, submits,
     workers
<1> HIDE DEF IInv
<1> QED
  BY <1>2, <1>3, <1>4, <1>5, <1>6, RunInv, CountCompletedInv, CloseFlagInv,
     CloseQueueInv DEF Next, WorkerStep

\* The invariant holds throughout the life of a pool.
LEMMA Invariance == Spec => []IInv
BY InitInv, NextInv, PTL DEF Spec
-----------------------------------------------------------------------------
\* The model is type correct; in particular no queue index leaves the queues.
THEOREM TypeCorrect == Spec => []TypeOK
<1>1. IInv => TypeOK
  BY DEF IInv
<1> QED
  BY <1>1, Invariance, PTL

\* Owners, thieves and inline execution never execute a task twice.
THEOREM NeverTwice == Spec => []ExecutedOnce
<1>1. IInv => ExecutedOnce
  <2> SUFFICES ASSUME IInv, NEW t \in Tasks
               PROVE  /\ runs[t] <= 1
                      /\ Queued(t) \/ InHand(t) => runs[t] = 0
                      /\ ~(Queued(t) /\ InHand(t))
    BY DEF ExecutedOnce
  <2>1. runs[t] <= 1
    BY SMTT(30), SMTT(60) DEF IInv, SubmitSound
  <2>2. Queued(t) => runs[t] = 0
    BY SMTT(30), SMTT(60) DEF IInv, QueuesSound, Queued
  <2>3. InHand(t) => runs[t] = 0 /\ ~Queued(t)
    BY DEF IInv, HandsSound, Busy, InHand, Queued
  <2> QED
    BY <2>1, <2>2, <2>3
<1> QED
  BY <1>1, Invariance, PTL

\* A task for which Submit returned true is executed or still to be executed; one
\* for which it returned false never is.
THEOREM NothingLost == Spec => []NoTaskLost
<1>1. IInv => NoTaskLost
  <2> SUFFICES ASSUME IInv, NEW t \in Tasks
               PROVE  /\ sub[t] = "accepted" => runs[t] = 1 \/ Queued(t) \/ InHand(t)
                      /\ sub[t] = "rejected" =>
                           runs[t] = 0 /\ ~Queued(t) /\ ~InHand(t)
    BY DEF NoTaskLost
  <2>1. sub[t] = "accepted" => runs[t] = 1 \/ Queued(t) \/ InHand(t)
    BY DEF IInv, SubmitSound
  <2>2. sub[t] = "rejected" => runs[t] = 0
    BY DEF IInv, SubmitSound
  <2>3. sub[t] = "rejected" => ~Queued(t) /\ ~InHand(t)
    BY DEF IInv, QueuesSound, HandsSound, Busy, Queued, InHand
  <2> QED
    BY <2>1, <2>2, <2>3
<1> QED
  BY <1>1, Invariance, PTL

\* A worker goroutine ends only when its channel is closed and drained.
THEOREM GracefulDrain == Spec => []DrainedBeforeExit
<1>1. IInv => DrainedBeforeExit
  BY DEF IInv, CloseSound
<1> QED
  BY <1>1, Invariance, PTL
-----------------------------------------------------------------------------
(* The counters of Stats.                                                  *)

\* The tasks that tasksSubmitted and tasksCompleted have counted.
CountedIn == {t \in Tasks : sub[t] \notin {"idle", "rejected", "count"}}
Counting(t) == \E w \in Workers : wpc[w] = "count" /\ task[w] = t
CountedOut == {t \in Tasks : sub[t] = "accepted" /\ runs[t] = 1 /\ ~Counting(t)}

CountersSound ==
  /\ IsFiniteSet(CountedIn) /\ submitted = Cardinality(CountedIn)
  /\ IsFiniteSet(CountedOut) /\ completed = Cardinality(CountedOut)

\* The counters stay exact: each atomic increment accounts for one task, and no
\* other step of Submit, of a worker or of Close changes what they count.
LEMMA CountersInv == IInv /\ CountersSound /\ [Next]_vars => CountersSound'
<1> SUFFICES ASSUME IInv, CountersSound, [Next]_vars PROVE CountersSound'
  OBVIOUS
<1> USE DEF submits, workers, stats, SubGoto, WorkerGoto
<1>1. ASSUME CountedIn' = CountedIn, CountedOut' = CountedOut, UNCHANGED stats
      PROVE  CountersSound'
  BY <1>1 DEF CountersSound
<1>2. ASSUME NEW t \in Tasks, CheckClosed(t) \/ PickQueue(t) PROVE CountersSound'
  <2>1. CountedIn' = CountedIn
    BY <1>2 DEF IInv, TypeOK, CheckClosed, PickQueue, CountedIn
  <2>2. CountedOut' = CountedOut
    BY <1>2
    DEF IInv, TypeOK, CheckClosed, PickQueue, CountedOut, Counting
  <2> QED
    BY <1>1, <1>2, <2>1, <2>2 DEF CheckClosed, PickQueue
<1>3. ASSUME NEW t \in Tasks, CountSubmitted(t) PROVE CountersSound'
  <2>1. CountedIn' = CountedIn \cup {t} /\ t \notin CountedIn
    BY <1>3 DEF IInv, TypeOK, CountSubmitted, CountedIn
  <2>2. CountedOut' = CountedOut
    BY <1>3 DEF IInv, TypeOK, CountSubmitted, CountedOut, Counting
  <2> QED
    BY <1>3, <2>1, <2>2, FS_AddElement
    DEF CountersSound, CountSubmitted
<1>4. ASSUME NEW t \in Tasks, NEW from \in {"first", "second"},
             NEW next \in {"second", "inline"}, TrySend(t, from, next)
      PROVE  CountersSound'
  <2>1. /\ sub' = sub \/ \E l \in {"second", "inline", "accepted"} :
                           sub' = [sub EXCEPT ![t] = l]
        /\ sub[t] = from /\ runs[t] = 0
        /\ UNCHANGED <<stats, runs, workers>>
    BY <1>4 DEF TrySend, IInv, SubmitSound
  <2>2. CountedIn' = CountedIn
    BY <2>1 DEF IInv, TypeOK, CountedIn
  <2>3. CountedOut' = CountedOut
    BY SMTT(30), SMTT(60), <2>1 DEF IInv, TypeOK, CountedOut, Counting
  <2> QED
    BY <1>1, <2>1, <2>2, <2>3
<1>5. ASSUME NEW t \in Tasks, RunInline(t) PROVE CountersSound'
  <2>1. CountedIn' = CountedIn
    BY <1>5 DEF IInv, TypeOK, RunInline, CountedIn
  <2>2. CountedOut' = CountedOut
    BY <1>5
    DEF IInv, TypeOK, RunInline, Execute, CountedOut, Counting
  <2> QED
    BY <1>1, <1>5, <2>1, <2>2 DEF RunInline
<1>6. ASSUME NEW t \in Tasks, CountInline(t) PROVE CountersSound'
  <2>1. CountedIn' = CountedIn
    BY <1>6 DEF IInv, TypeOK, CountInline, CountedIn
  <2>2. t \notin CountedOut /\ runs[t] = 1 /\ ~Counting(t)
    BY <1>6
    DEF IInv, SubmitSound, HandsSound, Busy, CountInline, CountedOut,
       Counting
  <2>3. CountedOut' = CountedOut \cup {t}
    BY <1>6, <2>2 DEF IInv, TypeOK, CountInline, CountedOut, Counting
  <2> QED
    BY <1>6, <2>1, <2>2, <2>3, FS_AddElement
    DEF CountersSound, CountInline
<1>7. ASSUME NEW w \in Workers, wpc[w] \in {"own", "steal", "park"},
             \E l \in {"run", "steal", "park", "exit"} : WorkerGoto(w, l),
             \A v \in Workers : v # w => task'[v] = task[v],
             UNCHANGED <<stats, submits, runs>>
      PROVE  CountersSound'
  <2>1. CountedIn' = CountedIn
    BY <1>7 DEF CountedIn
  <2>2. \A t \in Tasks : Counting(t)' <=> Counting(t)
    BY <1>7 DEF IInv, TypeOK, Counting
  <2>3. CountedOut' = CountedOut
    BY <1>7, <2>2 DEF CountedOut
  <2> QED
    BY <1>1, <1>7, <2>1, <2>3
<1>8. ASSUME NEW w \in Workers, PollOwn(w) \/ Steal(w) \/ Wake(w)
      PROVE  CountersSound'
  <2>1. /\ wpc[w] \in {"own", "steal", "park"}
        /\ \E l \in {"run", "steal", "park", "exit"} : WorkerGoto(w, l)
        /\ \A v \in Workers : v # w => task'[v] = task[v]
        /\ UNCHANGED <<stats, submits, runs>>
    BY SMTT(30), SMTT(60), <1>8 DEF IInv, TypeOK, PollOwn, Steal, Wake, Take
  <2> QED
    BY <1>7, <2>1
<1>9. ASSUME NEW w \in Workers, Run(w) PROVE CountersSound'
  <2>1. CountedIn' = CountedIn
    BY <1>9 DEF Run, CountedIn
  <2>2. /\ task[w] \in Tasks /\ runs[task[w]] = 0 /\ Counting(task[w])'
        /\ \A t \in Tasks : t # task[w] => (Counting(t)' <=> Counting(t))
        /\ \A t \in Tasks : t # task[w] => runs'[t] = runs[t]
    BY <1>9
    DEF IInv, TypeOK, HandsSound, Busy, Run, Execute, Counting
  <2>3. CountedOut' = CountedOut
    <3>0. PICK d : d = task[w]
      OBVIOUS
    <3>1. sub' = sub
      BY <1>9 DEF Run
    <3>2. \A t \in Tasks : t \in CountedOut' <=> t \in CountedOut
      <4> SUFFICES ASSUME NEW t \in Tasks
                   PROVE  t \in CountedOut' <=> t \in CountedOut
        OBVIOUS
      <4>1. CASE t = d
        <5>1. Counting(d)' /\ runs[d] = 0
          BY <2>2, <3>0, <1>9 DEF Run
        <5> QED
          BY SMTT(30), SMTT(60), <4>1, <5>1 DEF CountedOut
      <4>2. CASE t # d
        BY <2>2, <3>0, <3>1, <4>2 DEF CountedOut
      <4> QED
        BY <4>1, <4>2
    <3> QED
      BY <3>2 DEF CountedOut
  <2> QED
    BY <1>1, <1>9, <2>1, <2>3 DEF Run
<1>10. ASSUME NEW w \in Workers, CountCompleted(w) PROVE CountersSound'
  <2>1. CountedIn' = CountedIn
    BY <1>10 DEF CountCompleted, CountedIn
  <2>0. PICK d : d = task[w]
    OBVIOUS
  <2>2. /\ d \in Tasks /\ sub[d] = "accepted" /\ runs[d] = 1
        /\ Counting(d) /\ ~Counting(d)'
        /\ \A t \in Tasks : t # d => (Counting(t)' <=> Counting(t))
    BY <1>10, <2>0, PoolAssumption
    DEF IInv, TypeOK, HandsSound, Busy, CountCompleted, Counting
  <2>3. CountedOut' = CountedOut \cup {d} /\ d \notin CountedOut
    <3>1. sub' = sub /\ runs' = runs
      BY <1>10 DEF CountCompleted
    <3>2. \A t \in Tasks : t \in CountedOut' <=> t \in CountedOut \/ t = d
      <4> SUFFICES ASSUME NEW t \in Tasks
                   PROVE  t \in CountedOut' <=> t \in CountedOut \/ t = d
        OBVIOUS
      <4>1. CASE t = d
        BY <2>2, <3>1, <4>1 DEF CountedOut
      <4>2. CASE t # d
        BY <2>2, <3>1, <4>2 DEF CountedOut
      <4> QED
        BY <4>1, <4>2
    <3>3. d \notin CountedOut
      BY <2>2 DEF CountedOut
    <3>4. CountedOut' \subseteq Tasks /\ CountedOut \subseteq Tasks
      BY DEF CountedOut
    <3> QED
      BY <2>2, <3>2, <3>3, <3>4
  <2> QED
    BY <1>10, <2>1, <2>3, FS_AddElement DEF CountersSound, CountCompleted
<1>11. CASE UNCHANGED <<stats, submits, workers, runs>>
  BY <1>11 DEF CountersSound, CountedIn, CountedOut, Counting
<1> HIDE DEF submits, workers, stats, SubGoto, WorkerGoto
<1> QED
  BY <1>2, <1>3, <1>4, <1>5, <1>6, <1>8, <1>9, <1>10, <1>11
  DEF Next, SubmitStep, SendFirst, SendSecond, WorkerStep, CloseFlag, CloseQueue,
      vars

\* tasksCompleted never runs ahead of tasksSubmitted.
THEOREM CountersConsistent == Spec => []CompletedBehindSubmitted
<1>1. Init => CountersSound
  <2> SUFFICES ASSUME Init PROVE CountersSound
    OBVIOUS
  <2>1. CountedIn = {} /\ CountedOut = {}
    BY DEF Init, CountedIn, CountedOut
  <2> QED
    BY <2>1, FS_EmptySet DEF Init, CountersSound
<1>2. IInv /\ CountersSound => CompletedBehindSubmitted
  <2> SUFFICES ASSUME IInv, CountersSound PROVE CompletedBehindSubmitted
    OBVIOUS
  <2>1. CountedOut \subseteq CountedIn
    BY DEF CountedOut, CountedIn
  <2> QED
    BY <2>1, FS_Subset DEF CountersSound, CompletedBehindSubmitted
<1> QED
  BY <1>1, <1>2, Invariance, CountersInv, PTL DEF Spec
-----------------------------------------------------------------------------
(* The pool implements TaskPool.                                           *)

\* Under the invariant the abstract status of a task follows from its run count
\* and from how far its Submit has come.
PlainStatus(t) ==
  IF runs[t] > 0 THEN "done"
  ELSE IF sub[t] \in {"accepted", "inline"} THEN "pending"
  ELSE IF sub[t] = "rejected" THEN "rejected" ELSE "new"

\* The two readings of the status agree: what is queued or in a worker's hands is
\* accepted, and what is accepted and not yet executed is one of these.
LEMMA StatusIsPlain == IInv => \A t \in Tasks : Status(t) = PlainStatus(t)
<1> SUFFICES ASSUME IInv, NEW t \in Tasks PROVE Status(t) = PlainStatus(t)
  OBVIOUS
<1>1. Queued(t) => sub[t] = "accepted"
  BY SMTT(30), SMTT(60) DEF IInv, QueuesSound, Queued
<1>2. InHand(t) => sub[t] = "accepted"
  BY DEF IInv, HandsSound, Busy, InHand
<1>3. sub[t] = "accepted" => runs[t] = 1 \/ Queued(t) \/ InHand(t)
  BY DEF IInv, SubmitSound
<1> QED
  BY SMTT(30), SMTT(60), <1>1, <1>2, <1>3 DEF Status, PlainStatus

\* Every behaviour of the pool is a behaviour of TaskPool.
THEOREM PoolRefinesTaskPool == Spec => ImplementsTaskPool
<1> DEFINE st == [t \in Tasks |-> Status(t)]
<1>1. Init => Abstract!Init
  <2> SUFFICES ASSUME Init PROVE Abstract!Init
    OBVIOUS
  <2>1. \A t \in Tasks : Status(t) = "new"
    BY SMTT(30), SMTT(60), InitInv, StatusIsPlain DEF Init, PlainStatus
  <2> QED
    BY <2>1 DEF Init, Abstract!Init
<1>2. IInv' => (\A t \in Tasks : Status(t) = PlainStatus(t))'
  BY StatusIsPlain, PTL
<1>3. IInv /\ IInv' /\ [Next]_vars => [Abstract!Next]_(Abstract!vars)
  <2> SUFFICES ASSUME IInv, IInv', [Next]_vars PROVE [Abstract!Next]_(Abstract!vars)
    OBVIOUS
  <2>1. /\ st = [t \in Tasks |-> PlainStatus(t)]
        /\ st' = [t \in Tasks |-> PlainStatus(t)']
    BY <1>2, StatusIsPlain
  <2> USE DEF submits, workers, stats, SubGoto, Execute
  <2>2. ASSUME \A t \in Tasks : PlainStatus(t)' = PlainStatus(t), closed' = closed
        PROVE  UNCHANGED Abstract!vars
    BY <2>1, <2>2 DEF Abstract!vars
  <2>3. ASSUME NEW t \in Tasks, NEW to, PlainStatus(t)' = to,
               \A u \in Tasks : u # t => PlainStatus(u)' = PlainStatus(u)
        PROVE  st' = [st EXCEPT ![t] = to]
    BY <2>1, <2>3
  <2>4. ASSUME NEW t \in Tasks, CheckClosed(t)
        PROVE  Abstract!Reject(t) \/ UNCHANGED Abstract!vars
    <3>1. CASE closed
      <4>1. /\ PlainStatus(t) = "new" /\ PlainStatus(t)' = "rejected"
            /\ \A u \in Tasks : u # t => PlainStatus(u)' = PlainStatus(u)
        BY SMTT(30), SMTT(60), <2>4, <3>1
        DEF CheckClosed, PlainStatus, IInv, TypeOK, SubmitSound
      <4> QED
        BY <2>1, <2>3, <2>4, <3>1, <4>1
        DEF CheckClosed, Abstract!Reject, Abstract!Move
    <3>2. CASE ~closed
      <4>1. \A u \in Tasks : PlainStatus(u)' = PlainStatus(u)
        BY <2>4, <3>2 DEF CheckClosed, PlainStatus, IInv, TypeOK
      <4> QED
        BY <2>2, <2>4, <4>1 DEF CheckClosed
    <3> QED
      BY <3>1, <3>2
  <2>5. ASSUME NEW t \in Tasks,
               CountSubmitted(t) \/ PickQueue(t) \/ CountInline(t)
        PROVE  UNCHANGED Abstract!vars
    <3>1. \A u \in Tasks : PlainStatus(u)' = PlainStatus(u)
      <4>1. runs' = runs /\ \A u \in Tasks : u # t => sub'[u] = sub[u]
        BY <2>5
        DEF CountSubmitted, PickQueue, CountInline, IInv, TypeOK
      <4>2. PlainStatus(t)' = PlainStatus(t)
        <5>1. CASE CountSubmitted(t) \/ PickQueue(t)
          BY <5>1
          DEF CountSubmitted, PickQueue, PlainStatus, IInv, TypeOK
        <5>2. CASE CountInline(t)
          BY SMTT(30), SMTT(60), <4>1, <5>2
          DEF CountInline, PlainStatus, IInv, SubmitSound
        <5> QED
          BY <2>5, <5>1, <5>2
      <4> QED
        BY <4>1, <4>2 DEF PlainStatus
    <3> QED
      BY <2>2, <2>5, <3>1 DEF CountSubmitted, PickQueue, CountInline
  <2>6. ASSUME NEW t \in Tasks, NEW from \in {"first", "second"},
               NEW next \in {"second", "inline"}, TrySend(t, from, next)
        PROVE  Abstract!Accept(t) \/ UNCHANGED Abstract!vars
    <3>1. /\ UNCHANGED <<closed, runs>> /\ sub[t] = from /\ runs[t] = 0
          /\ sub' = sub \/ \E l \in {"second", "inline", "accepted"} :
                             sub' = [sub EXCEPT ![t] = l]
      BY <2>6 DEF TrySend, IInv, SubmitSound
    <3>2. PlainStatus(t) = "new" /\ PlainStatus(t)' \in {"new", "pending"}
      BY SMTT(30), SMTT(60), <3>1 DEF IInv, TypeOK, PlainStatus
    <3>3. \A u \in Tasks : u # t => PlainStatus(u)' = PlainStatus(u)
      BY <3>1 DEF IInv, TypeOK, PlainStatus
    <3>4. CASE PlainStatus(t)' = "new"
      BY <2>2, <3>1, <3>2, <3>3, <3>4
    <3>5. CASE PlainStatus(t)' = "pending"
      BY <2>1, <2>3, <3>1, <3>2, <3>3, <3>5
      DEF Abstract!Accept, Abstract!Move
    <3> QED
      BY <3>2, <3>4, <3>5
  <2>7. ASSUME NEW t \in Tasks, Execute(t), runs[t] = 0, closed' = closed,
               sub[t] \in {"accepted", "inline"},
               \A u \in Tasks : u # t => sub'[u] = sub[u]
        PROVE  Abstract!Execute(t)
    <3>1. /\ PlainStatus(t) = "pending" /\ PlainStatus(t)' = "done"
          /\ \A u \in Tasks : u # t => PlainStatus(u)' = PlainStatus(u)
      <4>1. runs'[t] = 1 /\ \A u \in Tasks : u # t => runs'[u] = runs[u]
        BY SMTT(30), SMTT(60), <2>7 DEF IInv, TypeOK
      <4> QED
        BY SMTT(30), SMTT(60), <2>7, <4>1 DEF PlainStatus
    <3> QED
      BY <2>1, <2>3, <2>7, <3>1 DEF Abstract!Execute, Abstract!Move
  <2>8. ASSUME NEW t \in Tasks, RunInline(t) PROVE Abstract!Execute(t)
    BY <2>7, <2>8 DEF RunInline, IInv, TypeOK, SubmitSound
  <2>9. ASSUME NEW w \in Workers, Run(w) PROVE \E t \in Tasks : Abstract!Execute(t)
    <3>1. task[w] \in Tasks /\ runs[task[w]] = 0 /\ sub[task[w]] = "accepted"
      BY <2>9 DEF Run, IInv, HandsSound, Busy
    <3> QED
      BY <2>7, <2>9, <3>1 DEF Run
  <2>10. CASE UNCHANGED <<closed, sub, runs>>
    BY <2>2, <2>10 DEF PlainStatus
  <2>11. CASE CloseFlag
    <3>1. \A u \in Tasks : PlainStatus(u)' = PlainStatus(u)
      BY <2>11 DEF CloseFlag, PlainStatus
    <3>2. st' = st
      BY <2>1, <3>1
    <3> QED
      BY <2>11, <3>2 DEF CloseFlag, Abstract!Next, Abstract!Close
  <2> HIDE DEF SubGoto, Execute
  <2>12. CASE \E w \in Workers : PollOwn(w) \/ Steal(w) \/ Wake(w) \/ CountCompleted(w)
    BY <2>10, <2>12 DEF PollOwn, Steal, Wake, CountCompleted
  <2> QED
    BY <2>4, <2>5, <2>6, <2>8, <2>9, <2>10, <2>11, <2>12
    DEF Next, SubmitStep, SendFirst, SendSecond, WorkerStep, CloseQueue, vars,
        Abstract!Next
<1> QED
  BY <1>1, <1>3, Invariance, PTL DEF Spec, ImplementsTaskPool, Abstract!Spec
=============================================================================

----------------------------- MODULE Middleware -----------------------------
(***************************************************************************)
(* The pipelines of core/middleware/pipeline.go, run as the handler of the *)
(* engine's requests (core/engine.go, processRequest): a context is taken  *)
(* from the pool, the AsyncPipeline executes, the context goes back.       *)
(*                                                                         *)
(* Goroutines: one for each request, and the workers of the AsyncPipeline. *)
(* The engine's loop serves its requests one after the other; the pipeline *)
(* and the pool allow more than one server, so here requests may overlap.  *)
(* The synchronous middlewares are those the package provides; the final   *)
(* handler answers, and may panic.  Time advances in ticks.                *)
(***************************************************************************)
EXTENDS FDContext

CONSTANTS Requests, Contexts, NoCtx, Workers,
          Preflight,           \* the requests whose method is OPTIONS
          ParamsOf,            \* the names in the map of parameters that Find returns
          Sync,                \* Pipeline.handlers
          Async,               \* AsyncPipeline.async
          MayPanic,            \* the requests whose final handler panics
          QueueCap,            \* capacity of workerCh
          Rate,                \* requestsPerSecond
          Second, MaxTime      \* ticks of a second; bound on the clock

ASSUME MiddlewareAssumption ==
  /\ NoReq \notin Requests /\ NoCtx \notin Contexts
  /\ Preflight \union MayPanic \subseteq Requests
  /\ ParamsOf \in [Requests -> SUBSET Keys]
  /\ Sync \in Seq({"Recovery", "CORS", "RateLimiter", "RequestID"})
  /\ Async \in Seq({"Logger", "Metrics"})
  /\ {QueueCap, Rate, Second} \subseteq Nat \ {0} /\ MaxTime \in Nat

VARIABLES
  ctx,                 \* the contexts
  pool,                \* Engine.contextPool: those nobody holds
  pc, held, params,    \* of each request: where its goroutine is, its context, and
                       \* the parameters the context has not been given yet
  workerCh, task,      \* the queue, and what each worker is running
  tokens, lastRefill,  \* RateLimiter
  counter,             \* RequestID
  now,
  aborts, sent,        \* of each request: the middlewares that aborted it, and
  ran,                 \* the responses written; the async handlers that ran for it,
                       \* each with whether it saw this request in the context
  passed,              \* the ticks at which RateLimiter let a request through
  crashed              \* a panic of a handler or a worker ended the program

limiter == <<tokens, lastRefill, passed>>
ghosts  == <<aborts, sent, ran>>
vars    == <<ctx, pool, pc, held, params, workerCh, task, limiter, counter, now, ghosts,
             crashed>>

Init ==
  /\ ctx = [c \in Contexts |-> NewFDContext(NoReq)] /\ pool = Contexts
  /\ pc = [r \in Requests |-> <<"new", 0>>] /\ held = [r \in Requests |-> NoCtx]
  /\ params = [r \in Requests |-> {}]
  /\ workerCh = <<>> /\ task = [w \in Workers |-> <<>>]
  /\ tokens = Rate /\ lastRefill = 0 /\ counter = 0 /\ now = 0
  /\ aborts = [r \in Requests |-> {}] /\ sent = [r \in Requests |-> <<>>]
  /\ ran = [r \in Requests |-> <<>>]
  /\ passed = <<>> /\ crashed = FALSE

At(r, where)  == ~crashed /\ pc[r][1] = where
Go(r, where, i) == pc' = [pc EXCEPT ![r] = <<where, i>>]
Mine(r)       == ctx[held[r]]
Update(r, c)  == ctx' = [ctx EXCEPT ![held[r]] = c]
-----------------------------------------------------------------------------
(* processRequest: the context of a request.                               *)

\* Mutant: the context stays in the pool.
Begin_Shares(r) ==
  /\ At(r, "new")
  /\ \E c \in pool :
       /\ held' = [held EXCEPT ![r] = c] /\ UNCHANGED pool
       /\ ctx' = [ctx EXCEPT ![c] = Reset(@, r)]
  /\ params' = [params EXCEPT ![r] = ParamsOf[r]]
  /\ Go(r, "sync", 1)
  /\ UNCHANGED <<workerCh, task, limiter, counter, now, ghosts, crashed>>

Begin(r) ==
  /\ At(r, "new")
  /\ \E c \in pool :
       /\ held' = [held EXCEPT ![r] = c] /\ pool' = pool \ {c}
       /\ ctx' = [ctx EXCEPT ![c] = Reset(@, r)]
  /\ params' = [params EXCEPT ![r] = ParamsOf[r]]
  /\ Go(r, "sync", 1)
  /\ UNCHANGED <<workerCh, task, limiter, counter, now, ghosts, crashed>>

\* for k, v := range params: in no particular order
Fill(r) ==
  /\ At(r, "sync")
  /\ \E k \in params[r] : /\ Update(r, SetParam(Mine(r), k, r))
                          /\ params' = [params EXCEPT ![r] = @ \ {k}]
  /\ UNCHANGED <<pool, pc, held, workerCh, task, limiter, counter, now, ghosts, crashed>>

\* contextPool.Put resets the context first.
Finish(r) ==
  /\ At(r, "async") /\ pc[r][2] > Len(Async)
  /\ Update(r, Reset(Mine(r), NoReq))
  /\ pool' = pool \union {held[r]} /\ held' = [held EXCEPT ![r] = NoCtx]
  /\ Go(r, "done", 0)
  /\ UNCHANGED <<params, workerCh, task, limiter, counter, now, ghosts, crashed>>
-----------------------------------------------------------------------------
(* The synchronous middlewares.  After each one Execute looks at aborted;  *)
(* an aborted request gets no further handler, synchronous or not.         *)

Handling(r) == At(r, "sync") /\ params[r] = {}
Current(r, name) == Handling(r) /\ pc[r][2] <= Len(Sync) /\ Sync[pc[r][2]] = name

Proceed_Regardless(r, c) ==
  /\ Update(r, c)
  /\ Go(r, "sync", pc[r][2] + 1)
  /\ UNCHANGED <<pool, held, params, workerCh, task, now, ran, crashed>>

Proceed(r, c) ==
  /\ Update(r, c)
  /\ IF c.aborted THEN Go(r, "async", Len(Async) + 1) ELSE Go(r, "sync", pc[r][2] + 1)
  /\ UNCHANGED <<pool, held, params, workerCh, task, now, ran, crashed>>

Aborted(r, name) == aborts' = [aborts EXCEPT ![r] = @ \union {name}]
Sends(r, resp)   == sent' = [sent EXCEPT ![r] = Append(@, resp)]

\* The deferred recover is over when Recovery returns, before the next
\* handler is called.
Recovery(r) ==
  /\ Current(r, "Recovery")
  /\ Proceed(r, Mine(r))
  /\ UNCHANGED <<limiter, counter, aborts, sent>>

CORS(r) ==
  /\ Current(r, "CORS")
  /\ LET c == SetHeader(Mine(r), "Access-Control-Allow-Origin") IN
       IF r \in Preflight
         THEN Proceed(r, Status(Abort(c), 204)) /\ Aborted(r, "CORS")
         ELSE Proceed(r, c) /\ UNCHANGED aborts
  /\ UNCHANGED <<limiter, counter, sent>>

RequestID(r) ==
  /\ Current(r, "RequestID")
  /\ counter' = counter + 1
  /\ Proceed(r, SetHeader(Mine(r), "X-Request-ID"))
  /\ UNCHANGED <<limiter, aborts, sent>>

\* Under the limiter's mutex.
Available_Early == IF now - lastRefill >= Second \div 2 THEN Rate ELSE tokens
Available == IF now - lastRefill > Second THEN Rate ELSE tokens

RateLimiter(r) ==
  /\ Current(r, "RateLimiter")
  /\ lastRefill' = IF now - lastRefill > Second THEN now ELSE lastRefill
  /\ IF Available > 0
       THEN /\ tokens' = Available - 1
            /\ passed' = Append(passed, now)
            /\ Proceed(r, Mine(r)) /\ UNCHANGED <<aborts, sent>>
       ELSE /\ tokens' = Available /\ UNCHANGED passed
            /\ Proceed(r, Status(Abort(Mine(r)), 429))
            /\ Aborted(r, "RateLimiter") /\ Sends(r, JSON(Mine(r), 429, "error"))
  /\ UNCHANGED counter

\* The final handler, after the last middleware.
FinalHandler(r) ==
  /\ Handling(r) /\ pc[r][2] > Len(Sync) /\ r \notin MayPanic
  /\ Sends(r, String(Mine(r), 200, "ok"))
  /\ Go(r, "async", 1)
  /\ UNCHANGED <<ctx, pool, held, params, workerCh, task, limiter, counter, now, aborts,
                 ran, crashed>>

\* A panic unwinds Execute, the engine's handler and its loop: no deferred
\* recover is left on the stack, that of Recovery neither, and the program ends.
Panics(r) ==
  /\ Handling(r) /\ pc[r][2] > Len(Sync) /\ r \in MayPanic
  /\ Go(r, "panicked", 0) /\ crashed' = TRUE
  /\ UNCHANGED <<ctx, pool, held, params, workerCh, task, limiter, counter, now, ghosts>>
-----------------------------------------------------------------------------
(* The asynchronous middlewares: queued, or run inline if the queue is full. *)

\* Handler i runs for r, with context c.
Runs(r, i, c) == ran' = [ran EXCEPT ![r] = Append(@, <<i, ctx[c].request = r>>)]

Submit_Both(r) ==
  /\ At(r, "async") /\ pc[r][2] <= Len(Async)
  /\ workerCh' = IF Len(workerCh) < QueueCap
                   THEN Append(workerCh, <<pc[r][2], held[r], r>>) ELSE workerCh
  /\ Runs(r, pc[r][2], held[r])
  /\ Go(r, "async", pc[r][2] + 1)
  /\ UNCHANGED <<ctx, pool, held, params, task, limiter, counter, now, aborts, sent,
                 crashed>>

Submit_Drops(r) ==
  /\ At(r, "async") /\ pc[r][2] <= Len(Async)
  /\ workerCh' = IF Len(workerCh) < QueueCap
                   THEN Append(workerCh, <<pc[r][2], held[r], r>>) ELSE workerCh
  /\ Go(r, "async", pc[r][2] + 1)
  /\ UNCHANGED <<ctx, pool, held, params, task, limiter, counter, now, ghosts, crashed>>

Submit(r) ==
  /\ At(r, "async") /\ pc[r][2] <= Len(Async)
  /\ IF Len(workerCh) < QueueCap
       THEN workerCh' = Append(workerCh, <<pc[r][2], held[r], r>>) /\ UNCHANGED ran
       ELSE Runs(r, pc[r][2], held[r]) /\ UNCHANGED workerCh
  /\ Go(r, "async", pc[r][2] + 1)
  /\ UNCHANGED <<ctx, pool, held, params, task, limiter, counter, now, aborts, sent,
                 crashed>>

Receive(w) ==
  /\ ~crashed /\ task[w] = <<>> /\ workerCh # <<>>
  /\ task' = [task EXCEPT ![w] = Head(workerCh)] /\ workerCh' = Tail(workerCh)
  /\ UNCHANGED <<ctx, pool, pc, held, params, limiter, counter, now, ghosts, crashed>>

\* Logger and Metrics ask the context for its request's method and path.  When
\* the context has been put back that is a nil dereference, and nothing recovers
\* it; when another request has taken it since, they see that request's.
RunTask(w) ==
  /\ ~crashed /\ task[w] # <<>>
  /\ IF ctx[task[w][2]].request = NoReq
       THEN crashed' = TRUE /\ UNCHANGED ran
       ELSE Runs(task[w][3], task[w][1], task[w][2]) /\ UNCHANGED crashed
  /\ task' = [task EXCEPT ![w] = <<>>]
  /\ UNCHANGED <<ctx, pool, pc, held, params, workerCh, limiter, counter, now, aborts,
                 sent>>

Worker(w) == Receive(w) \/ RunTask(w)

Tick ==
  /\ ~crashed /\ now < MaxTime /\ now' = now + 1
  /\ UNCHANGED <<ctx, pool, pc, held, params, workerCh, task, limiter, counter, ghosts,
                 crashed>>

Handle(r) ==
  \/ Begin(r) \/ Fill(r) \/ Recovery(r) \/ CORS(r) \/ RequestID(r) \/ RateLimiter(r)
  \/ FinalHandler(r) \/ Panics(r) \/ Submit(r) \/ Finish(r)

Next == (\E r \in Requests : Handle(r)) \/ (\E w \in Workers : Worker(w)) \/ Tick

Spec == Init /\ [][Next]_vars

\* The loop of Execute over its asynchronous middlewares and the workers run.
FairSpec == Spec /\ (\A r \in Requests : WF_vars(Submit(r)))
                 /\ (\A w \in Workers : WF_vars(Worker(w)))
-----------------------------------------------------------------------------
\* Execute answers a request at most once, whatever other requests do in
\* between, and a request that it is done with was answered: by the middleware
\* that aborted it, else by the final handler.  A preflight is the exception:
\* CORS aborts it with Status(204), which writes nothing.
OneResponse == \A r \in Requests :
  /\ Len(sent[r]) <= 1
  /\ pc[r][1] = "done" /\ "CORS" \notin aborts[r] => Len(sent[r]) = 1
  /\ \A i \in DOMAIN sent[r] : sent[r][i].code = IF aborts[r] = {} THEN 200 ELSE 429

\* A request sees its own context only, although contexts are used again:
\* its parameters, in the slots and in the overflow map, are those of its
\* route that were set, and it counts as aborted when a middleware of its own
\* aborted it.
OwnContext == \A r \in Requests : held[r] # NoCtx =>
  /\ Mine(r).request = r
  /\ Mine(r).aborted <=> aborts[r] # {}
  /\ \A k \in Keys : Param(Mine(r), k) = IF k \in ParamsOf[r] \ params[r] THEN r ELSE 0

\* AsyncPipeline.Execute hands every asynchronous middleware of a request
\* that was not aborted over once, to the queue or inline, and none of a
\* request that was: it waits in the queue once, or one worker has it, or it ran
\* once, and never two of these.
Ran(s, i)       == {j \in DOMAIN s : s[j][1] = i}
InHand(f, r, i) == {w \in Workers : f[w] # <<>> /\ f[w][1] = i /\ f[w][3] = r}
Queued(q, r, i) == {j \in DOMAIN q : q[j][1] = i /\ q[j][3] = r}
Lone(S)         == \E x \in S : S = {x}
HandedOnce(A, B, C) == \/ Lone(A) /\ B = {} /\ C = {}
                       \/ A = {} /\ Lone(B) /\ C = {}
                       \/ A = {} /\ B = {} /\ Lone(C)
Due(r, i) == /\ pc[r][1] \in {"async", "done"} /\ aborts[r] = {}
             /\ pc[r][1] = "async" => i < pc[r][2]
AsyncOnce == \A r \in Requests, i \in DOMAIN Async : ~crashed =>
  IF Due(r, i) THEN HandedOnce(Ran(ran[r], i), InHand(task, r, i), Queued(workerCh, r, i))
  ELSE Ran(ran[r], i) = {} /\ InHand(task, r, i) = {} /\ Queued(workerCh, r, i) = {}

\* An asynchronous middleware that runs before Execute returns, inline or on a
\* worker, sees the request it was handed over for.  One that runs later may see
\* another request, or none and end the program: Execute does not wait for it.
SeesOwn == \A r \in Requests :
  pc[r][1] = "async" => \A j \in DOMAIN ran[r] : ran[r][j][2]

\* RateLimiter lets at most twice its rate through in any second, however
\* the requests fall around a refill: of more in a row, the last passes more
\* than a second after the first.
TwiceTheRate == \A i \in DOMAIN passed :
  i + 2 * Rate \in DOMAIN passed => passed[i] + Second < passed[i + 2 * Rate]

\* Every asynchronous middleware of a request that was not aborted runs in the
\* end, also with the queue full, unless the program ends; on its context, which
\* may be another request's by then (SeesOwn).
TasksRun == <>[](crashed \/ \A r \in Requests :
  pc[r][1] \in {"async", "done"} /\ aborts[r] = {}
    => DOMAIN Async \subseteq {p[1] : p \in Range(ran[r])})
=============================================================================

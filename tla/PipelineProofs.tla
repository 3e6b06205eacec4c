--------------------------- MODULE PipelineProofs ---------------------------
(***************************************************************************)
(* Proofs about the pipelines of module Middleware, for any requests,      *)
(* workers, capacity of the queue, middlewares, rate and clock: what       *)
(* Execute sends, what it hands to the workers, and what the limiter lets  *)
(* through.                                                                *)
(***************************************************************************)
EXTENDS ContextProofs

\* The provers of a leaf that names none: most leaves are first-order.
USE ZenonT(20), SMTT(30), SMTT(60)

\* A task in the queue: the asynchronous middleware's index, its context and
\* the request it was handed over for.
Tasks == Nat \X Contexts \X Requests

\* A run of one: its index, and whether it saw its own request.
Runnings == Nat \X BOOLEAN

\* The status of the response of a request that was aborted, or was not.
Code(by) == IF by = {} THEN 200 ELSE 429

\* The types of the queue, of what the workers run, and of the records of what
\* was run and sent.
PipelineType ==
  /\ workerCh \in Seq(Tasks) /\ task \in [Workers -> Tasks \union {<<>>}]
  /\ ran \in [Requests -> Seq(Runnings)] /\ sent \in [Requests -> Seq(Responses)]

\* Nothing is sent before the final handler but by a middleware that aborts,
\* and an aborted request is past the last asynchronous middleware.  Past the
\* final handler all but an aborted preflight are answered.
ResponseSound == \A r \in Requests :
  /\ pc[r][1] \in {"new", "sync", "panicked"} => sent[r] = <<>>
  /\ aborts[r] # {} /\ pc[r][1] = "async" => pc[r][2] = Len(Async) + 1
  /\ Len(sent[r]) <= 1
  /\ pc[r][1] \in {"async", "done"} /\ "CORS" \notin aborts[r] => Len(sent[r]) = 1
  /\ \A i \in 1 .. Len(sent[r]) : sent[r][i].code = Code(aborts[r])

\* s: the ticks at which requests passed, n: now, l: lastRefill, k: tokens.  The
\* last Rate - k of them passed since the refill; those before passed by then,
\* and all but Rate of those a second before it.
RateSound(s, n, l, k) ==
  /\ s \in Seq(Nat) /\ n \in Nat /\ l \in 0 .. n /\ k \in 0 .. Rate
  /\ \A i \in 1 .. Len(s) : /\ s[i] <= n
                            /\ i <= Len(s) + k - Rate => s[i] <= l
                            /\ i <= Len(s) + k - 2 * Rate => s[i] + Second < l
                            /\ i + 2 * Rate <= Len(s) => s[i] + Second < s[i + 2 * Rate]

\* The inductive invariant of the pipelines, beside that of the contexts.
PipelineInv ==
  PipelineType /\ ResponseSound /\ AsyncOnce /\ RateSound(passed, now, lastRefill, tokens)
-----------------------------------------------------------------------------
\* Time passes.
LEMMA Ticks ==
  ASSUME NEW s, NEW n, NEW l, NEW k, RateSound(s, n, l, k)
  PROVE  RateSound(s, n + 1, l, k)
<1>1. n + 1 \in Nat /\ l \in 0 .. (n + 1)
  BY SMTT(30), SMTT(60) DEF RateSound
<1>2. \A i \in 1 .. Len(s) : s[i] <= n + 1
  BY SMTT(30), SMTT(60) DEF RateSound
<1> QED
  BY <1>1, <1>2 DEF RateSound

\* The limiter refills when more than a second has passed: all but the last
\* Rate requests passed by the old refill, a second ago.
LEMMA Refills ==
  ASSUME NEW s, NEW n, NEW l, NEW k, RateSound(s, n, l, k), n - l > Second
  PROVE  RateSound(s, n, n, Rate)
<1>0. Rate \in Nat \ {0} /\ Second \in Nat
  BY MiddlewareAssumption
<1>1. s \in Seq(Nat) /\ n \in Nat /\ l \in 0 .. n /\ k \in 0 .. Rate /\ Len(s) \in Nat
  BY SMTT(30), SMTT(60) DEF RateSound
<1>2. ASSUME NEW i \in 1 .. Len(s)
      PROVE  /\ s[i] <= n
             /\ i <= Len(s) + Rate - 2 * Rate => s[i] + Second < n
             /\ i + 2 * Rate <= Len(s) => s[i] + Second < s[i + 2 * Rate]
  <2>1. /\ s[i] \in Nat /\ s[i] <= n
        /\ i <= Len(s) + k - Rate => s[i] <= l
        /\ i + 2 * Rate <= Len(s) => s[i] + Second < s[i + 2 * Rate]
    BY SMTT(30), SMTT(60), <1>1 DEF RateSound
  <2> QED
    BY SMTT(30), SMTT(60), <1>0, <1>1, <2>1
<1> QED
  BY SMTT(30), SMTT(60), <1>0, <1>1, <1>2 DEF RateSound

\* The limiter lets a request through.
LEMMA Passes ==
  ASSUME NEW s, NEW n, NEW l, NEW k, RateSound(s, n, l, k), k > 0
  PROVE  RateSound(Append(s, n), n, l, k - 1)
<1> DEFINE p == Append(s, n)
<1>0. Rate \in Nat \ {0} /\ Second \in Nat
  BY MiddlewareAssumption
<1>1. /\ s \in Seq(Nat) /\ n \in Nat /\ l \in 0 .. n /\ k \in 0 .. Rate /\ Len(s) \in Nat
      /\ k - 1 \in 0 .. Rate
  BY SMTT(30), SMTT(60), <1>0 DEF RateSound
<1>2. /\ p \in Seq(Nat) /\ Len(p) = Len(s) + 1 /\ p[Len(s) + 1] = n
      /\ \A i \in 1 .. Len(s) : p[i] = s[i]
  BY SMTT(30), SMTT(60), <1>1
<1> HIDE DEF p
<1>3. ASSUME NEW i \in 1 .. Len(p)
      PROVE  /\ p[i] <= n
             /\ i <= Len(p) + (k - 1) - Rate => p[i] <= l
             /\ i <= Len(p) + (k - 1) - 2 * Rate => p[i] + Second < l
             /\ i + 2 * Rate <= Len(p) => p[i] + Second < p[i + 2 * Rate]
  <2>1. CASE i = Len(s) + 1
    BY SMTT(30), SMTT(60), <1>0, <1>1, <1>2, <2>1
  <2>2. CASE i \in 1 .. Len(s)
    <3>1. /\ p[i] = s[i] /\ s[i] \in Nat
          /\ Len(p) + (k - 1) - Rate = Len(s) + k - Rate
          /\ Len(p) + (k - 1) - 2 * Rate = Len(s) + k - 2 * Rate
      BY SMTT(30), SMTT(60), <1>0, <1>1, <1>2, <2>2
    <3>2. /\ s[i] <= n
          /\ i <= Len(s) + k - Rate => s[i] <= l
          /\ i <= Len(s) + k - 2 * Rate => s[i] + Second < l
          /\ i + 2 * Rate <= Len(s) => s[i] + Second < s[i + 2 * Rate]
      BY <2>2 DEF RateSound
    <3>3. ASSUME i + 2 * Rate <= Len(p) PROVE p[i] + Second < p[i + 2 * Rate]
      <4>0. i + 2 * Rate = Len(s) + 1 \/ i + 2 * Rate \in 1 .. Len(s)
        <5>1. \A a, b, c \in Nat : a > 0 /\ a + 2 * b <= c + 1
                => a + 2 * b = c + 1 \/ a + 2 * b \in 1 .. c
          BY SMTT(30), SMTT(60)
        <5>2. i \in Nat /\ i > 0 /\ Rate \in Nat
          BY SMTT(30), SMTT(60), <1>0, <1>1, <2>2
        <5> QED
          BY <1>1, <1>2, <3>3, <5>1, <5>2
      <4>1. CASE i + 2 * Rate = Len(s) + 1
        <5>1. i <= Len(s) + k - 2 * Rate
          BY SMTT(30), SMTT(60), <1>0, <1>1, <2>2, <4>1
        <5>2. s[i] + Second < n
          BY SMTT(30), SMTT(60), <1>0, <1>1, <3>1, <3>2, <5>1
        <5> QED
          BY <1>2, <3>1, <4>1, <5>2
      <4>2. CASE i + 2 * Rate \in 1 .. Len(s)
        <5>1. i + 2 * Rate <= Len(s)
          BY SMTT(30), SMTT(60), <1>1, <4>2
        <5> QED
          BY <1>2, <3>1, <3>2, <4>2, <5>1
      <4> QED
        BY <4>0, <4>1, <4>2
    <3> QED
      BY <3>1, <3>2, <3>3
  <2> QED
    BY SMTT(30), SMTT(60), <1>1, <1>2, <2>1, <2>2
<1>4. RateSound(p, n, l, k - 1)
  BY <1>1, <1>2, <1>3 DEF RateSound
<1> QED
  BY <1>4 DEF p

\* What the limiter does under its mutex.
LEMMA LimiterInv ==
  ASSUME RateSound(passed, now, lastRefill, tokens), NEW r \in Requests, RateLimiter(r)
  PROVE  RateSound(passed, now, lastRefill, tokens)'
<1> DEFINE l == IF now - lastRefill > Second THEN now ELSE lastRefill
<1>1. RateSound(passed, now, l, Available)
  <2>1. CASE now - lastRefill > Second
    BY <2>1, Refills DEF Available
  <2>2. CASE ~(now - lastRefill > Second)
    BY <2>2 DEF Available
  <2> QED
    BY <2>1, <2>2
<1>2. lastRefill' = l /\ now' = now
  BY DEF RateLimiter, Proceed
<1>3. \/ Available > 0 /\ tokens' = Available - 1 /\ passed' = Append(passed, now)
      \/ tokens' = Available /\ passed' = passed
  BY SMTT(30), SMTT(60) DEF RateLimiter
<1> HIDE DEF l
<1>4. CASE Available > 0 /\ tokens' = Available - 1 /\ passed' = Append(passed, now)
  <2>1. RateSound(Append(passed, now), now, l, Available - 1)
    BY <1>1, <1>4, Passes
  <2> QED
    BY <1>2, <1>4, <2>1
<1>5. CASE tokens' = Available /\ passed' = passed
  BY <1>1, <1>2, <1>5
<1> QED
  BY <1>3, <1>4, <1>5
-----------------------------------------------------------------------------
\* A step that hands nothing over, runs nothing and leaves what is due.
LEMMA AsyncStays ==
  ASSUME AsyncOnce, UNCHANGED <<workerCh, task, ran>>, crashed => crashed',
         \A r \in Requests, i \in DOMAIN Async : Due(r, i)' <=> Due(r, i)
  PROVE  AsyncOnce'
<1> SUFFICES ASSUME NEW r \in Requests, NEW i \in DOMAIN Async, ~crashed'
             PROVE  IF Due(r, i)'
                      THEN HandedOnce(Ran(ran[r], i), InHand(task, r, i), Queued(workerCh, r, i))'
                      ELSE (Ran(ran[r], i) = {} /\ InHand(task, r, i) = {}
                              /\ Queued(workerCh, r, i) = {})'
  BY DEF AsyncOnce
<1>1. /\ Ran(ran[r], i)' = Ran(ran[r], i) /\ InHand(task, r, i)' = InHand(task, r, i)
      /\ Queued(workerCh, r, i)' = Queued(workerCh, r, i)
  BY DEF Ran, InHand, Queued
<1> QED
  BY <1>1 DEF AsyncOnce, HandedOnce, Lone

\* Taking a context, filling it in and putting it back send nothing, hand nothing
\* over and let nothing through.
LEMMA EdgeInv ==
  ASSUME ContextInv, PipelineInv, NEW r \in Requests, Begin(r) \/ Fill(r) \/ Finish(r)
  PROVE  PipelineInv'
<1>0. /\ pc \in [Requests -> Stages \X Nat] /\ Async \in Seq({"Logger", "Metrics"})
      /\ PipelineType /\ ResponseSound /\ AsyncOnce
      /\ RateSound(passed, now, lastRefill, tokens)
  BY MiddlewareAssumption DEF ContextInv, ContextType, PipelineInv
<1>1. /\ UNCHANGED <<workerCh, task, ran, sent, aborts>>
      /\ UNCHANGED <<tokens, lastRefill, passed, now, crashed>>
  BY DEF Begin, Fill, Finish, limiter, ghosts
<1>2. \/ pc' = pc
      \/ pc[r][1] = "new" /\ pc' = [pc EXCEPT ![r] = <<"sync", 1>>]
      \/ pc[r][1] = "async" /\ pc[r][2] > Len(Async) /\ pc' = [pc EXCEPT ![r] = <<"done", 0>>]
  BY DEF Begin, Fill, Finish, At, Go
<1>3. /\ \A q \in Requests \ {r} : pc'[q] = pc[q]
      /\ \/ pc'[r] = pc[r]
         \/ pc[r][1] = "new" /\ pc'[r][1] = "sync"
         \/ pc[r][1] = "async" /\ pc[r][2] > Len(Async) /\ pc'[r][1] = "done"
  BY SMTT(30), SMTT(60), <1>0, <1>2
<1>4. ResponseSound'
  BY SMTT(30), SMTT(60), <1>0, <1>1, <1>3 DEF ResponseSound
<1>5. AsyncOnce'
  <2>1. ASSUME pc[r][1] = "async", pc[r][2] > Len(Async), NEW i \in DOMAIN Async
        PROVE  i < pc[r][2]
    BY SMTT(30), SMTT(60), <1>0, <2>1
  <2>2. \A q \in Requests, i \in DOMAIN Async : Due(q, i)' <=> Due(q, i)
    BY <1>1, <1>3, <2>1 DEF Due
  <2> QED
    BY <1>0, <1>1, <2>2, AsyncStays
<1>6. PipelineType' /\ RateSound(passed, now, lastRefill, tokens)'
  BY <1>0, <1>1 DEF PipelineType
<1> QED
  BY <1>4, <1>5, <1>6 DEF PipelineInv

\* A middleware aborts and sends at most once, and nothing of the request is
\* due before or after it.
LEMMA CalledInv ==
  ASSUME ContextInv, PipelineInv, NEW r \in Requests,
         Recovery(r) \/ CORS(r) \/ RequestID(r) \/ RateLimiter(r)
  PROVE  PipelineInv'
<1>0. /\ PipelineType /\ ResponseSound /\ AsyncOnce
      /\ RateSound(passed, now, lastRefill, tokens)
  BY DEF PipelineInv
<1>1. PICK c \in FDContexts : Effect(r, c)
  BY MiddlewareEffect
<1>2. /\ pc[r][1] = "sync" /\ UNCHANGED <<workerCh, task, now, ran, crashed>>
      /\ (aborts'[r] # {} <=> c.aborted)
      /\ \A q \in Requests \ {r} : aborts'[q] = aborts[q] /\ pc'[q] = pc[q]
      /\ c.aborted => pc'[r] = <<"async", Len(Async) + 1>>
      /\ ~c.aborted => pc'[r][1] = "sync"
  BY SMTT(30), SMTT(60), <1>1, EffectOn
<1>3. sent[r] = <<>> /\ sent \in [Requests -> Seq(Responses)]
  BY <1>0, <1>2 DEF ResponseSound, PipelineType
<1>4. /\ sent' \in [Requests -> Seq(Responses)] /\ \A q \in Requests \ {r} : sent'[q] = sent[q]
      /\ ~c.aborted => sent'[r] = <<>>
      /\ Len(sent'[r]) <= 1 /\ \A j \in 1 .. Len(sent'[r]) : sent'[r][j].code = 429
      /\ c.aborted /\ "CORS" \notin aborts'[r] => Len(sent'[r]) = 1
  <2>1. CASE UNCHANGED sent /\ (c.aborted => "CORS" \in aborts'[r])
    BY SMTT(30), SMTT(60), <1>3, <2>1
  <2>2. CASE c.aborted /\ \E resp \in Responses : Sends(r, resp) /\ resp.code = 429
    <3>1. PICK resp \in Responses : Sends(r, resp) /\ resp.code = 429
      BY <2>2
    <3>2. Append(sent[r], resp) \in Seq(Responses)
      BY SMTT(30), SMTT(60), <1>3
    <3>3. sent' = [sent EXCEPT ![r] = Append(sent[r], resp)]
      BY <3>1 DEF Sends
    <3>4. /\ sent' \in [Requests -> Seq(Responses)] /\ sent'[r] = Append(sent[r], resp)
          /\ \A q \in Requests \ {r} : sent'[q] = sent[q]
      BY <1>3, <3>2, <3>3
    <3>5. Len(Append(<<>>, resp)) = 1 /\ Append(<<>>, resp)[1] = resp
      BY SMTT(30), SMTT(60)
    <3>6. Len(sent'[r]) = 1 /\ sent'[r][1] = resp
      BY <1>3, <3>4, <3>5
    <3> QED
      BY SMTT(30), SMTT(60), <2>2, <3>1, <3>4, <3>6
  <2>3. Aborted(r, "CORS") => "CORS" \in aborts'[r]
    BY DEF Aborted, ContextInv, ContextType
  <2>4. \/ UNCHANGED sent /\ (c.aborted => "CORS" \in aborts'[r])
        \/ c.aborted /\ \E resp \in Responses : Sends(r, resp) /\ resp.code = 429
    BY <1>1, <2>3 DEF Effect
  <2> QED
    BY <2>1, <2>2, <2>4
<1>5. ResponseSound'
  <2> SUFFICES ASSUME NEW q \in Requests
               PROVE  /\ pc'[q][1] \in {"new", "sync", "panicked"} => sent'[q] = <<>>
                      /\ aborts'[q] # {} /\ pc'[q][1] = "async" => pc'[q][2] = Len(Async) + 1
                      /\ Len(sent'[q]) <= 1
                      /\ pc'[q][1] \in {"async", "done"} /\ "CORS" \notin aborts'[q] => Len(sent'[q]) = 1
                      /\ \A j \in 1 .. Len(sent'[q]) : sent'[q][j].code = Code(aborts'[q])
    BY DEF ResponseSound
  <2>1. CASE q = r
    BY SMTT(30), SMTT(60), <1>2, <1>4, <2>1 DEF Code
  <2>2. CASE q # r
    <3>1. pc'[q] = pc[q] /\ aborts'[q] = aborts[q] /\ sent'[q] = sent[q]
      BY SMTT(30), SMTT(60), <1>2, <1>4, <2>2
    <3> QED
      BY SMTT(30), SMTT(60), <1>0, <3>1 DEF ResponseSound
  <2> QED
    BY <2>1, <2>2
<1>6. AsyncOnce'
  <2>1. \A i \in DOMAIN Async : ~Due(r, i)' /\ ~Due(r, i)
    BY <1>2 DEF Due
  <2>2. \A q \in Requests \ {r}, i \in DOMAIN Async : Due(q, i)' <=> Due(q, i)
    BY <1>2 DEF Due
  <2> QED
    BY <1>0, <1>2, <2>1, <2>2, AsyncStays
<1>7. RateSound(passed, now, lastRefill, tokens)'
  <2>1. CASE RateLimiter(r)
    BY <1>0, <2>1, LimiterInv
  <2>2. CASE Recovery(r) \/ CORS(r) \/ RequestID(r)
    <3>1. UNCHANGED <<tokens, lastRefill, passed>>
      BY <2>2 DEF Recovery, CORS, RequestID, limiter
    <3> QED
      BY <1>0, <1>2, <3>1
  <2> QED
    BY <2>1, <2>2
<1>8. PipelineType'
  BY <1>0, <1>2, <1>4 DEF PipelineType
<1> QED
  BY <1>5, <1>6, <1>7, <1>8 DEF PipelineInv

\* The final handler sends the only response of a request that was not
\* aborted; nothing is due until the first asynchronous middleware is handed
\* over.
LEMMA AnswersInv ==
  ASSUME ContextInv, PipelineInv, NEW r \in Requests, FinalHandler(r) \/ Panics(r)
  PROVE  PipelineInv'
<1>0. /\ pc \in [Requests -> Stages \X Nat] /\ Async \in Seq({"Logger", "Metrics"})
      /\ PipelineType /\ ResponseSound /\ AsyncOnce /\ AbortsLeave
      /\ RateSound(passed, now, lastRefill, tokens)
  BY MiddlewareAssumption DEF ContextInv, ContextType, PipelineInv
<1>1. /\ pc[r][1] = "sync" /\ UNCHANGED <<workerCh, task, ran, aborts>>
      /\ UNCHANGED <<tokens, lastRefill, passed, now>> /\ ~crashed
  BY DEF FinalHandler, Panics, Handling, At, limiter, ghosts
<1>2. aborts[r] = {} /\ sent[r] = <<>> /\ sent \in [Requests -> Seq(Responses)]
  BY <1>0, <1>1 DEF AbortsLeave, ResponseSound, PipelineType
<1>3. /\ sent' \in [Requests -> Seq(Responses)]
      /\ \A q \in Requests \ {r} : pc'[q] = pc[q] /\ sent'[q] = sent[q]
      /\ \/ pc'[r] = <<"async", 1>> /\ Len(sent'[r]) = 1 /\ sent'[r][1].code = 200
         \/ pc'[r] = <<"panicked", 0>> /\ sent'[r] = <<>>
  <2>1. CASE FinalHandler(r)
    <3> DEFINE resp == String(Mine(r), 200, "ok")
    <3>1. /\ sent' = [sent EXCEPT ![r] = Append(sent[r], resp)]
          /\ pc' = [pc EXCEPT ![r] = <<"async", 1>>]
      BY <2>1 DEF FinalHandler, Sends, Go
    <3>2. resp \in Responses /\ resp.code = 200
      BY SMTT(30), SMTT(60) DEF String, Response, Responses
    <3> HIDE DEF resp
    <3>3. /\ Append(sent[r], resp) \in Seq(Responses) /\ Len(Append(<<>>, resp)) = 1
          /\ Append(<<>>, resp)[1] = resp
      BY SMTT(30), SMTT(60), <1>2, <3>2
    <3> QED
      BY SMTT(30), SMTT(60), <1>0, <1>2, <3>1, <3>2, <3>3
  <2>2. CASE Panics(r)
    <3>1. sent' = sent /\ pc' = [pc EXCEPT ![r] = <<"panicked", 0>>]
      BY <2>2 DEF Panics, Go, ghosts
    <3> QED
      BY SMTT(30), SMTT(60), <1>0, <1>2, <3>1
  <2> QED
    BY <2>1, <2>2
<1>4. ResponseSound'
  <2> SUFFICES ASSUME NEW q \in Requests
               PROVE  /\ pc'[q][1] \in {"new", "sync", "panicked"} => sent'[q] = <<>>
                      /\ aborts'[q] # {} /\ pc'[q][1] = "async" => pc'[q][2] = Len(Async) + 1
                      /\ Len(sent'[q]) <= 1
                      /\ pc'[q][1] \in {"async", "done"} /\ "CORS" \notin aborts'[q] => Len(sent'[q]) = 1
                      /\ \A j \in 1 .. Len(sent'[q]) : sent'[q][j].code = Code(aborts'[q])
    BY DEF ResponseSound
  <2>1. CASE q = r
    <3>1. aborts'[q] = {} /\ Code(aborts'[q]) = 200
      BY <1>1, <1>2, <2>1 DEF Code
    <3>2. CASE pc'[r] = <<"async", 1>> /\ Len(sent'[r]) = 1 /\ sent'[r][1].code = 200
      BY SMTT(30), SMTT(60), <2>1, <3>1, <3>2
    <3>3. CASE pc'[r] = <<"panicked", 0>> /\ sent'[r] = <<>>
      BY SMTT(30), SMTT(60), <2>1, <3>1, <3>3
    <3> QED
      BY <1>3, <3>2, <3>3
  <2>2. CASE q # r
    <3>1. pc'[q] = pc[q] /\ aborts'[q] = aborts[q] /\ sent'[q] = sent[q]
      BY <1>1, <1>3, <2>2
    <3> QED
      BY SMTT(30), SMTT(60), <1>0, <3>1 DEF ResponseSound
  <2> QED
    BY <2>1, <2>2
<1>5. AsyncOnce'
  <2>1. \A i \in DOMAIN Async : ~(i < 1)
    BY SMTT(30), SMTT(60), <1>0
  <2>2. \A i \in DOMAIN Async : ~Due(r, i)' /\ ~Due(r, i)
    BY SMTT(30), SMTT(60), <1>1, <1>3, <2>1 DEF Due
  <2>3. \A q \in Requests \ {r}, i \in DOMAIN Async : Due(q, i)' <=> Due(q, i)
    BY <1>1, <1>3 DEF Due
  <2> QED
    BY <1>0, <1>1, <2>2, <2>3, AsyncStays
<1>6. PipelineType' /\ RateSound(passed, now, lastRefill, tokens)'
  BY <1>0, <1>1, <1>3 DEF PipelineType
<1> QED
  BY <1>4, <1>5, <1>6 DEF PipelineInv
-----------------------------------------------------------------------------
\* Where the middleware i of request r is, when it is handed over once if due.
Placed(due, A, B, C) ==
  IF due THEN HandedOnce(A, B, C) ELSE A = {} /\ B = {} /\ C = {}

\* AsyncOnce says of every middleware of every request that it is placed.
LEMMA AsyncPlaced ==
  /\ AsyncOnce <=> \A r \in Requests, i \in DOMAIN Async : ~crashed =>
       Placed(Due(r, i), Ran(ran[r], i), InHand(task, r, i), Queued(workerCh, r, i))
  /\ AsyncOnce' <=> \A r \in Requests, i \in DOMAIN Async : ~crashed' =>
       Placed(Due(r, i)', Ran(ran'[r], i), InHand(task', r, i), Queued(workerCh', r, i))
BY DEF AsyncOnce, Placed, InHand

\* One more element of a sequence of handlers that ran.
LEMMA RanAppend ==
  ASSUME NEW s \in Seq(Runnings), NEW e \in Runnings, NEW i
  PROVE  Ran(Append(s, e), i) = IF e[1] = i THEN Ran(s, i) \union {Len(s) + 1} ELSE Ran(s, i)
<1>1. /\ Append(s, e)[Len(s) + 1] = e /\ \A j \in DOMAIN s : Append(s, e)[j] = s[j]
      /\ DOMAIN Append(s, e) = DOMAIN s \union {Len(s) + 1} /\ Len(s) + 1 \notin DOMAIN s
  BY SMTT(30), SMTT(60)
<1> QED
  BY SMTT(30), SMTT(60), <1>1 DEF Ran

\* Task t is the middleware i of request r.
IsFor(t, r, i) == t[1] = i /\ t[3] = r

\* One more task in the queue.
LEMMA QueuedAppend ==
  ASSUME NEW q \in Seq(Tasks), NEW t \in Tasks, NEW r, NEW i
  PROVE  /\ IsFor(t, r, i) => Queued(Append(q, t), r, i) = Queued(q, r, i) \union {Len(q) + 1}
         /\ ~IsFor(t, r, i) => Queued(Append(q, t), r, i) = Queued(q, r, i)
<1>1. /\ Append(q, t)[Len(q) + 1] = t /\ \A j \in DOMAIN q : Append(q, t)[j] = q[j]
      /\ DOMAIN Append(q, t) = DOMAIN q \union {Len(q) + 1} /\ Len(q) + 1 \notin DOMAIN q
  BY SMTT(30), SMTT(60)
<1> QED
  BY SMTT(30), SMTT(60), <1>1 DEF Queued, IsFor

\* Execute hands a middleware over, to the queue or inline: from then on it is
\* due, and nothing of it was anywhere before.
LEMMA SubmitInv ==
  ASSUME ContextInv, PipelineInv, NEW r \in Requests, Submit(r)
  PROVE  PipelineInv'
<1>0. /\ ContextType /\ HeldSound /\ Async \in Seq({"Logger", "Metrics"})
      /\ NoCtx \notin Contexts /\ PipelineType /\ ResponseSound /\ AsyncOnce
      /\ RateSound(passed, now, lastRefill, tokens)
  BY MiddlewareAssumption DEF ContextInv, PipelineInv
<1>1. /\ ~crashed /\ pc[r][1] = "async" /\ pc[r][2] <= Len(Async)
      /\ pc' = [pc EXCEPT ![r] = <<"async", pc[r][2] + 1>>]
      /\ UNCHANGED <<task, tokens, lastRefill, passed, now, aborts, sent, crashed>>
  BY DEF Submit, Go, At, limiter
<1> DEFINE n == pc[r][2]
           t == <<n, held[r], r>>
           e == <<n, ctx[held[r]].request = r>>
<1>2. /\ n \in Nat /\ Len(Async) \in Nat /\ DOMAIN Async = 1 .. Len(Async)
      /\ e \in Runnings /\ e[1] = n /\ t \in Tasks /\ t[1] = n /\ t[3] = r
  <2>1. held[r] \in Contexts
    BY <1>0, <1>1 DEF ContextType, HeldSound
  <2> QED
    <3>1. /\ n \in Nat /\ Len(Async) \in Nat /\ DOMAIN Async = 1 .. Len(Async)
          /\ t \in Tasks /\ t[1] = n /\ t[3] = r
      BY SMTT(30), SMTT(60), <1>0, <2>1 DEF ContextType, Tasks
    <3>2. e \in Runnings /\ e[1] = n
      BY <3>1 DEF Runnings
    <3> QED
      BY <3>1, <3>2
<1>3. pc'[r] = <<"async", n + 1>> /\ \A q \in Requests \ {r} : pc'[q] = pc[q]
  BY <1>0, <1>1 DEF ContextType
<1>4. \/ workerCh' = Append(workerCh, t) /\ ran' = ran
      \/ ran' = [ran EXCEPT ![r] = Append(ran[r], e)] /\ workerCh' = workerCh
  BY DEF Submit, Runs
<1>5. aborts[r] = {}
  BY SMTT(30), SMTT(60), <1>0, <1>1, <1>2 DEF ResponseSound
<1>6. ResponseSound'
  BY SMTT(30), SMTT(60), <1>0, <1>1, <1>3, <1>5 DEF ResponseSound
<1>7. workerCh \in Seq(Tasks) /\ ran \in [Requests -> Seq(Runnings)]
  BY <1>0 DEF PipelineType
<1>8. /\ \A j \in DOMAIN Async : Due(r, j)' <=> (Due(r, j) \/ j = n)
      /\ ~Due(r, n)
      /\ \A q \in Requests \ {r}, j \in DOMAIN Async : Due(q, j)' <=> Due(q, j)
  <2>1. \A j \in DOMAIN Async : (j < n + 1) <=> (j < n \/ j = n)
    BY SMTT(30), SMTT(60), <1>2
  <2> QED
    BY SMTT(30), SMTT(60), <1>1, <1>2, <1>3, <1>5, <2>1 DEF Due
<1> HIDE DEF n, t, e
<1>9. PipelineType'
  <2>1. Append(workerCh, t) \in Seq(Tasks) /\ Append(ran[r], e) \in Seq(Runnings)
    BY SMTT(30), SMTT(60), <1>2, <1>7
  <2>2. workerCh' \in Seq(Tasks) /\ ran' \in [Requests -> Seq(Runnings)]
    BY <1>4, <1>7, <2>1
  <2> QED
    BY <1>0, <1>1, <2>2 DEF PipelineType
<1>10. AsyncOnce'
  <2> SUFFICES ASSUME NEW q \in Requests, NEW j \in DOMAIN Async
               PROVE  Placed(Due(q, j)', Ran(ran'[q], j), InHand(task', q, j),
                             Queued(workerCh', q, j))
    BY AsyncPlaced
  <2>1. Placed(Due(q, j), Ran(ran[q], j), InHand(task, q, j), Queued(workerCh, q, j))
    BY <1>0, <1>1, AsyncPlaced
  <2>2. InHand(task', q, j) = InHand(task, q, j)
    BY <1>1
  <2>3. CASE q = r /\ j = n
    <3>1. Due(q, j)' /\ ~Due(q, j)
      BY <1>8, <2>3
    <3>2. Ran(ran[q], j) = {} /\ InHand(task, q, j) = {} /\ Queued(workerCh, q, j) = {}
      BY <2>1, <3>1 DEF Placed
    <3>3. CASE workerCh' = Append(workerCh, t) /\ ran' = ran
      <4>1. Queued(Append(workerCh, t), q, j) = Queued(workerCh, q, j) \union {Len(workerCh) + 1}
        <5>1. IsFor(t, q, j)
          BY <1>2, <2>3 DEF IsFor
        <5>2. workerCh \in Seq(Tasks) /\ t \in Tasks
          BY <1>2, <1>7
        <5> QED
          BY SMTT(30), SMTT(60), <5>1, <5>2, QueuedAppend
      <4>2. Queued(workerCh', q, j) = {Len(workerCh) + 1}
        BY <3>2, <3>3, <4>1
      <4> QED
        BY <2>2, <3>1, <3>2, <3>3, <4>2 DEF Placed, HandedOnce, Lone
    <3>4. CASE ran' = [ran EXCEPT ![r] = Append(ran[r], e)] /\ workerCh' = workerCh
      <4>1. ran'[q] = Append(ran[q], e) /\ ran[q] \in Seq(Runnings)
        BY <1>7, <2>3, <3>4
      <4>2. Ran(ran'[q], j) = {Len(ran[q]) + 1}
        <5>1. Ran(Append(ran[q], e), n) = Ran(ran[q], n) \union {Len(ran[q]) + 1}
          BY <1>2, <4>1, RanAppend
        <5> QED
          BY <2>3, <3>2, <4>1, <5>1
      <4> QED
        BY <2>2, <3>1, <3>2, <3>4, <4>2 DEF Placed, HandedOnce, Lone
    <3> QED
      BY <1>4, <3>3, <3>4
  <2>4. CASE ~(q = r /\ j = n)
    <3>1. Due(q, j)' <=> Due(q, j)
      BY <1>8, <2>4
    <3>2. Queued(workerCh', q, j) = Queued(workerCh, q, j)
      <4>1. Queued(Append(workerCh, t), q, j) = Queued(workerCh, q, j)
        <5>1. ~IsFor(t, q, j)
          BY <1>2, <2>4 DEF IsFor
        <5>2. workerCh \in Seq(Tasks) /\ t \in Tasks
          BY <1>2, <1>7
        <5> QED
          BY SMTT(30), SMTT(60), <5>1, <5>2, QueuedAppend
      <4>2. workerCh' = Append(workerCh, t) \/ workerCh' = workerCh
        BY <1>4
      <4> QED
        BY <4>1, <4>2
    <3>3. Ran(ran'[q], j) = Ran(ran[q], j)
      <4>1. CASE q = r
        <5>1. ran[r] \in Seq(Runnings) /\ n # j
          BY <1>7, <2>4, <4>1
        <5>2. Ran(Append(ran[r], e), j) = Ran(ran[r], j)
          BY SMTT(30), SMTT(60), <1>2, <5>1, RanAppend
        <5>3. ran'[r] = Append(ran[r], e) \/ ran'[r] = ran[r]
          BY <1>4, <1>7
        <5> QED
          BY <4>1, <5>2, <5>3
      <4>2. CASE q # r
        BY <1>4, <1>7, <4>2
      <4> QED
        BY <4>1, <4>2
    <3> QED
      BY <2>1, <2>2, <3>1, <3>2, <3>3 DEF Placed
  <2> QED
    BY <2>3, <2>4
<1>11. RateSound(passed, now, lastRefill, tokens)'
  BY <1>0, <1>1
<1> QED
  BY <1>6, <1>9, <1>10, <1>11 DEF PipelineInv

\* A worker that has a task is told from one that has none.
LEMMA TaskIsSome ==
  ASSUME NEW t \in Tasks
  PROVE  t # <<>>
BY SMTT(30), SMTT(60) DEF Tasks

\* A worker takes the first task of the queue: the one place of a task that
\* waited there is the worker's hand, and the others move up.
LEMMA ReceiveInv ==
  ASSUME ContextInv, PipelineInv, NEW w \in Workers, Receive(w)
  PROVE  PipelineInv'
<1>0. /\ PipelineType /\ ResponseSound /\ AsyncOnce
      /\ RateSound(passed, now, lastRefill, tokens)
  BY DEF PipelineInv
<1> DEFINE t == Head(workerCh)
<1>1. /\ ~crashed /\ task[w] = <<>> /\ workerCh # <<>> /\ task' = [task EXCEPT ![w] = t]
      /\ workerCh' = Tail(workerCh)
      /\ UNCHANGED <<pc, tokens, lastRefill, passed, now, aborts, sent, ran, crashed>>
  BY DEF Receive, limiter, ghosts
<1>2. /\ workerCh \in Seq(Tasks) /\ workerCh' \in Seq(Tasks) /\ t \in Tasks
      /\ task \in [Workers -> Tasks \union {<<>>}]
      /\ DOMAIN workerCh = 1 .. Len(workerCh) /\ Len(workerCh) \in Nat \ {0} /\ t = workerCh[1]
      /\ DOMAIN workerCh' = 1 .. (Len(workerCh) - 1)
      /\ \A j \in 1 .. (Len(workerCh) - 1) : workerCh'[j] = workerCh[j + 1]
  BY SMTT(30), SMTT(60), <1>0, <1>1 DEF PipelineType
<1> HIDE DEF t
<1>3. t # <<>>
  BY <1>2, TaskIsSome
<1>4. task'[w] = t /\ \A v \in Workers \ {w} : task'[v] = task[v]
  BY <1>1, <1>2
<1>5. PipelineType'
  <2>1. task' \in [Workers -> Tasks \union {<<>>}]
    BY <1>1, <1>2
  <2> QED
    BY <1>0, <1>1, <1>2, <2>1 DEF PipelineType
<1>6. ResponseSound' /\ RateSound(passed, now, lastRefill, tokens)'
  BY SMTT(30), SMTT(60), <1>0, <1>1 DEF ResponseSound
<1>7. AsyncOnce'
  <2> SUFFICES ASSUME NEW q \in Requests, NEW i \in DOMAIN Async
               PROVE  Placed(Due(q, i)', Ran(ran'[q], i), InHand(task', q, i),
                             Queued(workerCh', q, i))
    BY AsyncPlaced
  <2> DEFINE A == Ran(ran[q], i)
             B == InHand(task, q, i)
             C == Queued(workerCh, q, i)
             D == Queued(workerCh', q, i)
  <2>1. Placed(Due(q, i), A, B, C)
    BY <1>0, <1>1, AsyncPlaced
  <2>2. (Due(q, i)' <=> Due(q, i)) /\ Ran(ran'[q], i) = A
    BY <1>1 DEF Due
  <2>3. /\ 1 \in C => InHand(task', q, i) = B \union {w}
        /\ 1 \notin C => InHand(task', q, i) = B
    <3>1. 1 \in C <=> (t[1] = i /\ t[3] = q)
      BY SMTT(30), SMTT(60), <1>2 DEF Queued
    <3> QED
      BY SMTT(30), SMTT(60), <1>1, <1>3, <1>4, <3>1 DEF InHand
  <2>4. \A j \in 1 .. (Len(workerCh) - 1) : j \in D <=> j + 1 \in C
    BY SMTT(30), SMTT(60), <1>2 DEF Queued
  <2>5. D \subseteq 1 .. (Len(workerCh) - 1) /\ C \subseteq 1 .. Len(workerCh)
    BY <1>2 DEF Queued
  <2> HIDE DEF A, B, C, D
  <2>6. CASE C = {}
    <3>1. D = {}
      BY <2>4, <2>5, <2>6
    <3> QED
      BY <2>1, <2>2, <2>3, <2>6, <3>1 DEF Placed, HandedOnce, Lone, D
  <2>7. CASE C # {}
    <3>1. Due(q, i) /\ A = {} /\ B = {} /\ Lone(C)
      BY <2>1, <2>7 DEF Placed, HandedOnce
    <3>2. PICK x \in C : C = {x}
      BY <3>1 DEF Lone
    <3>3. CASE x = 1
      <4>1. D = {}
        BY SMTT(30), SMTT(60), <1>2, <2>4, <2>5, <3>2, <3>3
      <4>2. InHand(task', q, i) = {w}
        BY <2>3, <3>1, <3>2, <3>3
      <4> QED
        BY <2>2, <3>1, <4>1, <4>2 DEF Placed, HandedOnce, Lone, D
    <3>4. CASE x # 1
      <4>1. x \in 2 .. Len(workerCh) /\ x - 1 \in 1 .. (Len(workerCh) - 1)
        BY SMTT(30), SMTT(60), <1>2, <2>5, <3>4
      <4>2. \A j \in 1 .. (Len(workerCh) - 1) : j \in D <=> j = x - 1
        BY SMTT(30), SMTT(60), <1>2, <2>4, <3>2, <4>1
      <4>3. D = {x - 1}
        BY <2>5, <4>1, <4>2
      <4>4. InHand(task', q, i) = {}
        BY <2>3, <3>1, <3>2, <3>4
      <4> QED
        BY <2>2, <3>1, <4>3, <4>4 DEF Placed, HandedOnce, Lone, D
    <3> QED
      BY <3>3, <3>4
  <2> QED
    BY <2>6, <2>7
<1> QED
  BY <1>5, <1>6, <1>7 DEF PipelineInv

\* A worker runs what it has: the one place of the task is the record of what
\* ran, unless the program ends.
LEMMA RunTaskInv ==
  ASSUME ContextInv, PipelineInv, NEW w \in Workers, RunTask(w)
  PROVE  PipelineInv'
<1>0. /\ PipelineType /\ ResponseSound /\ AsyncOnce
      /\ RateSound(passed, now, lastRefill, tokens)
  BY DEF PipelineInv
<1> DEFINE t == task[w]
           p == t[3]
           n == t[1]
           e == <<n, ctx[t[2]].request = p>>
<1>1. /\ ~crashed /\ t # <<>> /\ task' = [task EXCEPT ![w] = <<>>]
      /\ \/ crashed' = TRUE /\ ran' = ran
         \/ ran' = [ran EXCEPT ![p] = Append(ran[p], e)] /\ crashed' = crashed
      /\ UNCHANGED <<workerCh, pc, tokens, lastRefill, passed, now, aborts, sent>>
  BY DEF RunTask, Runs, limiter
<1>2. /\ task \in [Workers -> Tasks \union {<<>>}] /\ ran \in [Requests -> Seq(Runnings)]
      /\ t \in Tasks /\ p \in Requests /\ n \in Nat /\ e \in Runnings /\ e[1] = n
  BY <1>0, <1>1 DEF PipelineType, Tasks, Runnings
<1>3. task'[w] = <<>> /\ \A v \in Workers \ {w} : task'[v] = task[v]
  BY <1>1, <1>2
<1>4. ASSUME NEW q, NEW i
      PROVE  /\ IsFor(t, q, i) => w \in InHand(task, q, i)
             /\ InHand(task', q, i) = InHand(task, q, i) \ {w}
             /\ ~IsFor(t, q, i) => InHand(task', q, i) = InHand(task, q, i)
  BY SMTT(30), SMTT(60), <1>1, <1>3 DEF InHand, IsFor
<1>5. \A q, i : IsFor(t, q, i) <=> (q = p /\ i = n)
  BY DEF IsFor
<1> HIDE DEF t, p, n, e
<1>6. PipelineType'
  <2>1. task' \in [Workers -> Tasks \union {<<>>}]
    BY <1>1, <1>2
  <2>2. Append(ran[p], e) \in Seq(Runnings)
    BY SMTT(30), SMTT(60), <1>2
  <2>3. ran' \in [Requests -> Seq(Runnings)]
    BY <1>1, <1>2, <2>2
  <2> QED
    BY <1>0, <1>1, <2>1, <2>3 DEF PipelineType
<1>7. ResponseSound' /\ RateSound(passed, now, lastRefill, tokens)'
  BY SMTT(30), SMTT(60), <1>0, <1>1 DEF ResponseSound
<1>8. AsyncOnce'
  <2> SUFFICES ASSUME NEW q \in Requests, NEW i \in DOMAIN Async, ~crashed'
               PROVE  Placed(Due(q, i)', Ran(ran'[q], i), InHand(task', q, i),
                             Queued(workerCh', q, i))
    BY AsyncPlaced
  <2>1. Placed(Due(q, i), Ran(ran[q], i), InHand(task, q, i), Queued(workerCh, q, i))
    BY <1>0, <1>1, AsyncPlaced
  <2>2. (Due(q, i)' <=> Due(q, i)) /\ Queued(workerCh', q, i) = Queued(workerCh, q, i)
    BY <1>1 DEF Due
  <2>3. ran' = [ran EXCEPT ![p] = Append(ran[p], e)]
    BY <1>1
  <2>4. CASE q = p /\ i = n
    <3>1. w \in InHand(task, q, i) /\ InHand(task', q, i) = InHand(task, q, i) \ {w}
      BY <1>4, <1>5, <2>4
    <3>2. /\ Due(q, i) /\ Lone(InHand(task, q, i))
          /\ Ran(ran[q], i) = {} /\ Queued(workerCh, q, i) = {}
      BY <2>1, <3>1 DEF Placed, HandedOnce
    <3>3. InHand(task', q, i) = {}
      BY <3>1, <3>2 DEF Lone
    <3>4. ran'[q] = Append(ran[q], e) /\ ran[q] \in Seq(Runnings)
      BY <1>2, <2>3, <2>4
    <3>5. Ran(Append(ran[q], e), i) = Ran(ran[q], i) \union {Len(ran[q]) + 1}
      BY <1>2, <2>4, <3>4, RanAppend
    <3>6. Lone(Ran(ran'[q], i))
      BY <3>2, <3>4, <3>5 DEF Lone
    <3> QED
      BY <2>2, <3>2, <3>3, <3>6 DEF Placed, HandedOnce
  <2>5. CASE ~(q = p /\ i = n)
    <3>1. InHand(task', q, i) = InHand(task, q, i)
      BY SMTT(30), SMTT(60), <1>4, <1>5, <2>5
    <3>2. Ran(ran'[q], i) = Ran(ran[q], i)
      <4>1. CASE q = p
        <5>1. n # i /\ ran[q] \in Seq(Runnings) /\ ran'[q] = Append(ran[q], e)
          BY <1>2, <2>3, <2>5, <4>1
        <5>2. Ran(Append(ran[q], e), i) = Ran(ran[q], i)
          BY SMTT(30), SMTT(60), <1>2, <5>1, RanAppend
        <5> QED
          BY <5>1, <5>2
      <4>2. CASE q # p
        BY <1>2, <2>3, <4>2
      <4> QED
        BY <4>1, <4>2
    <3> QED
      BY <2>1, <2>2, <3>1, <3>2 DEF Placed
  <2> QED
    BY <2>4, <2>5
<1> QED
  BY <1>6, <1>7, <1>8 DEF PipelineInv
-----------------------------------------------------------------------------
\* Nothing has been sent, handed over or let through at first.
LEMMA PipelineInit == Init => PipelineInv
<1> SUFFICES ASSUME Init PROVE PipelineInv
  OBVIOUS
<1>0. Rate \in Nat \ {0}
  BY MiddlewareAssumption
<1>1. <<>> \in Seq(Tasks) /\ <<>> \in Seq(Runnings) /\ <<>> \in Seq(Responses) /\ Len(<<>>) = 0
  BY SMTT(30), SMTT(60)
<1>2. PipelineType
  BY <1>1 DEF Init, PipelineType
<1>3. ResponseSound
  BY SMTT(30), SMTT(60), <1>1 DEF Init, ResponseSound
<1>4. AsyncOnce
  <2>1. ASSUME NEW r \in Requests, NEW i \in DOMAIN Async
        PROVE  /\ ~Due(r, i) /\ Ran(ran[r], i) = {} /\ InHand(task, r, i) = {}
               /\ Queued(workerCh, r, i) = {}
    BY SMTT(30), SMTT(60) DEF Init, Due, Ran, InHand, Queued
  <2> QED
    BY <2>1 DEF AsyncOnce
<1>5. RateSound(passed, now, lastRefill, tokens)
  BY SMTT(30), SMTT(60), <1>0, <1>1 DEF Init, RateSound
<1> QED
  BY <1>2, <1>3, <1>4, <1>5 DEF PipelineInv

\* Every step keeps the invariant.
LEMMA PipelineNext == ContextInv /\ PipelineInv /\ [Next]_vars => PipelineInv'
<1> SUFFICES ASSUME ContextInv, PipelineInv, [Next]_vars PROVE PipelineInv'
  OBVIOUS
<1>0. /\ PipelineType /\ ResponseSound /\ AsyncOnce
      /\ RateSound(passed, now, lastRefill, tokens)
  BY DEF PipelineInv
<1>1. ASSUME NEW r \in Requests, Handle(r) PROVE PipelineInv'
  BY <1>1, EdgeInv, CalledInv, AnswersInv, SubmitInv DEF Handle
<1>2. ASSUME NEW w \in Workers, Worker(w) PROVE PipelineInv'
  BY <1>2, ReceiveInv, RunTaskInv DEF Worker
<1>3. CASE Tick \/ UNCHANGED vars
  <2>1. UNCHANGED <<pc, workerCh, task, tokens, lastRefill, passed, aborts, sent, ran, crashed>>
    BY <1>3 DEF Tick, vars, limiter, ghosts
  <2>2. now' = now + 1 \/ now' = now
    BY <1>3 DEF Tick, vars
  <2>3. PipelineType' /\ ResponseSound'
    <3>1. PipelineType'
      BY <1>0, <2>1 DEF PipelineType
    <3>2. ResponseSound'
      <4>1. ResponseSound /\ pc' = pc /\ aborts' = aborts /\ sent' = sent
        BY <1>0, <2>1
      <4> QED
        BY SMTT(30), SMTT(60), <4>1 DEF ResponseSound
    <3> QED
      BY <3>1, <3>2
  <2>4. AsyncOnce'
    <3>1. \A r \in Requests, i \in DOMAIN Async : Due(r, i)' <=> Due(r, i)
      BY <2>1 DEF Due
    <3> QED
      BY <1>0, <2>1, <3>1, AsyncStays
  <2>5. RateSound(passed, now, lastRefill, tokens)'
    <3>1. RateSound(passed, now + 1, lastRefill, tokens)
      BY <1>0, Ticks
    <3> QED
      BY <1>0, <2>1, <2>2, <3>1
  <2> QED
    BY <2>3, <2>4, <2>5 DEF PipelineInv
<1> QED
  BY <1>1, <1>2, <1>3 DEF Next

\* PipelineInv is an invariant of the pipeline.
LEMMA PipelineInvariance == Spec => []PipelineInv
BY PipelineInit, PipelineNext, ContextInvariance, PTL DEF Spec
-----------------------------------------------------------------------------
\* A task of a request that Execute has not returned from is for the context
\* that the request holds, and before the final handler there is none.  p: where
\* the requests are, h: what they hold.
OwnTask(p, h, t) == /\ p[t[3]][1] \in {"async", "done"}
                    /\ p[t[3]][1] = "async" => t[2] = h[t[3]]

\* What waits, what is being run and what ran for a request.
TasksOwn ==
  /\ \A j \in DOMAIN workerCh : OwnTask(pc, held, workerCh[j])
  /\ \A w \in Workers : task[w] # <<>> => OwnTask(pc, held, task[w])
  /\ \A r \in Requests : /\ pc[r][1] \notin {"async", "done"} => DOMAIN ran[r] = {}
                         /\ pc[r][1] = "async" => \A j \in DOMAIN ran[r] : ran[r][j][2]

\* A request is on its way as it was before, or past its tasks.
Onward(q) == pc[q][1] \in {"async", "done"} =>
  /\ pc'[q][1] \in {"async", "done"}
  /\ pc'[q][1] = "async" => pc[q][1] = "async" /\ held'[q] = held[q]

\* An own task stays one.
LEMMA OnwardTasks ==
  ASSUME PipelineType, TasksOwn, \A q \in Requests : Onward(q)
  PROVE  /\ \A j \in DOMAIN workerCh : OwnTask(pc', held', workerCh[j])
         /\ \A w \in Workers : task[w] # <<>> => OwnTask(pc', held', task[w])
<1>1. ASSUME NEW t \in Tasks, OwnTask(pc, held, t) PROVE OwnTask(pc', held', t)
  <2>1. t[3] \in Requests
    BY DEF Tasks
  <2> QED
    BY <1>1, <2>1 DEF OwnTask, Onward
<1>2. \A j \in DOMAIN workerCh : workerCh[j] \in Tasks
  BY SMTT(30), SMTT(60) DEF PipelineType
<1>3. \A w \in Workers : task[w] # <<>> => task[w] \in Tasks
  BY DEF PipelineType
<1> QED
  BY <1>1, <1>2, <1>3 DEF TasksOwn

\* The steps that hand nothing over and run nothing.
LEMMA OwnStays ==
  ASSUME PipelineType, TasksOwn, UNCHANGED <<workerCh, task, ran>>,
         \A q \in Requests : Onward(q)
  PROVE  TasksOwn'
<1>1. ASSUME NEW r \in Requests
      PROVE  /\ pc'[r][1] \notin {"async", "done"} => DOMAIN ran[r] = {}
             /\ pc'[r][1] = "async" => \A j \in DOMAIN ran[r] : ran[r][j][2]
  BY DEF TasksOwn, Onward
<1> QED
  BY <1>1, OnwardTasks DEF TasksOwn

\* Execute hands over a task for the context it was given, or runs the middleware
\* on it.
LEMMA OwnSubmit ==
  ASSUME ContextInv, PipelineInv, TasksOwn, NEW r \in Requests, Submit(r)
  PROVE  TasksOwn'
<1>0. PipelineType /\ ContextType /\ HeldSound /\ ContextSound
  BY DEF ContextInv, PipelineInv
<1> DEFINE t == <<pc[r][2], held[r], r>>
           e == <<pc[r][2], ctx[held[r]].request = r>>
<1>1. /\ pc[r][1] = "async" /\ pc' = [pc EXCEPT ![r] = <<"async", pc[r][2] + 1>>]
      /\ UNCHANGED <<task, held>>
      /\ \/ workerCh' = Append(workerCh, t) /\ ran' = ran
         \/ ran' = [ran EXCEPT ![r] = Append(ran[r], e)] /\ workerCh' = workerCh
  BY DEF Submit, Runs, Go, At
<1>2. \A q \in Requests : pc'[q][1] = pc[q][1]
  BY <1>0, <1>1 DEF ContextType
<1>3. \A q \in Requests : Onward(q)
  BY <1>1, <1>2 DEF Onward
<1>4. ctx[held[r]].request = r
  BY <1>0, <1>1 DEF HeldSound, ContextSound, Mine
<1>5. OwnTask(pc', held', t)
  BY <1>1, <1>2 DEF OwnTask
<1>6. t \in Tasks /\ e \in Runnings /\ e[2]
  <2>1. held[r] \in Contexts /\ pc[r][2] \in Nat
    BY <1>0, <1>1 DEF ContextType, HeldSound
  <2> QED
    BY <1>4, <2>1 DEF Tasks, Runnings
<1>7. workerCh \in Seq(Tasks) /\ ran \in [Requests -> Seq(Runnings)]
  BY <1>0 DEF PipelineType
<1> HIDE DEF t, e
<1>8. \A j \in DOMAIN workerCh' : OwnTask(pc', held', workerCh'[j])
  <2>1. \A j \in DOMAIN Append(workerCh, t) :
          \/ j \in DOMAIN workerCh /\ Append(workerCh, t)[j] = workerCh[j]
          \/ Append(workerCh, t)[j] = t
    BY SMTT(30), SMTT(60), <1>6, <1>7
  <2> QED
    BY <1>0, <1>1, <1>3, <1>5, <2>1, OnwardTasks
<1>9. ASSUME NEW q \in Requests
      PROVE  /\ pc'[q][1] \notin {"async", "done"} => DOMAIN ran'[q] = {}
             /\ pc'[q][1] = "async" => \A j \in DOMAIN ran'[q] : ran'[q][j][2]
  <2>1. CASE ran'[q] = ran[q]
    BY <1>2, <2>1 DEF TasksOwn
  <2>2. CASE q = r /\ ran'[q] = Append(ran[q], e)
    <3>1. \A j \in DOMAIN Append(ran[q], e) :
            \/ j \in DOMAIN ran[q] /\ Append(ran[q], e)[j] = ran[q][j]
            \/ Append(ran[q], e)[j] = e
      BY SMTT(30), SMTT(60), <1>6, <1>7
    <3> QED
      BY <1>1, <1>2, <1>6, <2>2, <3>1 DEF TasksOwn
  <2> QED
    BY <1>1, <1>7, <2>1, <2>2
<1>10. \A w \in Workers : task'[w] # <<>> => OwnTask(pc', held', task'[w])
  BY <1>0, <1>1, <1>3, OnwardTasks
<1> QED
  BY <1>8, <1>9, <1>10 DEF TasksOwn

\* A worker takes a task or runs it: while its request is in Execute the context
\* is still that request's.
LEMMA OwnWorker ==
  ASSUME ContextInv, PipelineInv, TasksOwn, NEW w \in Workers, Worker(w)
  PROVE  TasksOwn'
<1>0. PipelineType /\ ContextType /\ HeldSound /\ ContextSound
  BY DEF ContextInv, PipelineInv
<1>1. /\ workerCh \in Seq(Tasks) /\ ran \in [Requests -> Seq(Runnings)]
      /\ task \in [Workers -> Tasks \union {<<>>}]
  BY <1>0 DEF PipelineType
<1>2. CASE Receive(w)
  <2>1. /\ workerCh # <<>> /\ task' = [task EXCEPT ![w] = Head(workerCh)]
        /\ workerCh' = Tail(workerCh) /\ UNCHANGED <<pc, held, ran>>
    BY <1>2 DEF Receive, ghosts
  <2>2. /\ 1 \in DOMAIN workerCh /\ Head(workerCh) = workerCh[1]
        /\ \A j \in DOMAIN Tail(workerCh) :
             j + 1 \in DOMAIN workerCh /\ Tail(workerCh)[j] = workerCh[j + 1]
    BY SMTT(30), SMTT(60), <1>1, <2>1
  <2>3. \A v \in Workers : task'[v] = IF v = w THEN workerCh[1] ELSE task[v]
    BY <1>1, <2>1, <2>2
  <2>4. \A v \in Workers : task'[v] # <<>> => OwnTask(pc, held, task'[v])
    BY <2>2, <2>3 DEF TasksOwn
  <2>5. \A j \in DOMAIN workerCh' : OwnTask(pc, held, workerCh'[j])
    BY <2>1, <2>2 DEF TasksOwn
  <2> QED
    BY <2>1, <2>4, <2>5 DEF TasksOwn
<1>3. CASE RunTask(w)
  <2> DEFINE t == task[w]
             p == t[3]
             e == <<t[1], ctx[t[2]].request = p>>
  <2>1. /\ t # <<>> /\ task' = [task EXCEPT ![w] = <<>>]
        /\ ran' = ran \/ ran' = [ran EXCEPT ![p] = Append(ran[p], e)]
        /\ UNCHANGED <<workerCh, pc, held>>
    BY <1>3 DEF RunTask, Runs
  <2>2. t \in Tasks /\ p \in Requests /\ OwnTask(pc, held, t)
    BY <1>1, <2>1 DEF TasksOwn, Tasks
  <2>3. e \in Runnings
    BY <2>2 DEF Tasks, Runnings
  <2>4. pc[p][1] \in {"async", "done"} /\ (pc[p][1] = "async" => t[2] = held[p])
    BY <2>2 DEF OwnTask
  <2>5. pc[p][1] = "async" => ctx[held[p]].request = p
    BY <1>0, <2>2 DEF HeldSound, ContextSound, Mine
  <2>6. pc[p][1] = "async" => e[2]
    BY <2>4, <2>5
  <2> HIDE DEF t, p, e
  <2>7. ASSUME NEW q \in Requests
        PROVE  /\ pc[q][1] \notin {"async", "done"} => DOMAIN ran'[q] = {}
               /\ pc[q][1] = "async" => \A j \in DOMAIN ran'[q] : ran'[q][j][2]
    <3>1. CASE ran'[q] = ran[q]
      BY <3>1 DEF TasksOwn
    <3>2. CASE q = p /\ ran'[q] = Append(ran[q], e)
      <4>1. \A j \in DOMAIN Append(ran[q], e) :
              \/ j \in DOMAIN ran[q] /\ Append(ran[q], e)[j] = ran[q][j]
              \/ Append(ran[q], e)[j] = e
        BY SMTT(30), SMTT(60), <1>1, <2>3
      <4> QED
        BY <2>4, <2>6, <3>2, <4>1 DEF TasksOwn
    <3> QED
      BY <1>1, <2>1, <2>2, <3>1, <3>2
  <2>8. \A v \in Workers : task'[v] # <<>> => OwnTask(pc, held, task'[v])
    BY <1>1, <2>1 DEF TasksOwn
  <2> QED
    BY <2>1, <2>7, <2>8 DEF TasksOwn
<1> QED
  BY <1>2, <1>3 DEF Worker

\* Every step keeps it.
LEMMA OwnNext == ContextInv /\ PipelineInv /\ TasksOwn /\ [Next]_vars => TasksOwn'
<1> SUFFICES ASSUME ContextInv, PipelineInv, TasksOwn, [Next]_vars PROVE TasksOwn'
  OBVIOUS
<1>0. PipelineType /\ ContextType
  BY DEF ContextInv, PipelineInv
<1>1. ASSUME NEW r \in Requests, Begin(r) \/ Fill(r) \/ Finish(r) PROVE TasksOwn'
  <2>1. /\ UNCHANGED <<workerCh, task, ran>>
        /\ \/ pc' = pc /\ held' = held
           \/ /\ pc[r][1] = "new" /\ pc' = [pc EXCEPT ![r] = <<"sync", 1>>]
              /\ \E c \in pool : held' = [held EXCEPT ![r] = c]
           \/ pc' = [pc EXCEPT ![r] = <<"done", 0>>] /\ held' = [held EXCEPT ![r] = NoCtx]
    BY <1>1 DEF Begin, Fill, Finish, At, Go, ghosts
  <2>2. ASSUME NEW q \in Requests PROVE Onward(q)
    BY SMTT(30), SMTT(60), <1>0, <2>1 DEF Onward, ContextType
  <2> QED
    BY <1>0, <2>1, <2>2, OwnStays
<1>2. ASSUME NEW r \in Requests, Recovery(r) \/ CORS(r) \/ RequestID(r) \/ RateLimiter(r)
      PROVE  TasksOwn'
  <2>1. PICK c \in FDContexts : Effect(r, c)
    BY <1>2, MiddlewareEffect
  <2>2. /\ pc[r][1] = "sync" /\ UNCHANGED <<held, workerCh, task, ran>>
        /\ \A q \in Requests \ {r} : pc'[q] = pc[q]
    BY SMTT(30), SMTT(60), <2>1, EffectOn
  <2>3. \A q \in Requests : Onward(q)
    BY <2>2 DEF Onward
  <2> QED
    BY <1>0, <2>2, <2>3, OwnStays
<1>3. ASSUME NEW r \in Requests, FinalHandler(r) \/ Panics(r) PROVE TasksOwn'
  <2>1. /\ pc[r][1] = "sync" /\ UNCHANGED <<held, workerCh, task, ran>>
        /\ pc' = [pc EXCEPT ![r] = <<"async", 1>>] \/ pc' = [pc EXCEPT ![r] = <<"panicked", 0>>]
    BY <1>3 DEF FinalHandler, Panics, Handling, At, Go, ghosts
  <2>2. \A q \in Requests : Onward(q)
    BY <1>0, <2>1 DEF Onward, ContextType
  <2> QED
    BY <1>0, <2>1, <2>2, OwnStays
<1>4. ASSUME NEW r \in Requests, Handle(r) PROVE TasksOwn'
  BY <1>1, <1>2, <1>3, <1>4, OwnSubmit DEF Handle
<1>5. CASE Tick \/ UNCHANGED vars
  <2>1. UNCHANGED <<pc, held, workerCh, task, ran>>
    BY <1>5 DEF Tick, vars, ghosts
  <2>2. \A q \in Requests : Onward(q)
    BY <2>1 DEF Onward
  <2> QED
    BY <1>0, <2>1, <2>2, OwnStays
<1> QED
  BY <1>4, <1>5, OwnWorker DEF Next

\* While Execute runs, whatever middleware of the request runs, inline or on any
\* worker, sees this request, however many contexts and workers there are; what
\* it leaves to later is not covered, as its context may serve another request
\* by then.
THEOREM SeesOwnInExecute == Spec => []SeesOwn
<1>1. Init => TasksOwn
  <2> SUFFICES ASSUME Init PROVE TasksOwn
    OBVIOUS
  <2>1. DOMAIN <<>> = {}
    BY SMTT(30), SMTT(60)
  <2>2. /\ workerCh = <<>> /\ \A w \in Workers : task[w] = <<>>
        /\ \A r \in Requests : ran[r] = <<>>
    BY DEF Init
  <2> QED
    BY <2>1, <2>2 DEF TasksOwn
<1>2. TasksOwn => SeesOwn
  BY DEF TasksOwn, SeesOwn
<1> QED
  BY <1>1, <1>2, OwnNext, ContextInvariance, PipelineInvariance, PTL DEF Spec
-----------------------------------------------------------------------------
\* A request is answered once at most, not by the final handler when a
\* middleware aborted it, and not missed unless CORS aborted it, in every
\* interleaving of requests on any number of contexts (Pipeline.Execute's look at
\* aborted after each handler).
THEOREM AnsweredOnce == Spec => []OneResponse
<1>1. PipelineInv => OneResponse
  <2> SUFFICES ASSUME PipelineInv, NEW r \in Requests
               PROVE  /\ Len(sent[r]) <= 1
                      /\ pc[r][1] = "done" /\ "CORS" \notin aborts[r] => Len(sent[r]) = 1
                      /\ \A i \in DOMAIN sent[r] : sent[r][i].code = Code(aborts[r])
    BY DEF OneResponse, Code
  <2>1. DOMAIN sent[r] = 1 .. Len(sent[r])
    BY SMTT(30), SMTT(60) DEF PipelineInv, PipelineType
  <2> QED
    BY SMTT(30), SMTT(60), <2>1 DEF PipelineInv, ResponseSound
<1> QED
  BY <1>1, PipelineInvariance, PTL

\* AsyncPipeline.Execute hands every asynchronous middleware over once, for any
\* number of workers, whether the queue is full or not, and a worker that takes
\* it runs it once.
THEOREM AsyncHandedOnce == Spec => []AsyncOnce
<1>1. PipelineInv => AsyncOnce
  BY DEF PipelineInv
<1> QED
  BY <1>1, PipelineInvariance, PTL

\* RateLimiter lets at most twice its rate through in any second, for every
\* rate and however the requests fall around a refill.
THEOREM AtMostTwiceTheRate == Spec => []TwiceTheRate
<1>1. PipelineInv => TwiceTheRate
  <2> SUFFICES ASSUME PipelineInv, NEW i \in DOMAIN passed, i + 2 * Rate \in DOMAIN passed
               PROVE  passed[i] + Second < passed[i + 2 * Rate]
    BY DEF TwiceTheRate
  <2>1. passed \in Seq(Nat) /\ RateSound(passed, now, lastRefill, tokens)
    BY DEF PipelineInv, RateSound
  <2>2. i \in 1 .. Len(passed) /\ i + 2 * Rate <= Len(passed)
    BY SMTT(30), SMTT(60), <2>1
  <2> QED
    BY <2>1, <2>2 DEF RateSound
<1> QED
  BY <1>1, PipelineInvariance, PTL
=============================================================================

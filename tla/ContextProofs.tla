--------------------------- MODULE ContextProofs ---------------------------
(***************************************************************************)
(* Proofs about the contexts of module Middleware, for any requests,       *)
(* contexts, parameters and middlewares: a context that the pool hands out *)
(* again shows its new request nothing of the old one.                     *)
(***************************************************************************)
EXTENDS Middleware, TLAPS

\* The provers of a leaf that names none: most leaves are first-order.
USE ZenonT(20), SMTT(30), SMTT(60)

\* The response headers that the middlewares set.
HeaderNames == {"Access-Control-Allow-Origin", "X-Request-ID"}

\* The values of a pooled FDContext, whoever has used it.
FDContexts ==
  [request : Requests \union {NoReq}, slots : Seq(Keys \X Requests),
   overflow : [Keys -> Requests \union {0}], headers : SUBSET HeaderNames,
   status : Nat, aborted : BOOLEAN]

\* Context c holds value for the parameters keys and for no other one, each in
\* one inline slot or in the overflow map (SetParam after SetParam).
Filled(c, value, keys) ==
  /\ \A i \in 1 .. Len(c.slots) : c.slots[i][1] \in keys /\ c.slots[i][2] = value
  /\ \A i, j \in 1 .. Len(c.slots) : c.slots[i][1] = c.slots[j][1] => i = j
  /\ \A k \in Keys : c.overflow[k] = 0 \/ (k \in keys /\ c.overflow[k] = value)
  /\ \A k \in keys : c.overflow[k] = value \/ \E i \in 1 .. Len(c.slots) : c.slots[i][1] = k

\* FDContext.Param finds what was filled in, in a slot or in the map, and
\* nothing under any other key.
LEMMA ParamOfFilled ==
  ASSUME NEW c \in FDContexts, NEW value \in Requests, NEW keys \in SUBSET Keys,
         Filled(c, value, keys)
  PROVE  \A k \in Keys : Param(c, k) = IF k \in keys THEN value ELSE 0
<1> SUFFICES ASSUME NEW k \in Keys PROVE Param(c, k) = IF k \in keys THEN value ELSE 0
  OBVIOUS
<1> DEFINE I == {i \in DOMAIN c.slots : c.slots[i][1] = k}
<1>1. c.slots \in Seq(Keys \X Requests) /\ DOMAIN c.slots = 1 .. Len(c.slots)
  BY SMTT(30), SMTT(60) DEF FDContexts
<1>2. Param(c, k) = IF I # {} THEN c.slots[Min(I)][2] ELSE c.overflow[k]
  BY DEF Param
<1>5. I \in SUBSET Nat
  BY SMTT(30), SMTT(60), <1>1
<1>6. \A i \in I : i \in 1 .. Len(c.slots) /\ c.slots[i][1] = k
  BY <1>1
<1>7. I = {} => \A i \in 1 .. Len(c.slots) : c.slots[i][1] # k
  BY <1>1
<1> HIDE DEF I
<1>3. CASE I = {}
  <2>1. Param(c, k) = c.overflow[k]
    BY <1>2, <1>3
  <2> QED
    BY <2>1, <1>3, <1>7 DEF Filled
<1>4. CASE I # {}
  <2>1. Min(I) \in I
    <3>1. PICK i \in I : TRUE
      BY <1>4
    <3>2. I = {i}
      BY SMTT(30), SMTT(60), <1>6, <3>1 DEF Filled
    <3>3. i \in Nat /\ i <= i
      BY SMTT(30), SMTT(60), <1>5, <3>1
    <3> QED
      BY <3>2, <3>3 DEF Min
  <2>2. Param(c, k) = c.slots[Min(I)][2]
    BY <1>2, <1>4
  <2> QED
    BY SMTT(30), SMTT(60), <1>6, <2>1, <2>2 DEF Filled
<1> QED
  BY <1>3, <1>4
-----------------------------------------------------------------------------
\* FDContext.Reset leaves a context of its new request with no parameter, even
\* when the overflow map was in use, and not aborted.
LEMMA ResetEmpties ==
  ASSUME NEW c \in FDContexts, NEW req \in Requests \union {NoReq}
  PROVE  /\ Reset(c, req) \in FDContexts /\ Reset(c, req).request = req
         /\ ~Reset(c, req).aborted
         /\ \A value \in Requests : Filled(Reset(c, req), value, {})
<1> DEFINE d == Reset(c, req)
<1>1. /\ d.request = req /\ d.slots = <<>> /\ d.overflow = [k \in Keys |-> 0]
      /\ ~d.aborted
  BY DEF Reset, FDContexts
<1>2. d \in FDContexts
  <2>1. <<>> \in Seq(Keys \X Requests)
    BY SMTT(30), SMTT(60)
  <2>2. [k \in Keys |-> 0] \in [Keys -> Requests \union {0}]
    OBVIOUS
  <2> DEFINE z  == [k \in Keys |-> 0]
             e  == <<>>
             c1 == [c EXCEPT !.request = req, !.slots = e]
             c2 == [c1 EXCEPT !.overflow = z, !.headers = {}]
             ok == 200
             c3 == [c2 EXCEPT !.status = ok, !.aborted = FALSE]
  <2>3. d = c3
    BY DEF Reset
  <2>4. z \in [Keys -> Requests \union {0}] /\ e \in Seq(Keys \X Requests) /\ ok \in Nat
    BY SMTT(30), SMTT(60), <2>1, <2>2
  <2> HIDE DEF z, e, ok
  <2>5. c1 \in FDContexts
    BY <2>4 DEF FDContexts
  <2> HIDE DEF c1
  <2>6. c2 \in FDContexts
    BY <2>4, <2>5 DEF FDContexts
  <2> HIDE DEF c2
  <2>7. c3 \in FDContexts
    BY <2>4, <2>6 DEF FDContexts
  <2> QED
    BY <2>3, <2>7
<1>3. ASSUME NEW value \in Requests PROVE Filled(d, value, {})
  BY SMTT(30), SMTT(60), <1>1 DEF Filled
<1> QED
  BY <1>1, <1>2, <1>3

\* FDContext.SetParam fills in one more key: in the next slot while there is
\* one, in the overflow map from then on.
LEMMA SetParamFills ==
  ASSUME NEW c \in FDContexts, NEW value \in Requests, NEW keys \in SUBSET Keys,
         NEW k \in Keys, k \notin keys, Filled(c, value, keys)
  PROVE  /\ SetParam(c, k, value) \in FDContexts
         /\ SetParam(c, k, value).request = c.request
         /\ SetParam(c, k, value).aborted = c.aborted
         /\ Filled(SetParam(c, k, value), value, keys \union {k})
<1> DEFINE d == SetParam(c, k, value)
           s == c.slots
<1>1. s \in Seq(Keys \X Requests) /\ Len(s) \in Nat /\ <<k, value>> \in Keys \X Requests
  BY SMTT(30), SMTT(60) DEF FDContexts
<1>2. CASE Len(s) < Slots
  <2>1. d = [c EXCEPT !.slots = Append(s, <<k, value>>)]
    BY <1>2 DEF SetParam
  <2>0. Append(s, <<k, value>>) \in Seq(Keys \X Requests)
    BY SMTT(30), SMTT(60), <1>1
  <2>2. /\ d \in FDContexts /\ d.request = c.request /\ d.aborted = c.aborted
        /\ d.overflow = c.overflow /\ d.slots = Append(s, <<k, value>>)
    BY <2>0, <2>1 DEF FDContexts
  <2>3. /\ Len(d.slots) = Len(s) + 1 /\ d.slots[Len(s) + 1] = <<k, value>>
        /\ \A i \in 1 .. Len(s) : d.slots[i] = s[i]
    BY SMTT(30), SMTT(60), <2>2, <1>1
  <2>4. \A i \in 1 .. Len(d.slots) : i = Len(s) + 1 \/ i \in 1 .. Len(s)
    BY SMTT(30), SMTT(60), <2>3, <1>1
  <2>5. \A i \in 1 .. Len(s) : i \in 1 .. Len(d.slots)
    BY SMTT(30), SMTT(60), <2>3, <1>1
  <2>6. Len(s) + 1 \in 1 .. Len(d.slots)
    BY SMTT(30), SMTT(60), <2>3, <1>1
  <2>7. Filled(d, value, keys \union {k})
    BY SMTT(30), SMTT(60), <2>2, <2>3, <2>4, <2>5, <2>6 DEF Filled
  <2> QED
    BY <2>2, <2>7
<1>3. CASE ~(Len(s) < Slots)
  <2>1. d = [c EXCEPT !.overflow[k] = value]
    BY <1>3 DEF SetParam
  <2>2. /\ d \in FDContexts /\ d.request = c.request /\ d.aborted = c.aborted
        /\ d.slots = c.slots /\ d.overflow[k] = value
        /\ \A l \in Keys \ {k} : d.overflow[l] = c.overflow[l]
    BY <2>1, ZenonT(60) DEF FDContexts
  <2> QED
    BY SMTT(30), SMTT(60), <2>2 DEF Filled
<1> QED
  BY <1>2, <1>3

\* What a middleware leaves alone in a context.
Keeps(d, c) == d.request = c.request /\ d.slots = c.slots /\ d.overflow = c.overflow

\* FDContext.SetHeader touches neither the request nor its parameters.
LEMMA HeaderKeeps ==
  ASSUME NEW c \in FDContexts, NEW h \in HeaderNames
  PROVE  /\ SetHeader(c, h) \in FDContexts /\ Keeps(SetHeader(c, h), c)
         /\ SetHeader(c, h).aborted = c.aborted
BY DEF FDContexts, SetHeader, Keeps

\* Neither do FDContext.Abort and Status, which an aborting middleware calls.
LEMMA AbortKeeps ==
  ASSUME NEW c \in FDContexts, NEW code \in Nat
  PROVE  /\ Status(Abort(c), code) \in FDContexts /\ Keeps(Status(Abort(c), code), c)
         /\ Status(Abort(c), code).aborted
BY DEF FDContexts, Status, Abort, Keeps

\* What keeps the slots and the map keeps what they hold.
LEMMA KeepsFilled ==
  ASSUME NEW c, NEW d, NEW value, NEW keys, Keeps(d, c), Filled(c, value, keys)
  PROVE  Filled(d, value, keys)
BY SMTT(30), SMTT(60) DEF Keeps, Filled
-----------------------------------------------------------------------------
\* Where a request can be in processRequest; what it can be answered; and the
\* middlewares that abort.
Stages    == {"new", "sync", "async", "done", "panicked"}
Responses == [code : Nat, headers : SUBSET {"Content-Type", "Content-Length"},
              body : {"error", "ok"}]
Aborters  == {"CORS", "RateLimiter"}

\* The types of what a request and its context consist of.
ContextType ==
  /\ ctx \in [Contexts -> FDContexts] /\ pool \in SUBSET Contexts
  /\ pc \in [Requests -> Stages \X Nat] /\ held \in [Requests -> Contexts \union {NoCtx}]
  /\ params \in [Requests -> SUBSET Keys] /\ aborts \in [Requests -> SUBSET Aborters]

\* A request holds a context from Begin to Finish, also when it panics; the
\* context is not in the pool, and nobody else's.
HeldSound ==
  /\ \A r \in Requests : /\ held[r] # NoCtx <=> pc[r][1] \in {"sync", "async", "panicked"}
                         /\ held[r] \notin pool
  /\ \A r, q \in Requests : r # q /\ held[r] # NoCtx => held[r] # held[q]

\* What processRequest and the middlewares have written into the context.
ContextSound == \A r \in Requests :
  /\ params[r] \subseteq ParamsOf[r]
  /\ held[r] # NoCtx => /\ Mine(r).request = r
                        /\ Mine(r).aborted <=> aborts[r] # {}
                        /\ Filled(Mine(r), r, ParamsOf[r] \ params[r])

\* A request that a middleware aborts is not at its synchronous middlewares
\* any more.
AbortsLeave == \A r \in Requests : pc[r][1] \in {"new", "sync", "panicked"} => aborts[r] = {}

\* The inductive invariant of the contexts.  OwnContext needs Filled for its
\* parameters, and ContextSound needs HeldSound: what one request writes is
\* not in the context of another.
ContextInv == ContextType /\ HeldSound /\ ContextSound /\ AbortsLeave
-----------------------------------------------------------------------------
\* A step of request r that leaves the contexts of the others alone has only
\* its own to account for.
LEMMA OtherContexts ==
  ASSUME ContextType, ContextSound, NEW r \in Requests,
         \A q \in Requests \ {r} : /\ held'[q] = held[q] /\ params'[q] = params[q]
                                   /\ aborts'[q] = aborts[q]
                                   /\ held[q] # NoCtx => ctx'[held[q]] = ctx[held[q]],
         params'[r] \subseteq ParamsOf[r],
         held'[r] # NoCtx => /\ ctx'[held'[r]].request = r
                             /\ ctx'[held'[r]].aborted <=> aborts'[r] # {}
                             /\ Filled(ctx'[held'[r]], r, ParamsOf[r] \ params'[r])
  PROVE  ContextSound'
<1> SUFFICES ASSUME NEW q \in Requests
             PROVE  /\ params'[q] \subseteq ParamsOf[q]
                    /\ held'[q] # NoCtx =>
                         /\ ctx'[held'[q]].request = q
                         /\ ctx'[held'[q]].aborted <=> aborts'[q] # {}
                         /\ Filled(ctx'[held'[q]], q, ParamsOf[q] \ params'[q])
  BY DEF ContextSound, Mine
<1>1. CASE q = r
  BY <1>1
<1>2. CASE q # r
  <2>1. /\ params[q] \subseteq ParamsOf[q]
        /\ held[q] # NoCtx => /\ ctx[held[q]].request = q
                              /\ ctx[held[q]].aborted <=> aborts[q] # {}
                              /\ Filled(ctx[held[q]], q, ParamsOf[q] \ params[q])
    BY DEF ContextSound, Mine
  <2>2. /\ held'[q] = held[q] /\ params'[q] = params[q] /\ aborts'[q] = aborts[q]
        /\ held[q] # NoCtx => ctx'[held[q]] = ctx[held[q]]
    BY <1>2
  <2> QED
    BY SMTT(30), SMTT(60), <2>1, <2>2
<1> QED
  BY <1>1, <1>2

\* At first every context is new and in the pool.
LEMMA InitInv == Init => ContextInv
<1> SUFFICES ASSUME Init PROVE ContextInv
  OBVIOUS
<1>0. NoCtx \notin Contexts /\ ParamsOf \in [Requests -> SUBSET Keys]
  BY MiddlewareAssumption
<1>1. ContextType
  <2>1. NewFDContext(NoReq) \in FDContexts
    <3>1. <<>> \in Seq(Keys \X Requests)
      BY SMTT(30), SMTT(60)
    <3>2. [k \in Keys |-> 0] \in [Keys -> Requests \union {0}]
      OBVIOUS
    <3> QED
      BY SMTT(30), SMTT(60), <3>1, <3>2 DEF NewFDContext, FDContexts
  <2>3. <<"new", 0>> \in Stages \X Nat
    BY DEF Stages
  <2>4. ctx \in [Contexts -> FDContexts]
    BY <2>1 DEF Init
  <2>5. pc \in [Requests -> Stages \X Nat]
    BY <2>3 DEF Init
  <2> QED
    BY <2>4, <2>5 DEF Init, ContextType
<1>2. HeldSound
  BY <1>0 DEF Init, HeldSound
<1>3. ContextSound
  BY DEF Init, ContextSound
<1>4. AbortsLeave
  BY DEF Init, AbortsLeave
<1> QED
  BY <1>1, <1>2, <1>3, <1>4 DEF ContextInv

\* processRequest takes a context from the pool and resets it: it was nobody's,
\* and nothing of its last request is left.
LEMMA BeginInv ==
  ASSUME ContextInv, NEW r \in Requests, Begin(r)
  PROVE  ContextInv'
<1> USE DEF ContextInv
<1>0. NoCtx \notin Contexts /\ ParamsOf \in [Requests -> SUBSET Keys] /\ ContextType
  BY MiddlewareAssumption
<1>1. PICK c \in pool : /\ held' = [held EXCEPT ![r] = c] /\ pool' = pool \ {c}
                        /\ ctx' = [ctx EXCEPT ![c] = Reset(@, r)]
  BY DEF Begin
<1>2. /\ params' = [params EXCEPT ![r] = ParamsOf[r]] /\ pc' = [pc EXCEPT ![r] = <<"sync", 1>>]
      /\ ~crashed /\ pc[r][1] = "new"
      /\ UNCHANGED aborts
  BY DEF Begin, Go, At, limiter, ghosts
<1>3. c \in Contexts /\ ctx[c] \in FDContexts /\ c # NoCtx
  BY <1>0 DEF ContextType
<1>4. /\ Reset(ctx[c], r) \in FDContexts /\ Reset(ctx[c], r).request = r
      /\ ~Reset(ctx[c], r).aborted /\ Filled(Reset(ctx[c], r), r, {})
  BY <1>3, ResetEmpties
<1>5. ContextType'
  <2>1. ctx' \in [Contexts -> FDContexts]
    BY <1>0, <1>1, <1>4 DEF ContextType
  <2>2. pc' \in [Requests -> Stages \X Nat]
    BY <1>0, <1>2 DEF ContextType, Stages
  <2>3. /\ held' \in [Requests -> Contexts \union {NoCtx}] /\ pool' \in SUBSET Contexts
        /\ params' \in [Requests -> SUBSET Keys]
    BY <1>0, <1>1, <1>2, <1>3 DEF ContextType
  <2> QED
    BY <1>0, <1>2, <2>1, <2>2, <2>3 DEF ContextType
<1>6. HeldSound'
  <2>1. held[r] = NoCtx /\ \A q \in Requests : held[q] \notin pool
    BY <1>2 DEF HeldSound
  <2>2. held'[r] = c /\ \A q \in Requests \ {r} : held'[q] = held[q]
    BY <1>0, <1>1 DEF ContextType
  <2>3. pc'[r][1] = "sync" /\ \A q \in Requests \ {r} : pc'[q] = pc[q]
    BY <1>0, <1>2 DEF ContextType
  <2>4. \A q \in Requests : /\ held'[q] # NoCtx <=> pc'[q][1] \in {"sync", "async", "panicked"}
                            /\ held'[q] \notin pool'
    BY SMTT(30), SMTT(60), <1>1, <1>3, <2>1, <2>2, <2>3 DEF HeldSound
  <2>5. \A p, q \in Requests : p # q /\ held'[p] # NoCtx => held'[p] # held'[q]
    BY SMTT(30), SMTT(60), <1>1, <1>3, <2>1, <2>2 DEF HeldSound
  <2> QED
    BY <2>4, <2>5 DEF HeldSound
<1>7. ContextSound'
  <2>1. held'[r] = c /\ ctx'[c] = Reset(ctx[c], r) /\ params'[r] = ParamsOf[r]
    BY <1>0, <1>1, <1>2, <1>3 DEF ContextType
  <2>2. aborts'[r] = {}
    BY <1>2 DEF AbortsLeave
  <2>3. ParamsOf[r] \ params'[r] = {}
    BY <2>1
  <2>4. \A q \in Requests \ {r} : /\ held'[q] = held[q] /\ params'[q] = params[q]
                                  /\ aborts'[q] = aborts[q]
                                  /\ held[q] # NoCtx => ctx'[held[q]] = ctx[held[q]]
    <3>1. \A q \in Requests : held[q] # c
      BY DEF HeldSound
    <3> QED
      BY <1>0, <1>1, <1>2, <3>1 DEF ContextType
  <2>5. /\ ctx'[held'[r]].request = r /\ (ctx'[held'[r]].aborted <=> aborts'[r] # {})
        /\ Filled(ctx'[held'[r]], r, ParamsOf[r] \ params'[r])
    BY <1>4, <2>1, <2>2, <2>3
  <2> QED
    BY <1>0, <2>1, <2>4, <2>5, OtherContexts
<1>8. AbortsLeave'
  <2>1. pc'[r] = <<"sync", 1>> /\ \A q \in Requests \ {r} : pc'[q] = pc[q]
    BY <1>0, <1>2 DEF ContextType
  <2> QED
    BY <1>2, <2>1 DEF AbortsLeave
<1> QED
  BY <1>5, <1>6, <1>7, <1>8

\* processRequest copies one parameter of the route into the context.
LEMMA FillInv ==
  ASSUME ContextInv, NEW r \in Requests, Fill(r)
  PROVE  ContextInv'
<1> USE DEF ContextInv
<1>0. ContextType /\ NoCtx \notin Contexts /\ ParamsOf \in [Requests -> SUBSET Keys]
  BY MiddlewareAssumption
<1>1. PICK k \in params[r] : /\ ctx' = [ctx EXCEPT ![held[r]] = SetParam(ctx[held[r]], k, r)]
                             /\ params' = [params EXCEPT ![r] = params[r] \ {k}]
  BY DEF Fill, Update, Mine
<1>2. /\ pc[r][1] = "sync"
      /\ UNCHANGED <<pool, pc, held, aborts>>
  BY DEF Fill, At, limiter, ghosts
<1>3. held[r] # NoCtx /\ held[r] \in Contexts /\ ctx[held[r]] \in FDContexts
  BY <1>0, <1>2 DEF ContextType, HeldSound
<1>4. params[r] \in SUBSET Keys /\ params[r] \subseteq ParamsOf[r] /\ ParamsOf[r] \in SUBSET Keys
  BY <1>0 DEF ContextType, ContextSound
<1> DEFINE c == ctx[held[r]]
           d == SetParam(c, k, r)
<1>5. c.request = r /\ (c.aborted <=> aborts[r] # {}) /\ Filled(c, r, ParamsOf[r] \ params[r])
  BY <1>3 DEF ContextSound, Mine
<1>6. /\ d \in FDContexts /\ d.request = c.request /\ d.aborted = c.aborted
      /\ Filled(d, r, (ParamsOf[r] \ params[r]) \union {k})
  <2>1. k \notin ParamsOf[r] \ params[r] /\ k \in Keys
    BY <1>4
  <2>2. ParamsOf[r] \ params[r] \in SUBSET Keys
    BY <1>4
  <2> QED
    BY <1>3, <1>5, <2>1, <2>2, SetParamFills
<1>7. (ParamsOf[r] \ params[r]) \union {k} = ParamsOf[r] \ (params[r] \ {k})
  BY <1>4
<1> HIDE DEF c, d
<1>8. ctx' = [ctx EXCEPT ![held[r]] = d]
  BY <1>1 DEF c, d
<1>9. ContextType'
  <2>1. ctx' \in [Contexts -> FDContexts]
    BY <1>0, <1>6, <1>8 DEF ContextType
  <2>2. params' \in [Requests -> SUBSET Keys]
    BY <1>0, <1>1, <1>4 DEF ContextType
  <2> QED
    BY <1>0, <1>2, <2>1, <2>2 DEF ContextType
<1>10. HeldSound'
  BY <1>2 DEF HeldSound
<1>11. ContextSound'
  <2>1. ctx'[held'[r]] = d /\ params'[r] = params[r] \ {k}
    BY <1>0, <1>1, <1>2, <1>3, <1>8 DEF ContextType
  <2>2. \A q \in Requests \ {r} : /\ held'[q] = held[q] /\ params'[q] = params[q]
                                  /\ aborts'[q] = aborts[q]
                                  /\ held[q] # NoCtx => ctx'[held[q]] = ctx[held[q]]
    <3>1. \A q \in Requests \ {r} : held[q] # held[r]
      BY <1>3 DEF HeldSound
    <3> QED
      BY SMTT(30), SMTT(60), <1>0, <1>1, <1>2, <1>8, <3>1 DEF ContextType
  <2>3. /\ ctx'[held'[r]].request = r /\ (ctx'[held'[r]].aborted <=> aborts'[r] # {})
        /\ Filled(ctx'[held'[r]], r, ParamsOf[r] \ params'[r])
    BY <1>2, <1>5, <1>6, <1>7, <2>1
  <2>4. params'[r] \subseteq ParamsOf[r]
    BY <1>4, <2>1
  <2> QED
    BY <1>0, <2>2, <2>3, <2>4, OtherContexts
<1>12. AbortsLeave'
  BY <1>2 DEF AbortsLeave
<1> QED
  BY <1>9, <1>10, <1>11, <1>12

\* processRequest puts the context back once its request has no more use for it.
LEMMA FinishInv ==
  ASSUME ContextInv, NEW r \in Requests, Finish(r)
  PROVE  ContextInv'
<1> USE DEF ContextInv
<1>0. /\ ContextType /\ NoCtx \notin Contexts /\ NoReq \notin Requests
      /\ Async \in Seq({"Logger", "Metrics"})
  BY MiddlewareAssumption
<1>1. /\ pc[r][1] = "async" /\ pc[r][2] > Len(Async) /\ pc' = [pc EXCEPT ![r] = <<"done", 0>>]
      /\ ctx' = [ctx EXCEPT ![held[r]] = Reset(ctx[held[r]], NoReq)]
      /\ pool' = pool \union {held[r]} /\ held' = [held EXCEPT ![r] = NoCtx]
      /\ UNCHANGED <<params, aborts>>
  BY DEF Finish, At, Go, Update, Mine, limiter, ghosts
<1>2. held[r] # NoCtx /\ held[r] \in Contexts /\ ctx[held[r]] \in FDContexts
  BY <1>0, <1>1 DEF ContextType, HeldSound
<1>3. Reset(ctx[held[r]], NoReq) \in FDContexts
  BY <1>2, ResetEmpties
<1>4. pc'[r] = <<"done", 0>> /\ \A q \in Requests \ {r} : pc'[q] = pc[q]
  BY <1>0, <1>1 DEF ContextType
<1>5. held'[r] = NoCtx /\ \A q \in Requests \ {r} : held'[q] = held[q]
  BY <1>0, <1>1 DEF ContextType
<1>6. \A q \in Requests \ {r} : held[q] # held[r]
  BY <1>2 DEF HeldSound
<1>7. ContextType'
  <2>1. ctx' \in [Contexts -> FDContexts]
    BY <1>0, <1>1, <1>3 DEF ContextType
  <2>2. pc' \in [Requests -> Stages \X Nat]
    BY <1>0, <1>1 DEF ContextType, Stages
  <2>3. held' \in [Requests -> Contexts \union {NoCtx}] /\ pool' \in SUBSET Contexts
    BY <1>0, <1>1, <1>2 DEF ContextType
  <2> QED
    BY <1>0, <1>1, <2>1, <2>2, <2>3 DEF ContextType
<1>8. HeldSound'
  <2>1. NoCtx \notin pool'
    BY <1>0, <1>1, <1>2 DEF ContextType
  <2>2. \A q \in Requests : /\ held'[q] # NoCtx <=> pc'[q][1] \in {"sync", "async", "panicked"}
                            /\ held'[q] \notin pool'
    BY SMTT(30), SMTT(60), <1>1, <1>4, <1>5, <1>6, <2>1 DEF HeldSound
  <2>3. \A p, q \in Requests : p # q /\ held'[p] # NoCtx => held'[p] # held'[q]
    BY <1>5 DEF HeldSound
  <2> QED
    BY <2>2, <2>3 DEF HeldSound
<1>9. ContextSound'
  <2>1. \A q \in Requests \ {r} : /\ held'[q] = held[q] /\ params'[q] = params[q]
                                  /\ aborts'[q] = aborts[q]
                                  /\ held[q] # NoCtx => ctx'[held[q]] = ctx[held[q]]
    BY <1>0, <1>1, <1>5, <1>6 DEF ContextType
  <2>2. params'[r] \subseteq ParamsOf[r]
    BY <1>1 DEF ContextSound
  <2> QED
    BY <1>0, <1>5, <2>1, <2>2, OtherContexts
<1>10. AbortsLeave'
  BY SMTT(30), SMTT(60), <1>1, <1>4 DEF AbortsLeave
<1> QED
  BY <1>7, <1>8, <1>9, <1>10

\* A middleware that is called changes its own request's context, in what
\* processRequest has not written, and leaves a context that is aborted exactly
\* if it recorded that.
Effect(r, c) ==
  /\ Handling(r) /\ Proceed(r, c) /\ Keeps(c, Mine(r))
  /\ \/ ~c.aborted /\ UNCHANGED <<aborts, sent>>
     \/ /\ c.aborted
        /\ \/ Aborted(r, "CORS") /\ UNCHANGED sent
           \/ /\ Aborted(r, "RateLimiter")
              /\ \E resp \in Responses : Sends(r, resp) /\ resp.code = 429

LEMMA MiddlewareEffect ==
  ASSUME ContextInv, NEW r \in Requests,
         Recovery(r) \/ CORS(r) \/ RequestID(r) \/ RateLimiter(r)
  PROVE  \E c \in FDContexts : Effect(r, c)
<1>0. ContextType /\ HeldSound /\ ContextSound /\ AbortsLeave
  BY DEF ContextInv
<1>1. Handling(r) /\ pc[r][1] = "sync"
  BY DEF Recovery, CORS, RequestID, RateLimiter, Current, Handling, At
<1>2. Mine(r) \in FDContexts /\ ~Mine(r).aborted
  <2>1. NoCtx \notin Contexts
    BY MiddlewareAssumption
  <2>2. held[r] # NoCtx /\ aborts[r] = {}
    BY <1>0, <1>1 DEF HeldSound, AbortsLeave
  <2>3. Mine(r) \in FDContexts
    BY <1>0, <2>1, <2>2 DEF ContextType, Mine
  <2>4. ~Mine(r).aborted
    BY <1>0, <2>2 DEF ContextSound
  <2> QED
    BY <2>3, <2>4
<1>3. Keeps(Mine(r), Mine(r))
  BY DEF Keeps
<1>4. CASE Recovery(r)
  BY <1>1, <1>2, <1>3, <1>4 DEF Recovery, Effect
<1>5. CASE CORS(r)
  <2> DEFINE c == SetHeader(Mine(r), "Access-Control-Allow-Origin")
             d == Status(Abort(c), 204)
  <2>1. c \in FDContexts /\ Keeps(c, Mine(r)) /\ ~c.aborted
    BY <1>2, HeaderKeeps DEF HeaderNames
  <2>2. /\ \/ Proceed(r, d) /\ Aborted(r, "CORS")
           \/ Proceed(r, c) /\ UNCHANGED aborts
        /\ UNCHANGED sent
    BY <1>5 DEF CORS
  <2> HIDE DEF c
  <2>3. d \in FDContexts /\ Keeps(d, c) /\ d.aborted
    BY SMTT(30), SMTT(60), <2>1, AbortKeeps
  <2> HIDE DEF d
  <2>4. Keeps(d, Mine(r))
    BY <2>1, <2>3 DEF Keeps
  <2> QED
    BY <1>1, <2>1, <2>2, <2>3, <2>4 DEF Aborters, Effect
<1>6. CASE RequestID(r)
  <2> DEFINE c == SetHeader(Mine(r), "X-Request-ID")
  <2>1. c \in FDContexts /\ Keeps(c, Mine(r)) /\ ~c.aborted
    BY <1>2, HeaderKeeps DEF HeaderNames
  <2>2. Proceed(r, c) /\ UNCHANGED <<aborts, sent>>
    BY <1>6 DEF RequestID
  <2> HIDE DEF c
  <2> QED
    BY <1>1, <2>1, <2>2 DEF Effect
<1>7. CASE RateLimiter(r)
  <2> DEFINE d == Status(Abort(Mine(r)), 429)
             resp == JSON(Mine(r), 429, "error")
  <2>1. d \in FDContexts /\ Keeps(d, Mine(r)) /\ d.aborted
    BY SMTT(30), SMTT(60), <1>2, AbortKeeps
  <2>2. resp \in Responses /\ resp.code = 429
    BY SMTT(30), SMTT(60) DEF JSON, Response, Responses
  <2>3. \/ Proceed(r, Mine(r)) /\ UNCHANGED <<aborts, sent>>
        \/ Proceed(r, d) /\ Aborted(r, "RateLimiter") /\ Sends(r, resp)
    BY SMTT(30), SMTT(60), <1>7 DEF RateLimiter
  <2> HIDE DEF d, resp
  <2> QED
    BY <1>1, <1>2, <1>3, <2>1, <2>2, <2>3 DEF Aborters, Effect
<1> QED
  BY <1>4, <1>5, <1>6, <1>7

\* What Effect leaves in the variables of the request.
LEMMA EffectOn ==
  ASSUME ContextInv, NEW r \in Requests, NEW c \in FDContexts, Effect(r, c)
  PROVE  /\ pc[r][1] = "sync" /\ pc[r][2] \in Nat /\ aborts[r] = {}
         /\ ctx' = [ctx EXCEPT ![held[r]] = c]
         /\ UNCHANGED <<pool, held, params, workerCh, task, now, ran, crashed>>
         /\ aborts' \in [Requests -> SUBSET Aborters] /\ (aborts'[r] # {} <=> c.aborted)
         /\ \A q \in Requests \ {r} : aborts'[q] = aborts[q]
         /\ pc' \in [Requests -> Stages \X Nat] /\ \A q \in Requests \ {r} : pc'[q] = pc[q]
         /\ c.aborted => pc'[r] = <<"async", Len(Async) + 1>>
         /\ ~c.aborted => pc'[r][1] = "sync"
<1>0. ContextType /\ AbortsLeave /\ Async \in Seq({"Logger", "Metrics"})
  BY MiddlewareAssumption DEF ContextInv
<1>1. /\ ctx' = [ctx EXCEPT ![held[r]] = c]
      /\ UNCHANGED <<pool, held, params, workerCh, task, now, ran, crashed>>
  BY DEF Effect, Proceed, Update
<1>2. pc[r][1] = "sync" /\ pc[r][2] \in Nat
  BY <1>0 DEF Effect, Handling, At, ContextType
<1>3. aborts[r] = {}
  BY <1>0, <1>2 DEF AbortsLeave
<1>4. pc[r][2] + 1 \in Nat /\ Len(Async) + 1 \in Nat
  BY SMTT(30), SMTT(60), <1>0, <1>2
<1>5. CASE c.aborted
  <2>1. PICK name \in Aborters : Aborted(r, name)
    BY <1>5 DEF Effect, Aborters
  <2>2. /\ aborts' \in [Requests -> SUBSET Aborters] /\ aborts'[r] # {}
        /\ \A q \in Requests \ {r} : aborts'[q] = aborts[q]
    BY <1>0, <2>1 DEF ContextType, Aborted
  <2>3. pc' = [pc EXCEPT ![r] = <<"async", Len(Async) + 1>>]
    BY <1>5 DEF Effect, Proceed, Go
  <2> QED
    BY <1>0, <1>1, <1>2, <1>3, <1>4, <1>5, <2>2, <2>3 DEF ContextType, Stages
<1>6. CASE ~c.aborted
  <2>1. pc' = [pc EXCEPT ![r] = <<"sync", pc[r][2] + 1>>] /\ UNCHANGED aborts
    BY <1>6 DEF Effect, Proceed, Go
  <2> QED
    BY <1>0, <1>1, <1>2, <1>3, <1>4, <1>6, <2>1 DEF ContextType, Stages
<1> QED
  BY <1>5, <1>6

\* Each of the middlewares keeps the invariant.
LEMMA MiddlewareInv ==
  ASSUME ContextInv, NEW r \in Requests,
         Recovery(r) \/ CORS(r) \/ RequestID(r) \/ RateLimiter(r)
  PROVE  ContextInv'
<1> USE DEF ContextInv
<1>0. ContextType /\ NoCtx \notin Contexts
  BY MiddlewareAssumption
<1>1. PICK c \in FDContexts : Effect(r, c)
  BY MiddlewareEffect
<1>2. /\ pc[r][1] = "sync" /\ ctx' = [ctx EXCEPT ![held[r]] = c]
      /\ UNCHANGED <<pool, held, params>>
      /\ aborts' \in [Requests -> SUBSET Aborters] /\ (aborts'[r] # {} <=> c.aborted)
      /\ \A q \in Requests \ {r} : aborts'[q] = aborts[q]
      /\ pc' \in [Requests -> Stages \X Nat] /\ \A q \in Requests \ {r} : pc'[q] = pc[q]
      /\ pc'[r][1] \in {"sync", "async"} /\ (pc'[r][1] = "sync" => ~c.aborted)
  BY SMTT(30), SMTT(60), <1>1, EffectOn
<1>3. held[r] # NoCtx /\ held[r] \in Contexts /\ ctx[held[r]] \in FDContexts
  BY SMTT(30), SMTT(60), <1>0, <1>2 DEF ContextType, HeldSound
<1>4. ContextType'
  <2>1. ctx' \in [Contexts -> FDContexts]
    BY <1>0, <1>2 DEF ContextType
  <2> QED
    BY <1>0, <1>2, <2>1 DEF ContextType
<1>5. HeldSound'
  <2>1. \A q \in Requests : pc'[q][1] \in {"sync", "async", "panicked"}
                              <=> pc[q][1] \in {"sync", "async", "panicked"}
    BY <1>2
  <2> QED
    BY <1>2, <2>1 DEF HeldSound
<1>6. ContextSound'
  <2>1. ctx'[held'[r]] = c /\ params'[r] = params[r]
    BY <1>0, <1>2, <1>3 DEF ContextType
  <2>2. params[r] \subseteq ParamsOf[r]
    BY DEF ContextSound
  <2>3. \A q \in Requests \ {r} : /\ held'[q] = held[q] /\ params'[q] = params[q]
                                  /\ aborts'[q] = aborts[q]
                                  /\ held[q] # NoCtx => ctx'[held[q]] = ctx[held[q]]
    <3>1. \A q \in Requests \ {r} : held[q] # held[r]
      BY <1>3 DEF HeldSound
    <3> QED
      BY SMTT(30), SMTT(60), <1>0, <1>2, <3>1 DEF ContextType
  <2>4. ctx[held[r]].request = r /\ Filled(ctx[held[r]], r, ParamsOf[r] \ params[r])
    BY <1>3 DEF ContextSound, Mine
  <2>5. c.request = r /\ Filled(c, r, ParamsOf[r] \ params[r])
    BY SMTT(30), SMTT(60), <1>1, <2>4, KeepsFilled DEF Effect, Mine, Keeps
  <2>6. /\ params'[r] \subseteq ParamsOf[r] /\ ctx'[held'[r]].request = r
        /\ (ctx'[held'[r]].aborted <=> aborts'[r] # {})
        /\ Filled(ctx'[held'[r]], r, ParamsOf[r] \ params'[r])
    BY <1>2, <2>1, <2>2, <2>5
  <2> QED
    BY <1>0, <2>3, <2>6, OtherContexts
<1>7. AbortsLeave'
  BY <1>2 DEF AbortsLeave
<1> QED
  BY <1>4, <1>5, <1>6, <1>7

\* The final handler, its panic and the handing over of asynchronous
\* middlewares move the request and leave the contexts.
LEMMA MovesInv ==
  ASSUME ContextInv, NEW r \in Requests, FinalHandler(r) \/ Panics(r) \/ Submit(r)
  PROVE  ContextInv'
<1> USE DEF ContextInv
<1>0. ContextType
  OBVIOUS
<1>1. UNCHANGED <<ctx, pool, held, params, aborts>>
  BY DEF FinalHandler, Panics, Submit, ghosts
<1>2. PICK stage \in {"async", "panicked"}, i \in Nat :
        /\ pc' = [pc EXCEPT ![r] = <<stage, i>>] /\ pc[r][1] \in {"sync", "async"}
        /\ stage = "panicked" => pc[r][1] = "sync"
  <2>1. \/ pc' = [pc EXCEPT ![r] = <<"async", 1>>] /\ pc[r][1] = "sync"
        \/ pc' = [pc EXCEPT ![r] = <<"panicked", 0>>] /\ pc[r][1] = "sync"
        \/ pc' = [pc EXCEPT ![r] = <<"async", pc[r][2] + 1>>] /\ pc[r][1] = "async"
    BY DEF FinalHandler, Panics, Submit, Handling, At, Go
  <2>2. 0 \in Nat /\ 1 \in Nat /\ pc[r][2] + 1 \in Nat
    BY SMTT(30), SMTT(60), <1>0 DEF ContextType
  <2> QED
    BY <2>1, <2>2
<1>3. pc'[r] = <<stage, i>> /\ \A q \in Requests \ {r} : pc'[q] = pc[q]
  BY <1>0, <1>2 DEF ContextType
<1>4. ContextType'
  <2>1. pc' \in [Requests -> Stages \X Nat]
    BY <1>0, <1>2 DEF ContextType, Stages
  <2> QED
    BY <1>0, <1>1, <2>1 DEF ContextType
<1>5. HeldSound'
  <2>1. \A q \in Requests : pc'[q][1] \in {"sync", "async", "panicked"}
                              <=> pc[q][1] \in {"sync", "async", "panicked"}
    BY SMTT(30), SMTT(60), <1>2, <1>3
  <2> QED
    BY <1>1, <2>1 DEF HeldSound
<1>6. ContextSound'
  BY <1>1 DEF ContextSound, Mine
<1>7. AbortsLeave'
  BY SMTT(30), SMTT(60), <1>1, <1>2, <1>3 DEF AbortsLeave
<1> QED
  BY <1>4, <1>5, <1>6, <1>7

\* A step that no request takes leaves everything the invariant is about.
LEMMA ElsewhereInv ==
  ASSUME ContextInv, UNCHANGED <<ctx, pool, pc, held, params, aborts>>
  PROVE  ContextInv'
<1>1. ContextType' /\ HeldSound' /\ AbortsLeave'
  BY DEF ContextInv, ContextType, HeldSound, AbortsLeave
<1>2. ContextSound'
  BY DEF ContextInv, ContextSound, Mine
<1> QED
  BY <1>1, <1>2 DEF ContextInv

\* Every step keeps the invariant.
LEMMA NextInv == ContextInv /\ [Next]_vars => ContextInv'
<1> SUFFICES ASSUME ContextInv, [Next]_vars PROVE ContextInv'
  OBVIOUS
<1>1. ASSUME NEW r \in Requests, Handle(r) PROVE ContextInv'
  BY <1>1, BeginInv, FillInv, MiddlewareInv, MovesInv, FinishInv DEF Handle
<1>2. ASSUME NEW w \in Workers, Worker(w) PROVE ContextInv'
  <2>1. UNCHANGED <<ctx, pool, pc, held, params, aborts>>
    BY <1>2 DEF Worker, Receive, RunTask, ghosts
  <2> QED
    BY <2>1, ElsewhereInv
<1>3. CASE Tick \/ UNCHANGED vars
  <2>1. UNCHANGED <<ctx, pool, pc, held, params, aborts>>
    BY <1>3 DEF Tick, vars, ghosts
  <2> QED
    BY <2>1, ElsewhereInv
<1> QED
  BY <1>1, <1>2, <1>3 DEF Next

\* ContextInv is an invariant of the pipeline.
LEMMA ContextInvariance == Spec => []ContextInv
BY InitInv, NextInv, PTL DEF Spec
-----------------------------------------------------------------------------
\* A request sees its own context only, whichever requests had the context
\* before and whichever run beside it: its parameters are those that were set
\* for it, in the slots or in the overflow map, and it counts as aborted when
\* one of its own middlewares aborted it (Engine.processRequest, FDContext.Reset).
THEOREM ContextsNotShared == Spec => []OwnContext
<1>1. ContextInv => OwnContext
  <2> SUFFICES ASSUME ContextInv, NEW r \in Requests, held[r] # NoCtx
               PROVE  /\ Mine(r).request = r
                      /\ Mine(r).aborted <=> aborts[r] # {}
                      /\ \A k \in Keys :
                           Param(Mine(r), k) = IF k \in ParamsOf[r] \ params[r] THEN r ELSE 0
    BY DEF OwnContext
  <2>1. ParamsOf[r] \ params[r] \in SUBSET Keys
    BY MiddlewareAssumption
  <2>2. Mine(r) \in FDContexts
    BY DEF ContextInv, ContextType, Mine
  <2>3. /\ Mine(r).request = r /\ (Mine(r).aborted <=> aborts[r] # {})
        /\ Filled(Mine(r), r, ParamsOf[r] \ params[r])
    BY DEF ContextInv, ContextSound
  <2> QED
    BY SMTT(30), SMTT(60), <2>1, <2>2, <2>3, ParamOfFilled
<1> QED
  BY <1>1, ContextInvariance, PTL
=============================================================================

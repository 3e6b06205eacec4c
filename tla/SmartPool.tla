----------------------------- MODULE SmartPool ------------------------------
(***************************************************************************)
(* SmartPool of core/pools/smart_pool.go, which holds the engine's         *)
(* contexts and request objects: a sync.Pool with counters, a reset of     *)
(* what is put back, and an optimizer that reads the counters and warms    *)
(* the pool up.  A step is one atomic operation or one call of sync.Pool.  *)
(* An object is the set of its fields that a use has written.              *)
(***************************************************************************)
EXTENDS Naturals, FiniteSets

CONSTANTS Users, Objects, NoObject,
          Fields, Cleared,         \* fields of an object, those resetFunc clears;
                                   \* none when it is nil
          MaxGets, MaxStats,       \* bounds on the calls of Get and of Stats
          MinGets,                 \* Optimize warms up above this many gets (1000)
          Target,                  \* targetHitRate, in per cent
          Warmup, Extra,           \* objects NewSmartPool and Optimize put in
          Width                    \* of an unsigned counter (2^64)

SmartPoolAssumption == NoObject \notin Objects /\ Cleared \subseteq Fields

VARIABLES
  pool,                   \* the objects sync.Pool keeps
  dirty,                  \* per object, the fields with the state of a use
  late,                   \* objects also in the hands of a goroutine that their
                          \* user started and that may outlive the use
  gets, puts, news,       \* the counters
  pc, obj,                \* per user: step, and the object in its hands
  opt, read,              \* step of Optimize and the counters it loaded
  stats                   \* calls of Stats so far

counters == <<gets, puts, news>>
user == <<pc, obj>>
optimizer == <<opt, read, stats>>
vars == <<pool, dirty, late, counters, user, optimizer>>

Unused == Objects \ (pool \union late \union {obj[u] : u \in Users})

Init ==
  /\ pool \in {P \in SUBSET Objects : Cardinality(P) = Warmup}
  /\ dirty = [o \in Objects |-> {}] /\ late = {}
  /\ gets = 0 /\ puts = 0 /\ news = 0
  /\ pc = [u \in Users |-> "idle"] /\ obj = [u \in Users |-> NoObject]
  /\ opt = "idle" /\ read = [gets |-> 0, news |-> 0] /\ stats = 0
-----------------------------------------------------------------------------
Goto(u, l) == pc' = [pc EXCEPT ![u] = l]

Get(u) ==
  /\ pc[u] = "idle" /\ gets < MaxGets /\ gets' = gets + 1 /\ Goto(u, "take")
  /\ UNCHANGED <<pool, dirty, late, puts, news, obj, optimizer>>

\* sync.Pool hands out an object it keeps.
Take(u) ==
  /\ pc[u] = "take" /\ Goto(u, "have")
  /\ \E o \in pool : obj' = [obj EXCEPT ![u] = o] /\ pool' = pool \ {o}
  /\ UNCHANGED <<dirty, late, counters, optimizer>>

\* It has none at hand and calls New; it may also when it keeps some, which
\* belong to another processor.
New(u) ==
  /\ pc[u] = "take" /\ Goto(u, "have") /\ news' = news + 1
  /\ \E o \in Unused : /\ obj' = [obj EXCEPT ![u] = o]
                      /\ dirty' = [dirty EXCEPT ![o] = {}]
  /\ UNCHANGED <<pool, late, gets, puts, optimizer>>

Use(u) ==
  /\ pc[u] = "have" /\ \E f \in Fields : dirty' = [dirty EXCEPT ![obj[u]] = @ \union {f}]
  /\ UNCHANGED <<pool, late, counters, user, optimizer>>

\* The user hands the object to a goroutine that nobody waits for, as the
\* asynchronous middlewares of a pipeline are.
Share(u) ==
  /\ pc[u] = "have" /\ late' = late \union {obj[u]}
  /\ UNCHANGED <<pool, dirty, counters, user, optimizer>>

\* That goroutine writes the object, wherever it is by now.
UseLate ==
  /\ \E o \in late : \E f \in Fields : dirty' = [dirty EXCEPT ![o] = @ \union {f}]
  /\ UNCHANGED <<pool, late, counters, user, optimizer>>

Put(u) ==
  /\ pc[u] = "have" /\ puts' = puts + 1 /\ Goto(u, "reset")
  /\ UNCHANGED <<pool, dirty, late, gets, news, obj, optimizer>>

\* resetFunc, if there is one
Reset(u) ==
  /\ pc[u] = "reset" /\ Goto(u, "back")
  /\ dirty' = [dirty EXCEPT ![obj[u]] = @ \ Cleared]
  /\ UNCHANGED <<pool, late, counters, obj, optimizer>>

PutBack(u) ==
  /\ pc[u] = "back" /\ pool' = pool \union {obj[u]} /\ Goto(u, "idle")
  /\ obj' = [obj EXCEPT ![u] = NoObject]
  /\ UNCHANGED <<dirty, late, counters, optimizer>>

\* The garbage collector empties sync.Pool.
Collect ==
  /\ pool' = {}
  /\ UNCHANGED <<dirty, late, counters, user, optimizer>>
-----------------------------------------------------------------------------
\* Stats loads gets, then news (puts is loaded between them, for ReuseRate).
LoadGets ==
  /\ opt = "idle" /\ stats < MaxStats /\ stats' = stats + 1 /\ opt' = "news"
  /\ read' = [gets |-> gets, news |-> 0]
  /\ UNCHANGED <<pool, dirty, late, counters, user>>

LoadNews ==
  /\ opt = "news" /\ opt' = "decide" /\ read' = [read EXCEPT !.news = news]
  /\ UNCHANGED <<pool, dirty, late, counters, user, stats>>

\* The hits, in unsigned arithmetic, and whether their rate is below the target.
Hits == IF read.gets = 0 THEN 0 ELSE (read.gets + Width - read.news) % Width
Cold == 100 * Hits < Target * read.gets

Optimize ==
  /\ opt = "decide" /\ opt' = "idle"
  /\ IF Cold /\ read.gets > MinGets
     THEN \E N \in SUBSET Unused :    \* what sync.Pool keeps of the new objects
            /\ Cardinality(N) <= Extra /\ pool' = pool \union N
            /\ dirty' = [o \in Objects |-> IF o \in N THEN {} ELSE dirty[o]]
     ELSE UNCHANGED <<pool, dirty>>
  /\ UNCHANGED <<late, counters, user, read, stats>>

Step(u) == \/ Get(u) \/ Take(u) \/ New(u) \/ Use(u) \/ Share(u)
           \/ Put(u) \/ Reset(u) \/ PutBack(u)

Next == \/ \E u \in Users : Step(u)
        \/ UseLate \/ Collect \/ LoadGets \/ LoadNews \/ Optimize

Spec == Init /\ [][Next]_vars
-----------------------------------------------------------------------------
\* In the fields that resetFunc clears, what Get returns carries nothing of an
\* earlier use: Put resets an object before anyone else can get it.  This fails
\* only for an object that its user shared with a goroutine it did not wait for.
\* (The engine's resetFunc of requests clears neither header fields nor query.)
CleanOnGet == \A o \in pool \ late : dirty[o] \intersect Cleared = {}

\* An object is in the hands of one user of Get and Put, or in the pool, and not
\* both.
OneOwner ==
  /\ \A u \in Users : obj[u] \notin pool
  /\ \A u, v \in Users : u # v /\ obj[u] = obj[v] => obj[u] = NoObject
=============================================================================

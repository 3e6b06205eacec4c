------------------------------ MODULE Routers ------------------------------
(***************************************************************************)
(* The three routers of core/router with the same routes.  They have the   *)
(* same Add and Find, and an application may use any of them: every call   *)
(* of Add goes to all three, so that each can be compared with what the    *)
(* patterns mean (RoutePattern).  Only the compiled router changes its     *)
(* state in Find.                                                          *)
(***************************************************************************)
EXTENDS RoutePattern

CONSTANTS Methods, GET, Routes, Paths, HealthPath, PingPath,
          Hot,                 \* the paths that are looked up between calls of Add
          MaxAdds              \* bound on the calls of Add

VARIABLES
  root, order,                                            \* RadixRouter
  healthHandler, pingHandler, staticMap, paramRoutes, radix, \* FastRouter
  staticRoutes, segmentTree, wildcardRoutes, cache,       \* CompiledRouter
  added                                                   \* the routes added

Radix    == INSTANCE RadixRouter
Fast     == INSTANCE FastRouter
Compiled == INSTANCE CompiledRouter WITH paramRoutes <- segmentTree

vars == <<Radix!vars, Fast!vars, Compiled!vars>>

Init == Radix!Init /\ Fast!Init /\ Compiled!Init

\* A router whose tree has refused a route with a panic takes no more; the
\* others go on.
Add(m, route) ==
  /\ \/ Radix!Add(m, route)
     \/ root = Radix!Panic /\ UNCHANGED <<root, order>>
  /\ \/ Fast!Add(m, route)
     \/ /\ radix = Fast!Panic
        /\ UNCHANGED <<healthHandler, pingHandler, staticMap, paramRoutes, radix>>
  /\ Compiled!Add(m, route)

\* What only the compiled router does.
Cached(A) == A /\ UNCHANGED <<root, order, healthHandler, pingHandler, staticMap, paramRoutes, radix>>

Next ==
  \/ \E m \in Methods, route \in Routes : Add(m, route)
  \/ \E m \in Methods, path \in Hot : Cached(Compiled!Find(m, path))
  \/ Cached(Compiled!ClearCache)
Spec == Init /\ [][Next]_vars
-----------------------------------------------------------------------------
Added(m) == {e[2] : e \in {d \in added : d[1] = m}}

\* What a pattern has before its first wildcard.
Prefix(route) == SubSeq(route, 1, Radix!WildcardAt(route) - 1)

\* The routes that are not static and begin like the path.
Begins(m, path) == {r \in Added(m) : ~IsStatic(r) /\ IsPrefix(Prefix(r), path)}

\* The static routes were added before the others, and the others were added for
\* different prefixes.
WellOrdered ==
  \A i, j \in 1 .. Len(order) :
    i < j /\ ~IsStatic(order[i][2])
      => /\ ~IsStatic(order[j][2])
         /\ ~IsPrefix(Prefix(order[i][2]), Prefix(order[j][2]))
         /\ ~IsPrefix(Prefix(order[j][2]), Prefix(order[i][2]))

\* With such an order, and so with static routes alone in any order, RadixRouter
\* answers only with a registered route that matches, with its parameters, and
\* finds every static route, however addRoute had to split the edges.  That it
\* finds what a route with a parameter matches is not said, as it does not: a
\* static child that shares its first byte with the value is taken and not left.
SoundWhenOrdered ==
  root # Radix!Panic /\ WellOrdered =>
    \A m \in Methods, p \in Paths :
      /\ Radix!Find(m, p) # NotFound => Radix!Find(m, p) \in Answers(Added(m), p)
      /\ p \in Added(m) => Radix!Find(m, p) # NotFound

\* FastRouter finds a path that a route with one wildcard matches, although the
\* suffix is searched from the left and the list stops at the first fit.  It gives
\* this route, with its parameters, or the static one, unless another route of
\* the list begins like the path: then the first to fit wins, and what it takes
\* for its parameter may contain a slash.
FastComplete ==
  radix # Fast!Panic => \A m \in Methods, p \in Paths :
    (\E r \in Added(m) : (IsStatic(r) \/ Fast!Simple(r)) /\ Matches(r, p)) =>
      /\ Fast!Find(m, p) # NotFound
      /\ Cardinality(Begins(m, p)) <= 1 => Fast!Find(m, p) \in Answers(Added(m), p)

\* Static segments that different routes have at the same place, counted from
\* the beginning, start with different bytes, whatever comes before them.
FirstBytesTell ==
  \A e, f \in added :
    LET r == Compiled!NonEmpty(e[2])  s == Compiled!NonEmpty(f[2]) IN
    \A i \in DOMAIN r \cap DOMAIN s :
      ~IsStatic(e[2]) /\ ~IsStatic(f[2]) /\ r[i] # s[i] => r[i][1] # s[i][1]

\* With such routes, and one name for the parameters of a place, CompiledRouter
\* answers with a registered route that matches, with its parameters.
SoundIfBytesTell ==
  FirstBytesTell => \A m \in Methods, p \in Paths :
    LET found == Compiled!Lookup(m, p).result IN
    found # NotFound /\ ~Contains(Segments(p), <<>>) => found \in Answers(Added(m), p)

\* What CompiledRouter's cache holds for a method and a path is a route that was
\* registered for this method and matches this path, with its parameters, also
\* after routes were added behind it.  Find answers from the cache first, so a
\* static route that was added since does not show until ClearCache.
CachedFits ==
  FirstBytesTell => \A e \in cache :
    \E r \in Added(e.method) :
      Matches(r, e.path) /\ e.result = [handler |-> r, params |-> ParamsOf(r, e.path)]
=============================================================================

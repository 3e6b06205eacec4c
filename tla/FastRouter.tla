----------------------------- MODULE FastRouter -----------------------------
(***************************************************************************)
(* The router of core/router/fast.go: two routes of their own, a hash map  *)
(* for static routes, a list for routes with one wildcard and a radix tree *)
(* for the rest.  The 64-bit hash of method and path is taken to tell the  *)
(* routes apart.                                                           *)
(***************************************************************************)
EXTENDS RadixTree

CONSTANTS Methods, GET, Routes, Paths, HealthPath, PingPath,
          MaxAdds              \* bound on the calls of Add

VARIABLES
  healthHandler, pingHandler,  \* <<>> until set
  staticMap,                   \* the pairs <<method, path>> in the map
  paramRoutes,                 \* the list, in the order of Add
  radix,                       \* the tree
  added

vars == <<healthHandler, pingHandler, staticMap, paramRoutes, radix, added>>

Init ==
  /\ healthHandler = <<>> /\ pingHandler = <<>> /\ staticMap = {}
  /\ paramRoutes = <<>> /\ radix = EmptyNode /\ added = {}

\* The entry of the list: the text before the wildcard, its name, and the text
\* from the next '/' on.
ParamRoute(m, route) ==
  [method |-> m, prefix |-> SubSeq(route, 1, WildcardAt(route) - 1),
   paramName |-> IF IsWildcard(route) THEN From(route, WildcardAt(route) + 1)
                 ELSE Tail(Wildcard(route)),
   suffix |-> IF IsWildcard(route) THEN <<>>
              ELSE From(route, WildcardAt(route) + Len(Wildcard(route))),
   handler |-> route, hasWildcard |-> IsWildcard(route)]

Simple(route) ==
  \/ IsWildcard(route)
  \/ Cardinality({i \in DOMAIN route : route[i] = ":"}) = 1

AddStatic(m, route) ==
  /\ IsStatic(route)
  /\ IF m = GET /\ route = HealthPath
     THEN healthHandler' = route /\ UNCHANGED <<pingHandler, staticMap>>
     ELSE IF m = GET /\ route = PingPath
     THEN pingHandler' = route /\ UNCHANGED <<healthHandler, staticMap>>
     ELSE staticMap' = staticMap \cup {<<m, route>>}
          /\ UNCHANGED <<healthHandler, pingHandler>>
  /\ UNCHANGED <<paramRoutes, radix>>

AddParam(m, route) ==
  /\ ~IsStatic(route) /\ Simple(route)
  /\ paramRoutes' = Append(paramRoutes, ParamRoute(m, route))
  /\ UNCHANGED <<healthHandler, pingHandler, staticMap, radix>>

AddComplex(m, route) ==
  /\ ~IsStatic(route) /\ ~Simple(route)
  /\ radix' = AddTo(radix, m, route)
  /\ UNCHANGED <<healthHandler, pingHandler, staticMap, paramRoutes>>

Add(m, route) ==
  /\ radix # Panic /\ Cardinality(added) < MaxAdds /\ <<m, route>> \notin added
  /\ AddStatic(m, route) \/ AddParam(m, route) \/ AddComplex(m, route)
  /\ added' = added \cup {<<m, route>>}
-----------------------------------------------------------------------------
\* strings.Index and stringHasSuffix of the suffix: it occurs after the prefix,
\* and the path ends with it.
SuffixFits(r, path) ==
  /\ \E t \in Suffixes(From(path, Len(r.prefix) + 1)) : IsPrefix(r.suffix, t)
  /\ IsSuffix(r.suffix, path)

\* The value ends where the suffix occurs first.
End(r, path) ==
  IF r.hasWildcard \/ r.suffix = <<>> THEN Len(path)
  ELSE Len(r.prefix) + IndexFirstSubSeq(r.suffix, From(path, Len(r.prefix) + 1)) - 1

Value(r, path) == SubSeq(path, Len(r.prefix) + 1, End(r, path))

\* Mutant: the search ends at the first prefix that fits.
findParamRouteFast_Stops(m, path) ==
  LET i == SelectInSeq(paramRoutes, LAMBDA r : r.method = m /\ IsPrefix(r.prefix, path))
      r == paramRoutes[i]
  IN  IF i = 0 THEN NotFound ELSE IF ~SuffixFits(r, path) THEN NotFound
      ELSE [handler |-> r.handler, params |-> {<<r.paramName, Value(r, path)>>}]

\* The first route of the list whose method, prefix and suffix fit.
findParamRouteFast(m, path) ==
  LET i == SelectInSeq(paramRoutes, LAMBDA r :
             r.method = m /\ IsPrefix(r.prefix, path) /\ SuffixFits(r, path))
      r == paramRoutes[i]
  IN  IF i = 0 THEN NotFound
      ELSE [handler |-> r.handler, params |-> {<<r.paramName, Value(r, path)>>}]

Find(m, path) ==
  LET found(h) == [handler |-> h, params |-> {}] IN
  IF healthHandler # <<>> /\ path = HealthPath /\ m = GET THEN found(healthHandler)
  ELSE IF pingHandler # <<>> /\ path = PingPath /\ m = GET THEN found(pingHandler)
  ELSE IF <<m, path>> \in staticMap THEN found(path)
  ELSE IF findParamRouteFast(m, path) # NotFound THEN findParamRouteFast(m, path)
  ELSE getValue(radix, path, m, {})
=============================================================================

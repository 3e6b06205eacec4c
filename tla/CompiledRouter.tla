--------------------------- MODULE CompiledRouter ---------------------------
(***************************************************************************)
(* The router of core/router/compiled.go: a map for static routes, a tree  *)
(* of segments for routes with parameters, a list of wildcard routes, and  *)
(* a cache of what Find returned.                                          *)
(***************************************************************************)
EXTENDS RoutePattern

CONSTANTS Methods, Routes, Paths,
          MaxAdds              \* bound on the calls of Add

VARIABLES
  staticRoutes,        \* the pairs <<method, path>> in the map
  paramRoutes,         \* the root of the tree
  wildcardRoutes,      \* <<method, pattern>> in the order of Add
  cache,               \* the records [method, path, result] in the cache
  added

vars == <<staticRoutes, paramRoutes, wildcardRoutes, cache, added>>

\* A node: staticChildren, by the first byte of their segment; at most one
\* paramChild; a set of pairs <<method, pattern>>.
Node(segment, paramName) ==
  [segment |-> segment, paramName |-> paramName, staticChildren |-> <<>>,
   paramChild |-> <<>>, handlers |-> {}]

Init ==
  /\ staticRoutes = {} /\ paramRoutes = Node(<<>>, <<>>) /\ wildcardRoutes = <<>>
  /\ cache = {} /\ added = {}

NonEmpty(path) == SelectSeq(Segments(path), LAMBDA s : s # <<>>)

\* The child in the array at the segment's first byte, 0 if there is none.
\* Whose segment that child has is not looked at.
ChildAt(n, seg) == SelectInSeq(n.staticChildren, LAMBDA c : c.segment[1] = seg[1])

ParamChild(n, seg) ==
  IF n.paramChild # <<>> THEN n.paramChild ELSE <<Node(<<>>, Tail(seg))>>

RECURSIVE addParamRoute(_, _, _, _)
addParamRoute(n, segs, m, h) ==
  LET seg == Head(segs)
      k == ChildAt(n, seg)
  IN  IF segs = <<>>
      THEN [n EXCEPT !.handlers = {e \in @ : e[1] # m} \cup {<<m, h>>}]
      ELSE IF IsParam(seg)
      THEN [n EXCEPT !.paramChild =
              <<addParamRoute(ParamChild(n, seg)[1], Tail(segs), m, h)>>]
      ELSE IF k # 0
      THEN [n EXCEPT !.staticChildren[k] = addParamRoute(@, Tail(segs), m, h)]
      ELSE [n EXCEPT !.staticChildren =
              Append(@, addParamRoute(Node(seg, <<>>), Tail(segs), m, h))]

\* Mutant: the first byte decides.
TakesStatic_ByByte(n, seg) == ChildAt(n, seg) # 0

TakesStatic(n, seg) ==
  ChildAt(n, seg) # 0 /\ n.staticChildren[ChildAt(n, seg)].segment = seg

\* No way back: a static child that fits is taken, and then its parameter
\* sibling is not tried.
RECURSIVE findParamRoute(_, _, _, _)
findParamRoute(n, segs, m, params) ==
  LET seg == Head(segs)
      hs == {e[2] : e \in {d \in n.handlers : d[1] = m}}
      child == n.paramChild[1]
  IN  IF segs = <<>>
      THEN IF hs = {} THEN NotFound
           ELSE [handler |-> CHOOSE h \in hs : TRUE, params |-> params]
      ELSE IF TakesStatic(n, seg)
      THEN findParamRoute(n.staticChildren[ChildAt(n, seg)], Tail(segs), m, params)
      ELSE IF n.paramChild = <<>> THEN NotFound
      ELSE findParamRoute(child, Tail(segs), m,
             {p \in params : p[1] # child.paramName} \cup {<<child.paramName, seg>>})

Star(route) == SelectInSeq(route, LAMBDA ch : ch = "*")

findWildcardRoute(m, path) ==
  LET i == SelectInSeq(wildcardRoutes, LAMBDA e :
             e[1] = m /\ IsPrefix(SubSeq(e[2], 1, Star(e[2]) - 1), path))
      r == wildcardRoutes[i][2]
  IN  IF i = 0 THEN NotFound
      ELSE [handler |-> r, params |-> {<<SubSeq(r, Star(r) + 1, Len(r)),
                                        SubSeq(path, Star(r), Len(path))>>}]

\* Find behind the cache: what it returns, and whether it is cached.
Lookup(m, path) ==
  LET tree == findParamRoute(paramRoutes, NonEmpty(path), m, {}) IN
  IF <<m, path>> \in staticRoutes
  THEN [result |-> [handler |-> path, params |-> {}], cached |-> TRUE]
  ELSE IF tree # NotFound THEN [result |-> tree, cached |-> TRUE]
  ELSE [result |-> findWildcardRoute(m, path), cached |-> FALSE]
-----------------------------------------------------------------------------
Add(m, route) ==
  /\ Cardinality(added) < MaxAdds /\ <<m, route>> \notin added
  /\ \/ /\ IsStatic(route) /\ staticRoutes' = staticRoutes \cup {<<m, route>>}
        /\ UNCHANGED <<paramRoutes, wildcardRoutes>>
     \/ /\ IsWildcard(route) /\ wildcardRoutes' = Append(wildcardRoutes, <<m, route>>)
        /\ UNCHANGED <<staticRoutes, paramRoutes>>
     \/ /\ ~IsStatic(route) /\ ~IsWildcard(route)
        /\ paramRoutes' = addParamRoute(paramRoutes, NonEmpty(route), m, route)
        /\ UNCHANGED <<staticRoutes, wildcardRoutes>>
  /\ added' = added \cup {<<m, route>>}
  /\ UNCHANGED cache

\* Mutant: the method is left out of the key of the cache.
Find_PathKey(m, path) ==
  LET hit == {e \in cache : e.path = path} IN
  /\ cache' = IF hit = {} /\ Lookup(m, path).cached
              THEN {[method |-> n, path |-> path, result |-> Lookup(m, path).result] :
                      n \in Methods}
              ELSE cache
  /\ UNCHANGED <<staticRoutes, paramRoutes, wildcardRoutes, added>>

\* Find caches what it found, unless it is there or from a wildcard route.
Find(m, path) ==
  LET hit == {e \in cache : e.method = m /\ e.path = path} IN
  /\ cache' = IF hit = {} /\ Lookup(m, path).cached
              THEN cache \cup {[method |-> m, path |-> path,
                                result |-> Lookup(m, path).result]}
              ELSE cache
  /\ UNCHANGED <<staticRoutes, paramRoutes, wildcardRoutes, added>>

ClearCache ==
  /\ cache' = {}
  /\ UNCHANGED <<staticRoutes, paramRoutes, wildcardRoutes, added>>
=============================================================================

---------------------------- MODULE RoutePattern ----------------------------
(***************************************************************************)
(* What a route pattern means, as the routers' callers use it              *)
(* ("/users/:id" matches one segment): the reference the three routers of  *)
(* core/router are compared with.  Paths are sequences of characters.      *)
(***************************************************************************)
EXTENDS Naturals, Sequences, FiniteSets, SequencesExt

NotFound == [handler |-> <<>>, params |-> {}]

\* strings.Split(path[1:], "/")
Segments(path) ==
  FoldLeft(LAMBDA acc, ch : IF ch = "/" THEN Append(acc, <<>>)
                            ELSE [acc EXCEPT ![Len(acc)] = Append(@, ch)],
           << <<>> >>, Tail(path))

IsParam(seg)  == seg # <<>> /\ Head(seg) = ":"
IsStatic(path) == ~Contains(path, ":") /\ ~Contains(path, "*")
IsWildcard(path) == Contains(path, "*")

SegMatches(seg, val) == seg = val \/ (IsParam(seg) /\ val # <<>>)

Matches(route, path) ==
  LET r == Segments(route)  p == Segments(path) IN
  IF IsWildcard(route)
  THEN Len(p) >= Len(r) /\ \A i \in 1 .. Len(r) - 1 : SegMatches(r[i], p[i])
  ELSE Len(p) = Len(r) /\ \A i \in 1 .. Len(r) : SegMatches(r[i], p[i])

ParamsOf(route, path) ==
  LET r == Segments(route)  p == Segments(path) IN
  {<<Tail(r[i]), p[i]>> : i \in {j \in 1 .. Len(r) : IsParam(r[j])}}
    \cup {<<Tail(Last(r)), FlattenSeq([i \in 1 .. 2 * (Len(p) - Len(r)) + 1 |->
              IF i % 2 = 0 THEN <<"/">> ELSE p[Len(r) + (i \div 2)]])>> :
            w \in {v \in {route} : IsWildcard(v)}}

\* The answers a router may give for a path, with these routes registered for
\* the method: the route itself if it is static, else any route that matches.
Answers(routes, path) ==
  LET fits == {r \in routes : Matches(r, path)} IN
  IF path \in fits THEN {[handler |-> path, params |-> {}]}
  ELSE {[handler |-> r, params |-> ParamsOf(r, path)] : r \in fits}
=============================================================================

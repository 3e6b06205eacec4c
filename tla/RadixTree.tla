----------------------------- MODULE RadixTree -----------------------------
(***************************************************************************)
(* The tree of core/router/radix.go.  A node is a record; a method's       *)
(* handler is the pattern it was added for.  The loops that walk down the  *)
(* tree are recursive operators that return the changed subtree; priority, *)
(* which nothing reads, is left out.                                       *)
(***************************************************************************)
EXTENDS RoutePattern

\* handlers: a set of pairs <<method, pattern>>, at most one for a method
Node(path, indices, children, handlers, nType, paramName) ==
  [path |-> path, indices |-> indices, children |-> children,
   handlers |-> handlers, nType |-> nType, paramName |-> paramName]

EmptyNode == Node(<<>>, <<>>, <<>>, {}, "static", <<>>)
Panic == [EmptyNode EXCEPT !.nType = "panic"]

From(s, i) == SubSeq(s, i, Len(s))

longestCommonPrefix(a, b) == Len(LongestCommonPrefix({a, b}))

\* n.handlers[method] = handler
SetHandler(n, m, h) ==
  [n EXCEPT !.handlers = {e \in @ : e[1] # m} \cup {<<m, h>>}]

Handler(n, m) == {e[2] : e \in {d \in n.handlers : d[1] = m}}

\* findWildcard: where the first ':' or '*' is (0: nowhere), and the wildcard that
\* starts there, up to the next '/'.
WildcardAt(path) == SelectInSeq(path, LAMBDA ch : ch \in {":", "*"})

\* Mutant: the wildcard reaches to the end of the pattern.
Wildcard_ToEnd(path) == From(path, WildcardAt(path))

Wildcard(path) ==
  LET i == WildcardAt(path)
      slash == SelectInSubSeq(path, i, Len(path), LAMBDA ch : ch = "/")
  IN  SubSeq(path, i, IF slash = 0 THEN Len(path) ELSE slash - 1)

ValidWildcard(w) == Len(w) >= 2 /\ ~Contains(Tail(w), ":") /\ ~Contains(Tail(w), "*")

addChild(n, child) ==
  IF child = Panic THEN Panic ELSE [n EXCEPT !.children = Append(@, child)]

RECURSIVE insertChild(_, _, _, _)
insertChild(n, path, m, h) ==
  LET i == WildcardAt(path)  w == Wildcard(path)
      prefix == SubSeq(path, 1, i - 1)
      n1 == IF i > 1 THEN [n EXCEPT !.path = prefix] ELSE n
      rest == From(path, i + Len(w))
      pnode == Node(w, <<>>, <<>>, {}, "param", Tail(w))
  IN  IF i = 0 THEN SetHandler([n EXCEPT !.path = path], m, h)
      ELSE IF ~ValidWildcard(w) THEN Panic
      ELSE IF w[1] = ":"
      THEN IF rest = <<>> THEN addChild(n1, SetHandler(pnode, m, h))
           ELSE addChild(n1, addChild(pnode, insertChild(EmptyNode, rest, m, h)))
      ELSE IF rest = <<>> /\ n.path # <<>> /\ Last(n.path) = "/"
      THEN addChild([n EXCEPT !.path = prefix],
                    Node(w, <<>>, <<>>, {<<m, h>>}, "catchAll", Tail(w)))
      ELSE Panic

\* Split edge: what follows the common prefix becomes a child, without the
\* node's paramName.
Split(n, i) ==
  IF i < Len(n.path)
  THEN Node(SubSeq(n.path, 1, i), <<n.path[i + 1]>>,
            <<Node(From(n.path, i + 1), n.indices, n.children, n.handlers,
                   n.nType, <<>>)>>, {}, "static", n.paramName)
  ELSE n

\* The place in children that the next byte's place in indices stands for.
ChildFor(n, ch) == SelectInSeq(n.indices, LAMBDA c : c = ch)

RECURSIVE addRoute(_, _, _, _)
addRoute(n0, path0, m, h) ==
  LET i == longestCommonPrefix(path0, n0.path)
      n == Split(n0, i)
      path == From(path0, i + 1)
      k == ChildFor(n, Head(path))
      child == addRoute(n.children[k], path, m, h)
  IN  IF path = <<>> THEN SetHandler(n, m, h)
      ELSE IF n.nType = "param" THEN addRoute(n, path, m, h)
      ELSE IF k # 0
      THEN IF child = Panic THEN Panic ELSE [n EXCEPT !.children[k] = child]
      ELSE IF Head(path) \notin {":", "*"}
      THEN addChild([n EXCEPT !.indices = Append(@, Head(path))],
                    insertChild(EmptyNode, path, m, h))
      ELSE insertChild(n, path, m, h)

RECURSIVE getValue(_, _, _, _)
getValue(n, path, m, params) ==
  LET rest == From(path, Len(n.path) + 1)
      k == ChildFor(n, Head(rest))
      last == Last(n.children)
      slash == SelectInSeq(rest, LAMBDA ch : ch = "/")
      end == IF slash = 0 THEN Len(rest) ELSE slash - 1
      value == IF last.nType = "catchAll" THEN rest ELSE SubSeq(rest, 1, end)
      params1 == {p \in params : p[1] # last.paramName} \cup {<<last.paramName, value>>}
      found(node, ps) == IF Handler(node, m) = {} THEN NotFound
                         ELSE [handler |-> CHOOSE x \in Handler(node, m) : TRUE,
                               params |-> ps]
  IN  IF Len(path) > Len(n.path) /\ IsPrefix(n.path, path)
      THEN IF k # 0 THEN getValue(n.children[k], rest, m, params)
           ELSE IF n.children = <<>> \/ last.nType = "static" THEN NotFound
           ELSE IF last.nType = "catchAll" \/ end = Len(rest) THEN found(last, params1)
           ELSE IF last.children = <<>> THEN NotFound
           ELSE getValue(last.children[1], From(rest, end + 1), m, params1)
      ELSE IF path = n.path THEN found(n, params) ELSE NotFound

\* Add: the empty tree takes the route as its root.
AddTo(root, m, route) ==
  IF root.path = <<>> /\ root.children = <<>>
  THEN insertChild(root, route, m, route) ELSE addRoute(root, route, m, route)
=============================================================================

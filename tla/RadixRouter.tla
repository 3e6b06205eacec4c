---------------------------- MODULE RadixRouter ----------------------------
(***************************************************************************)
(* The router of core/router/radix.go, which the engine uses: routes      *)
(* are added to the tree one by one, in any order.                         *)
(***************************************************************************)
EXTENDS RadixTree

CONSTANTS Methods, Routes, Paths,
          MaxAdds              \* bound on the calls of Add

VARIABLES
  root,      \* RadixRouter.root, or Panic
  order      \* the routes added, <<method, pattern>>, in the order of Add

vars == <<root, order>>

Find(m, path) == getValue(root, path, m, {})
-----------------------------------------------------------------------------
Init == root = EmptyNode /\ order = <<>>

Add(m, route) ==
  /\ root # Panic /\ Len(order) < MaxAdds /\ <<m, route>> \notin ToSet(order)
  /\ root' = AddTo(root, m, route)
  /\ order' = Append(order, <<m, route>>)
=============================================================================

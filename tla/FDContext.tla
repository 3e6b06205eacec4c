----------------------------- MODULE FDContext ------------------------------
(***************************************************************************)
(* The context a handler is given, core/http/context_fd.go, as operators   *)
(* on the value of one: the request, the parameters (Slots of them in the  *)
(* fixed array, the others in the overflow map), the response headers and  *)
(* the aborted flag.  A response is what its bytes say: the status, the    *)
(* header names and the body.                                              *)
(***************************************************************************)
EXTENDS Naturals, Sequences, FiniteSets, FiniteSetsExt

CONSTANTS NoReq,               \* a nil request
          Keys,                \* names of parameters
          Slots                \* length of paramKeys and paramValues

ASSUME FDContextAssumption == Slots \in Nat

\* A value of FDContext; 0 is the empty string for a parameter.
NewFDContext(req) ==
  [request |-> req, slots |-> <<>>, overflow |-> [k \in Keys |-> 0],
   headers |-> {}, status |-> 200, aborted |-> FALSE]

Reset_KeepsOverflow(c, req) ==
  [c EXCEPT !.request = req, !.slots = <<>>, !.headers = {},
            !.status = 200, !.aborted = FALSE]

Reset(c, req) ==
  [c EXCEPT !.request = req, !.slots = <<>>, !.overflow = [k \in Keys |-> 0],
            !.headers = {}, !.status = 200, !.aborted = FALSE]

SetParam(c, key, value) ==
  IF Len(c.slots) < Slots
    THEN [c EXCEPT !.slots = Append(@, <<key, value>>)]
    ELSE [c EXCEPT !.overflow[key] = value]

\* The first slot with the key, else the overflow map.
Param(c, key) ==
  LET I == {i \in DOMAIN c.slots : c.slots[i][1] = key} IN
    IF I # {} THEN c.slots[Min(I)][2] ELSE c.overflow[key]

SetHeader(c, header) == [c EXCEPT !.headers = @ \union {header}]
Status(c, code)      == [c EXCEPT !.status = code]
Abort(c)             == [c EXCEPT !.aborted = TRUE]

\* String, Bytes, Data and JSON lay the response out afresh, from their
\* arguments alone.
Response(code, body) ==
  [code |-> code, headers |-> {"Content-Type", "Content-Length"}, body |-> body]
String(c, code, s) == Response(code, s)
JSON(c, code, v)   == Response(code, v)
=============================================================================

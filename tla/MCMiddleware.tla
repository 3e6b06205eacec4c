---------------------------- MODULE MCMiddleware ----------------------------
(* Instances of Middleware for TLC. *)
EXTENDS Middleware, TLC

CONSTANTS r1, r2, r3, r4, k1, k2

\* One request fills the slots and the overflow map, the others have no
\* parameters.
MCParamsOf == [r \in Requests |-> IF r = r1 THEN {k1, k2} ELSE {}]

MCSync     == <<"Recovery", "CORS", "RateLimiter", "RequestID">>
MCAsync    == <<"Logger", "Metrics">>
=============================================================================

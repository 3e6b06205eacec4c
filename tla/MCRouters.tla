----------------------------- MODULE MCRouters -----------------------------
(* The routes and paths for model checking Routers.                        *)
EXTENDS Routers

MCHealth == <<"/", "h">>
MCPing   == <<"/", "p">>

\* Static routes that are prefixes of each other or part at any byte, one
\* parameter at the end or before a suffix, a wildcard, and two parameters.
MCRoutes == {MCHealth, MCPing, <<"/">>, <<"/", "a">>, <<"/", "a", "b">>, <<"/", "a", "/", "b">>,
             <<"/", "a", "/", ":", "x">>, <<"/", "a", "/", ":", "x", "/", "b">>,
             <<"/", "b", "/", ":", "x", "/", "a">>, <<"/", "b", "/", "*", "y">>,
             <<"/", ":", "x", "/", "a", "/", ":", "y">>}

\* Every path of at most three characters of "/", "a" and "b", and some longer.
MCPaths  == {<<"/">> \o s : s \in BoundedSeq({"/", "a", "b"}, 2)}
              \cup {MCHealth, MCPing, <<"/", "a", "/", "b">>, <<"/", "a", "/", "a">>,
                    <<"/", "a", "b", "/", "b">>, <<"/", "b", "/", "a">>, <<"/", "b", "/", "b", "/", "a">>,
                    <<"/", "b", "/", "a", "/", "b">>, <<"/", "a", "/", "a", "/", "b">>,
                    <<"/", "a", "/", "b", "/", "b", "/", "b">>}
MCHot    == {<<"/", "a", "/", "b">>, <<"/", "b", "/", "b", "/", "a">>}
=============================================================================

----------------------------- MODULE MCReadLoop -----------------------------
(* Instances of ReadLoop for TLC. *)
EXTENDS ReadLoop

Message(paths, queries, protos, headers) ==
  [method : {"GET"}, path : paths, query : queries, proto : protos,
   headers : headers, body : {<<>>}]

Query == <<<<"k", "v">>>>
Host  == <<"Host", "h">>
Close == <<"Connection", "close">>

\* Without a body; some of them longer than the longest that fits, some of the
\* older protocol, some without a header field.
MCMessages ==
  Message({"/a", "/b"}, {<<>>, Query}, {"HTTP/1.1"},
          {<<Host>>, <<Close>>, <<Host, Close>>, <<Host, Host, Host>>})
  \union Message({"/a"}, {<<>>}, {"HTTP/1.0", "HTTP/1.1"}, {<<>>, <<Host>>})
MCFits     == Len(Encode(CHOOSE m \in MCMessages :
                            m.query = Query /\ m.headers = <<Host, Close>>))
=============================================================================

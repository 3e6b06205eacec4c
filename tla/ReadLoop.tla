------------------------------ MODULE ReadLoop ------------------------------
(***************************************************************************)
(* One connection of the engine with its bytes: handleRead, processRequest *)
(* and checkKeepAlive of core/engine.go over the parser of core/http.      *)
(* Engine has the life cycle of connections and counts bytes; here the     *)
(* bytes are those of the client's messages, a read may end anywhere, and  *)
(* every parse uses a pooled Request again or a new one.                   *)
(***************************************************************************)
EXTENDS RequestParser

CONSTANTS Messages, MaxSends,  \* what the client may send, and how often
          Routes,              \* the paths that have a handler
          BufLen               \* of readBuf (8192)

ASSUME ReadLoopAssumption == BufLen \in Nat \ {0}

VARIABLES
  sends,        \* the messages sent so far
  net,          \* bytes sent and not read
  buf,          \* readBuf[:readOffset]
  req,          \* the Request in requestPool
  open,         \* the engine has not closed the connection
  handled,      \* per request parsed: did it show the message sent
  responses     \* per response: its status, and whether it has a Content-Length

vars == <<sends, net, buf, req, open, handled, responses>>

Init == /\ sends = <<>> /\ net = <<>> /\ buf = <<>> /\ req = NewRequest
        /\ open = TRUE /\ handled = <<>> /\ responses = <<>>
-----------------------------------------------------------------------------
\* The client knows that a response is complete by its length.
Complete == Len(responses) = Len(sends) /\ \A k \in DOMAIN responses : responses[k].length

Send ==
  /\ open /\ Len(sends) < MaxSends /\ Complete
  /\ \E m \in Messages : sends' = Append(sends, m) /\ net' = net \o Encode(m)
  /\ UNCHANGED <<buf, req, open, handled, responses>>

\* The response of a handler has its length, that of sendError has not.
Respond(status) == Append(responses, [status |-> status, length |-> status = 200])

\* processRequest and checkKeepAlive, for a request in buffer b.  A connection
\* that is kept releases its request; one that is closed gives it elsewhere.
processRequest(r, b) ==
  LET k == Len(handled) + 1 IN
    /\ handled' = Append(handled, k <= Len(sends) /\ Shows(r, b, sends[k]))
    /\ responses' = Respond(IF Text(b, r.path) \in {<<p>> : p \in Routes} THEN 200 ELSE 404)
    /\ open' = /\ Text(b, r.proto) # <<"HTTP/1.0">>
                /\ << <<"Connection">>, <<"close">> >> \notin r.headers
    /\ req' = IF open' THEN Reset(r) ELSE NewRequest
    /\ buf' = <<>>

Overflow_Early(b) ==
  /\ buf' = b /\ UNCHANGED handled
  /\ IF Len(b) >= BufLen - 1 THEN open' = FALSE /\ responses' = Respond(400)
     ELSE UNCHANGED <<open, responses>>

\* The buffer is full of what is no request: 400 and close.
Overflow(b) ==
  /\ buf' = b /\ UNCHANGED handled
  /\ IF Len(b) >= BufLen THEN open' = FALSE /\ responses' = Respond(400)
     ELSE UNCHANGED <<open, responses>>

\* A panic of the parser ends the process.
Crash == open' = FALSE /\ buf' = <<>> /\ UNCHANGED <<req, handled, responses>>

handleRead_Discards ==
  /\ open /\ net # <<>>
  /\ \E n \in 1..Min({Len(net), BufLen - Len(buf)}), q \in {req, NewRequest} :
       LET b == buf \o SubSeq(net, 1, n)
           p == ParseRequest(q, b)
       IN /\ net' = From(net, n + 1)
          /\ IF p.kind = "ok" THEN processRequest(p.req, b)
             ELSE buf' = <<>> /\ req' = p.req /\ UNCHANGED <<handled, open, responses>>
  /\ UNCHANGED sends

handleRead ==
  /\ open /\ net # <<>>
  /\ \E n \in 1..Min({Len(net), BufLen - Len(buf)}), q \in {req, NewRequest} :
       LET b == buf \o SubSeq(net, 1, n)
           p == ParseRequest(q, b)
       IN /\ net' = From(net, n + 1)
          /\ CASE p.kind = "ok" -> processRequest(p.req, b)
               [] p.kind = "invalid" -> Overflow(b) /\ req' = p.req
               [] p.kind = "panic" -> Crash
  /\ UNCHANGED sends

Next == Send \/ handleRead

Spec == Init /\ [][Next]_vars

\* The loop serves a connection with data to read: weak fairness of
\* handleRead, which is enabled while the connection is open and has data.
FairSpec == Spec /\ (<>[](open /\ net # <<>>) => []<><<handleRead>>_vars)
-----------------------------------------------------------------------------
Closing(m) == m.proto = "HTTP/1.0" \/ <<"Connection", "close">> \in ToSet(m.headers)

\* "Partial request, wait for more data": wherever the reads cut it, a
\* handler is given the request that was sent, and nothing of the one that was
\* parsed into the same Request before.
HandledAsSent == \A k \in DOMAIN handled : handled[k]

\* The engine closes a connection for a request that asked for it (also by its
\* protocol, HTTP/1.0) or that is longer than the buffer, and a request that just
\* fits is not refused.  Without a header field a shorter one is not closed for
\* anything that it asks: the parser does not take it.
ClosedWithReason == ~open => LET m == Last(sends) IN
  IF Len(Encode(m)) > BufLen THEN Last(responses).status = 400
  ELSE m.headers # <<>> /\ Closing(m) /\ Last(responses).status # 400

\* A request that has a header field is answered, or the connection closed,
\* wherever the reads cut it.  One that has none, as a client of HTTP/1.0 may
\* send it, is not: after its request line parser.go:63-69 looks for two line
\* ends in a row, of which the first has gone with the line, and handleRead
\* waits for more.
Answered ==
  \A k \in 1..MaxSends :
    (Len(sends) >= k /\ sends[k].headers # <<>>) ~> (Len(responses) >= k \/ ~open)
=============================================================================

--------------------------- MODULE RequestParser ----------------------------
(***************************************************************************)
(* ParseRequest of core/http/parser.go and the Request of                  *)
(* core/http/request.go, as operators.  A byte sequence is a sequence of   *)
(* the delimiters below and of words, each word standing for a run of      *)
(* other bytes.  Method, Path and Proto are strings that share memory with *)
(* the buffer (unsafeString): here they are places in it, and what they    *)
(* say is read from the buffer as it is by then.                           *)
(***************************************************************************)
EXTENDS Naturals, Sequences, FiniteSets, SequencesExt, FiniteSetsExt

LF == "\n"
CR == "\r"
SP == " "

None == <<1, 0>>                           \* the empty string
Text(buf, place) == SubSeq(buf, place[1], place[2])

\* bytes.IndexByte, counting from 1, and 0 for not found.
IndexByte(s, b) == SelectInSeq(s, LAMBDA c : c = b)
Find(s, sub)    ==
  LET I == {i \in 1..(Len(s) - Len(sub) + 1) : SubSeq(s, i, i + Len(sub) - 1) = sub} IN
    IF I = {} THEN 0 ELSE Min(I)
From(s, i)      == SubSeq(s, i, Len(s))

\* bytes.Split on one byte.
Split(s, b) ==
  FoldLeft(LAMBDA parts, c : IF c = b THEN Append(parts, <<>>)
                             ELSE [parts EXCEPT ![Len(parts)] = Append(@, c)],
           <<<<>>>>, s)

TrimSpace(s) ==
  LET I == {i \in DOMAIN s : s[i] \notin {SP, CR, LF}} IN
    IF I = {} THEN <<>> ELSE SubSeq(s, Min(I), Max(I))

DropCR(s) == IF s # <<>> /\ Last(s) = CR THEN Front(s) ELSE s

\* Maps with string keys: header and query fields, the later value winning.
Put(map, key, value) == {p \in map : p[1] # key} \union {<<key, value>>}
-----------------------------------------------------------------------------
(* The Request object.  headers holds the predefined fields and those of   *)
(* ExtraHeaders: SetHeader files each key in one of the two.               *)

NewRequest == [method |-> None, path |-> None, proto |-> None,
               headers |-> {}, query |-> {}, body |-> <<>>]

Reset_KeepsQuery(r) == [NewRequest EXCEPT !.query = r.query]

Reset(r) == NewRequest

SetHeader(r, key, value) == [r EXCEPT !.headers = Put(@, key, value)]

\* The lines up to the first empty one, each cut at its first colon.
parseHeaders(r, data) ==
  LET lines == [i \in DOMAIN Split(data, LF) |-> DropCR(Split(data, LF)[i])]
      empty == SelectInSeq(lines, LAMBDA l : l = <<>>)
      used  == IF empty = 0 THEN lines ELSE SubSeq(lines, 1, empty - 1)
      Set(q, l) == LET colon == IndexByte(l, ":") IN
                     IF colon <= 1 THEN q
                     ELSE SetHeader(q, TrimSpace(SubSeq(l, 1, colon - 1)),
                                       TrimSpace(From(l, colon + 1)))
  IN FoldLeft(Set, r, used)

\* The path without its query, and the pairs of the query.
parseQuery(r, data, idx) ==
  LET pairs == Split(SubSeq(data, idx + 1, r.path[2]), "&")
      Set(q, pair) == LET eq == IndexByte(pair, "=") IN
                        [q EXCEPT !.query =
                           IF eq = 0 THEN Put(@, pair, <<>>)
                           ELSE Put(@, SubSeq(pair, 1, eq - 1), From(pair, eq + 1))]
  IN FoldLeft(Set, [r EXCEPT !.path[2] = idx - 1], pairs)

\* A parse ends with a request, with ErrInvalidRequest (the request having
\* been released), or with the panic of line[len(line)-1] on an empty line.
Parsed(r)  == [kind |-> "ok", req |-> r]
Invalid(r) == [kind |-> "invalid", req |-> Reset(r)]
Panic(r)   == [kind |-> "panic", req |-> r]

\* Query parameters, when the path has a question mark.
WithQuery(r, data) ==
  LET idx == SelectInSubSeq(data, r.path[1], r.path[2], LAMBDA c : c = "?") IN
    IF idx = 0 THEN r ELSE parseQuery(r, data, idx)

\* Headers and body: what follows the first blank line.  Where the blank
\* line is LF LF, the headers are not parsed.
Rest(r, data) ==
  LET crlf == Find(data, <<CR, LF, CR, LF>>)
      lf   == Find(data, <<LF, LF>>)
      Body(q, b) == IF b = <<>> THEN q ELSE [q EXCEPT !.body = b]
  IN IF crlf # 0 THEN Parsed(Body(parseHeaders(r, SubSeq(data, 1, crlf - 1)),
                                  From(data, crlf + 4)))
     ELSE IF lf # 0 THEN Parsed(Body(r, From(data, lf + 2)))
     ELSE Invalid(r)

ParseRequest(r, data) ==
  LET lineEnd == IndexByte(data, LF)
      line    == DropCR(SubSeq(data, 1, lineEnd - 1))
      sp1     == IndexByte(line, SP)
      sp2     == SelectInSubSeq(line, sp1 + 1, Len(line), LAMBDA c : c = SP)
      first   == [r EXCEPT !.method = <<1, sp1 - 1>>, !.path = <<sp1 + 1, sp2 - 1>>,
                           !.proto = <<sp2 + 1, Len(line)>>]
  IN IF lineEnd = 0 THEN Invalid(r)
     ELSE IF lineEnd = 1 THEN Panic(r)
     ELSE IF sp1 = 0 \/ sp2 = 0 THEN Invalid(r)
     ELSE Rest(WithQuery(first, data), From(data, lineEnd + 1))
-----------------------------------------------------------------------------
(* A request as its client means it, and its bytes on the wire.            *)

Joined(parts, b) ==
  FoldLeft(LAMBDA s, p : IF s = <<>> THEN p ELSE s \o <<b>> \o p, <<>>, parts)

Encode(m) ==
  LET pair(p) == <<p[1], "=", p[2]>>
      query   == IF m.query = <<>> THEN <<>>
                 ELSE <<"?">> \o Joined([i \in DOMAIN m.query |-> pair(m.query[i])], "&")
      header(h) == <<h[1], ":", SP, h[2], CR, LF>>
  IN <<m.method, SP, m.path>> \o query \o <<SP, m.proto, CR, LF>>
     \o FlattenSeq([i \in DOMAIN m.headers |-> header(m.headers[i])])
     \o <<CR, LF>> \o m.body

\* What handlers read from the parsed request, with buf as it is.
Shows(r, buf, m) ==
  /\ Text(buf, r.method) = <<m.method>> /\ Text(buf, r.path) = <<m.path>>
  /\ Text(buf, r.proto) = <<m.proto>>
  /\ r.query = {<< <<p[1]>>, <<p[2]>> >> : p \in ToSet(m.query)}
  /\ r.headers = {<< <<h[1]>>, <<h[2]>> >> : h \in ToSet(m.headers)}
  /\ r.body = m.body
=============================================================================

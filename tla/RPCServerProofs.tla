-------------------------- MODULE RPCServerProofs ---------------------------
(***************************************************************************)
(* Proofs about the RPC server for every number of connections and frames, *)
(* with Shutdown and Register at any moment.  Conns need not be finite.    *)
(***************************************************************************)
EXTENDS RPCServer, FiniteSetTheorems, TLAPS

\* The provers of a leaf that names none: most leaves are first-order.
USE ZenonT(20), SMTT(30), SMTT(60)

\* What conn.Write sends back.
Answers == [id : Nat, type : {"response", "error", "pong"}]

\* What the fields of Server and the locals of its goroutines may hold.
TypeOK ==
  /\ conns \subseteq Conns /\ activeReqs \in Nat /\ shutdown \in BOOLEAN
  /\ sock \in [Conns -> {"none", "backlog", "open", "closed"}]
  /\ asked \in [Conns -> Seq(FrameTypes)] /\ nread \in [Conns -> Nat]
  /\ answered \in [Conns -> Seq(Answers)]
  /\ apc \in {"accept", "track", "returned"} /\ acc \in Conns \cup {NoConn}
  /\ hpc \in [Conns -> InRequest \cup {"none", "read", "enter", "pong", "close",
                                       "untrack", "done"}]
  /\ failed \in [Conns -> BOOLEAN]
  /\ spc \in {"idle", "listener", "snapshot", "close", "wait", "returned",
              "expired"}
  /\ snap \subseteq Conns

\* handleConn runs for the connection.
Running(c) == hpc[c] \notin {"none", "done"}

\* trackConn brackets handleConn: a connection is in conns exactly while its
\* goroutine runs, and Serve holds at most one that has none yet.
Tracked ==
  /\ \A c \in Conns : c \in conns <=> Running(c)
  /\ IF apc = "track" THEN acc \in Conns /\ hpc[acc] = "none" /\ sock[acc] = "open"
     ELSE acc = NoConn

\* A socket opens in Accept and is closed before its connection is untracked.
SocketsSound ==
  \A c \in Conns :
    /\ sock[c] = "open" => Running(c) \/ c = acc
    /\ sock[c] \in {"none", "backlog"} => hpc[c] = "none" /\ c # acc
    /\ hpc[c] \in {"untrack", "done"} => sock[c] = "closed"

\* Shutdown's slice is taken once, of connections that Serve has tracked.
SnapSound ==
  /\ spc \in {"idle", "listener", "snapshot"} => snap = {}
  /\ spc # "idle" => shutdown
  /\ \A c \in snap : hpc[c] # "none"

\* Only Shutdown closes a socket under a handler that is still at work.
ClosedUnder ==
  \A c \in Conns :
    sock[c] = "closed" /\ hpc[c] \notin {"none", "untrack", "done"}
      => shutdown /\ c \in snap

\* The connections whose goroutine is inside handleRequest.
Requests == {c \in Conns : hpc[c] \in InRequest}

\* The goroutines inside handleRequest are finitely many and activeReqs of them.
Counted == IsFiniteSet(Requests) /\ ActiveCounted

\* The frame a handler works on is the last one it read, is of the type that
\* sent it there, and has no answer before Reply and Pong.
AnswersSound ==
  \A c \in Conns :
    /\ nread[c] <= Len(asked[c])
    /\ Peer!LastAnswered(c) <= nread[c]
    /\ hpc[c] \in {"enter", "lookup", "call", "reply", "pong"} =>
         nread[c] > 0 /\ Peer!LastAnswered(c) < nread[c]
    /\ hpc[c] \in {"enter", "lookup", "call", "reply"} =>
         asked[c][nread[c]] = "request"
    /\ hpc[c] = "pong" => asked[c][nread[c]] = "ping"

\* What is known of the connections and their sockets.
ConnsSound == Tracked /\ SocketsSound /\ SnapSound /\ ClosedUnder

\* The inductive invariant.
IInv == /\ TypeOK /\ ConnsSound /\ Counted /\ AnswersSound
        /\ LostOnlyByShutdown
-----------------------------------------------------------------------------
(* How a step of handleConn moves the counts and the answers.              *)

\* A step that does not move a goroutine into or out of handleRequest.
LEMMA CountStays ==
  ASSUME TypeOK, Counted, NEW c \in Conns, NEW l, Goto(c, l),
         hpc[c] \in InRequest <=> l \in InRequest, UNCHANGED activeReqs
  PROVE  Counted'
<1>1. Requests' = Requests
  BY DEF TypeOK, Goto, Requests
<1> QED
  BY <1>1 DEF Counted, ActiveCounted, Requests

\* The first statement of handleRequest.
LEMMA CountEnters ==
  ASSUME TypeOK, Counted, NEW c \in Conns, Goto(c, "lookup"),
         hpc[c] \notin InRequest, activeReqs' = activeReqs + 1
  PROVE  Counted'
<1>1. Requests' = Requests \cup {c} /\ c \notin Requests
  BY DEF TypeOK, Goto, Requests, InRequest
<1>2. IsFiniteSet(Requests') /\ Cardinality(Requests') = Cardinality(Requests) + 1
  BY <1>1, FS_AddElement DEF Counted
<1> QED
  BY <1>2 DEF Counted, ActiveCounted, Requests

\* Its deferred decrement, which therefore never goes below zero.
LEMMA CountLeaves ==
  ASSUME TypeOK, Counted, NEW c \in Conns, Goto(c, "read"),
         hpc[c] \in InRequest, activeReqs' = activeReqs - 1
  PROVE  Counted' /\ activeReqs' \in Nat
<1>1. Requests' = Requests \ {c} /\ c \in Requests
  BY DEF TypeOK, Goto, Requests, InRequest
<1>2. IsFiniteSet(Requests') /\ Cardinality(Requests') = Cardinality(Requests) - 1
  BY <1>1, FS_RemoveElement DEF Counted
<1>3. Cardinality(Requests') \in Nat
  BY <1>2, FS_CardinalityType
<1> QED
  BY <1>2, <1>3 DEF Counted, ActiveCounted, Requests

\* What conn.Write changes: at most the last answer of its connection, which is
\* then the answer to the frame that was read last.
LEMMA Written ==
  ASSUME TypeOK, NEW c \in Conns, NEW type \in {"response", "error", "pong"},
         Write(c, type)
  PROVE  /\ answered' \in [Conns -> Seq(Answers)]
         /\ \A d \in Conns \ {c} : Peer!LastAnswered(d)' = Peer!LastAnswered(d)
         /\ Peer!LastAnswered(c)' \in {Peer!LastAnswered(c), nread[c]}
<1>1. CASE answered' = answered
  BY <1>1 DEF TypeOK, Peer!LastAnswered
<1>2. CASE answered' = [answered EXCEPT ![c] =
                          Append(@, [id |-> nread[c], type |-> type])]
  <2> DEFINE a == [id |-> nread[c], type |-> type]
  <2>1. a \in Answers /\ answered[c] \in Seq(Answers)
    BY DEF TypeOK, Answers
  <2>a. answered'[c] = Append(answered[c], a)
    BY <1>2 DEF TypeOK
  <2>b. ASSUME NEW s \in Seq(Answers)
        PROVE  LET t == Append(s, a)
               IN  t # <<>> /\ t[Len(t)] = a /\ t \in Seq(Answers)
    BY SMTT(30), SMTT(60), <2>1
  <2>2. /\ answered'[c] = Append(answered[c], a) /\ answered'[c] # <<>>
        /\ answered'[c][Len(answered'[c])] = a /\ answered'[c] \in Seq(Answers)
    BY <2>1, <2>a, <2>b
  <2>3. \A d \in Conns \ {c} : answered'[d] = answered[d]
    BY <1>2 DEF TypeOK
  <2>4. answered' \in [Conns -> Seq(Answers)]
    BY <1>2, <2>2 DEF TypeOK
  <2> QED
    BY SMTT(30), SMTT(60), <2>2, <2>3, <2>4 DEF Peer!LastAnswered
<1> QED
  BY <1>1, <1>2 DEF Write

\* Moving on without reading or answering keeps AnswersSound, provided that the
\* handler stays with the frame it was sent to work on.
LEMMA AnswersStay ==
  ASSUME TypeOK, AnswersSound, NEW c \in Conns, NEW l, Goto(c, l),
         UNCHANGED <<asked, nread, answered>>,
         \/ l \notin {"enter", "lookup", "call", "reply", "pong"}
         \/ /\ l \in {"lookup", "call", "reply"}
            /\ hpc[c] \in {"enter", "lookup", "call"}
  PROVE  AnswersSound'
<1>1. \A d \in Conns : Peer!LastAnswered(d)' = Peer!LastAnswered(d)
  BY DEF Peer!LastAnswered
<1>2. hpc'[c] = l /\ \A d \in Conns \ {c} : hpc'[d] = hpc[d]
  BY DEF TypeOK, Goto
<1> QED
  BY <1>1, <1>2 DEF AnswersSound

\* A frame is answered once, and its handler does not come back to it.
LEMMA AnswersMove ==
  ASSUME TypeOK, AnswersSound, NEW c \in Conns, NEW l \in {"read", "leave"},
         Goto(c, l), NEW type \in {"response", "error", "pong"}, Write(c, type),
         UNCHANGED <<asked, nread>>
  PROVE  AnswersSound'
<1>1. hpc'[c] = l /\ \A d \in Conns \ {c} : hpc'[d] = hpc[d]
  BY DEF TypeOK, Goto
<1>2. \A d \in Conns : nread[d] \in Nat
  BY DEF TypeOK
<1> QED
  BY SMTT(30), SMTT(60), <1>1, <1>2, Written DEF AnswersSound
\* Nothing of the connections changes, but perhaps how Shutdown's wait ends.
LEMMA ConnsStay ==
  ASSUME ConnsSound, UNCHANGED <<conns, sock, apc, acc, hpc, shutdown, snap>>,
         spc' = spc \/ (spc = "wait" /\ spc' \in {"returned", "expired"})
  PROVE  ConnsSound'
<1>1. Tracked' /\ SocketsSound' /\ ClosedUnder'
  BY DEF ConnsSound, Tracked, SocketsSound, ClosedUnder, Running
<1>2. SnapSound'
  BY DEF ConnsSound, SnapSound
<1> QED
  BY <1>1, <1>2 DEF ConnsSound

\* A handler that goes on, with its socket and its place in conns as they are.
LEMMA HandlerMoves ==
  ASSUME TypeOK, ConnsSound, NEW c \in Conns,
         NEW l \in InRequest \cup {"read", "enter", "pong", "close"}, Goto(c, l),
         hpc[c] \in InRequest \cup {"read", "enter", "pong"},
         UNCHANGED <<conns, sock, apc, acc, shutdown, spc, snap>>
  PROVE  ConnsSound'
<1>1. hpc'[c] = l /\ \A d \in Conns \ {c} : hpc'[d] = hpc[d]
  BY DEF TypeOK, Goto
<1>2. /\ hpc[c] \notin {"none", "untrack", "done"}
      /\ hpc'[c] \notin {"none", "untrack", "done"}
  BY <1>1 DEF InRequest
<1>3. Tracked'
  BY <1>1, <1>2, ServerAssumption DEF ConnsSound, Tracked, Running
<1>4. SocketsSound'
  BY <1>1, <1>2 DEF ConnsSound, SocketsSound, Running
<1>5. SnapSound'
  BY SMTT(30), SMTT(60), <1>1, <1>2 DEF TypeOK, ConnsSound, SnapSound
<1>6. ClosedUnder'
  BY <1>1, <1>2 DEF ConnsSound, ClosedUnder
<1> QED
  BY <1>3, <1>4, <1>5, <1>6 DEF ConnsSound

\* Reading a frame: none of the answers so far is to it.
LEMMA AnswersRead ==
  ASSUME TypeOK, AnswersSound, NEW c \in Conns, ReadFrame(c)
  PROVE  AnswersSound'
<1> DEFINE n == nread[c]
           type == asked[c][n + 1]
<1>1. n \in Nat /\ n < Len(asked[c]) /\ Len(asked[c]) \in Nat
  BY SMTT(30), SMTT(60) DEF TypeOK, ReadFrame
<1>2. nread'[c] = n + 1 /\ \A d \in Conns \ {c} : nread'[d] = nread[d]
  BY DEF TypeOK, ReadFrame
<1>3. UNCHANGED <<asked, answered>>
  BY DEF ReadFrame, wire
<1>4. \A d \in Conns : Peer!LastAnswered(d)' = Peer!LastAnswered(d)
  BY <1>3 DEF Peer!LastAnswered
<1>5. /\ hpc'[c] = CASE type = "request" -> "enter" [] type = "ping" -> "pong"
                     [] OTHER -> "read"
      /\ \A d \in Conns \ {c} : hpc'[d] = hpc[d]
  BY <1>2 DEF TypeOK, ReadFrame, Goto
<1>6. Peer!LastAnswered(c)' <= n
  BY <1>4 DEF AnswersSound
<1>7. Peer!LastAnswered(c) \in Nat
  <2>1. answered[c] \in Seq(Answers)
    BY DEF TypeOK
  <2>2. answered[c] # <<>> => answered[c][Len(answered[c])] \in Answers
    BY SMTT(30), SMTT(60), <2>1
  <2> QED
    BY <2>2 DEF Peer!LastAnswered, Answers
<1>8. ASSUME NEW d \in Conns \ {c}
      PROVE  /\ nread'[d] = nread[d] /\ asked'[d] = asked[d] /\ hpc'[d] = hpc[d]
             /\ Peer!LastAnswered(d)' = Peer!LastAnswered(d)
  BY <1>2, <1>3, <1>4, <1>5
<1>9. asked'[c][nread'[c]] = type /\ Len(asked'[c]) = Len(asked[c])
  BY <1>2, <1>3
<1> QED
  BY SMTT(30), SMTT(60), <1>1, <1>2, <1>4, <1>5, <1>6, <1>7, <1>8, <1>9
  DEF AnswersSound
-----------------------------------------------------------------------------
\* The server starts with no connection.
LEMMA InitInv == Init => IInv
<1> SUFFICES ASSUME Init PROVE IInv
  OBVIOUS
<1> USE DEF Init
<1>6. <<>> \in Seq(FrameTypes) /\ <<>> \in Seq(Answers)
  BY SMTT(30), SMTT(60)
<1>1. TypeOK
  BY <1>6 DEF TypeOK
<1>5. ConnsSound
  BY ServerAssumption
  DEF ConnsSound, Tracked, SocketsSound, SnapSound, ClosedUnder, Running
<1>2. Requests = {}
  BY DEF Requests, InRequest
<1>3. Counted
  BY <1>2, FS_EmptySet DEF Counted, ActiveCounted, Requests
<1>4. AnswersSound
  BY SMTT(30), SMTT(60) DEF AnswersSound, Peer!LastAnswered
<1> QED
  BY <1>1, <1>3, <1>4, <1>5 DEF IInv, LostOnlyByShutdown

\* Every step preserves IInv.
LEMMA NextInv == IInv /\ [Next]_vars => IInv'
<1> SUFFICES ASSUME IInv, [Next]_vars PROVE IInv'
  OBVIOUS
<1>a. /\ TypeOK /\ ConnsSound /\ Counted /\ AnswersSound
      /\ LostOnlyByShutdown
  BY DEF IInv
<1> USE DEF registry, server, wire, accepter, closer, history, handler
<1>1. ASSUME NEW c \in Conns, Dial(c) PROVE IInv'
  <2>1. TypeOK'
    BY <1>a, <1>1 DEF Dial, TypeOK
  <2>2. ConnsSound'
    <3>1. Tracked'
      BY <1>a, <1>1, ServerAssumption
      DEF Dial, TypeOK, ConnsSound, Tracked, SocketsSound, Running
    <3>2. SocketsSound'
      BY <1>a, <1>1, ServerAssumption
      DEF Dial, TypeOK, ConnsSound, Tracked, SocketsSound, Running
    <3>3. SnapSound'
      BY <1>a, <1>1, ServerAssumption
      DEF Dial, TypeOK, ConnsSound, Tracked, SnapSound, Running
    <3>4. ClosedUnder'
      BY <1>a, <1>1, ServerAssumption
      DEF Dial, TypeOK, ConnsSound, SnapSound, ClosedUnder
    <3> QED
      BY <3>1, <3>2, <3>3, <3>4 DEF ConnsSound
  <2>3. Counted'
    BY <1>a, <1>1 DEF Dial, Counted, ActiveCounted, Requests
  <2>4. AnswersSound'
    BY <1>a, <1>1 DEF Dial, AnswersSound, Peer!LastAnswered
  <2>5. LostOnlyByShutdown'
    BY <1>a, <1>1 DEF Dial, LostOnlyByShutdown
  <2> QED
    BY <2>1, <2>2, <2>3, <2>4, <2>5 DEF IInv
<1>2. ASSUME NEW c \in Conns, Send(c) PROVE IInv'
  <2>1. TypeOK'
    BY SMTT(30), SMTT(60), <1>a, <1>2 DEF Send, TypeOK
  <2>2. ConnsSound'
    BY <1>a, <1>2, ConnsStay DEF Send
  <2>3. Counted'
    BY <1>a, <1>2 DEF Send, Counted, ActiveCounted, Requests
  <2>4. AnswersSound'
    BY SMTT(30), SMTT(60), <1>a, <1>2
    DEF Send, AnswersSound, Peer!LastAnswered, TypeOK
  <2>5. LostOnlyByShutdown'
    BY <1>a, <1>2 DEF Send, LostOnlyByShutdown
  <2> QED
    BY <2>1, <2>2, <2>3, <2>4, <2>5 DEF IInv
<1>3. ASSUME NEW c \in Conns, HangUp(c) PROVE IInv'
  <2>1. TypeOK'
    BY <1>a, <1>3 DEF HangUp, TypeOK
  <2>2. ConnsSound'
    BY <1>a, <1>3, ConnsStay DEF HangUp
  <2>3. Counted'
    BY <1>a, <1>3 DEF HangUp, Counted, ActiveCounted, Requests
  <2>4. AnswersSound'
    BY <1>a, <1>3 DEF HangUp, AnswersSound, Peer!LastAnswered
  <2>5. LostOnlyByShutdown'
    BY <1>a, <1>3 DEF HangUp, LostOnlyByShutdown
  <2> QED
    BY <2>1, <2>2, <2>3, <2>4, <2>5 DEF IInv
<1>4. ASSUME NEW c \in Conns, Accept(c) PROVE IInv'
  <2>1. TypeOK'
    BY <1>a, <1>4 DEF Accept, TypeOK
  <2>2. ConnsSound'
    <3>1. Tracked'
      BY <1>a, <1>4, ServerAssumption
      DEF Accept, TypeOK, ConnsSound, Tracked, SocketsSound, Running
    <3>2. SocketsSound'
      BY <1>a, <1>4, ServerAssumption
      DEF Accept, TypeOK, ConnsSound, Tracked, SocketsSound, Running
    <3>3. SnapSound'
      BY <1>a, <1>4, ServerAssumption
      DEF Accept, TypeOK, ConnsSound, Tracked, SnapSound, Running
    <3>4. ClosedUnder'
      BY <1>a, <1>4, ServerAssumption
      DEF Accept, TypeOK, ConnsSound, SnapSound, ClosedUnder
    <3> QED
      BY <3>1, <3>2, <3>3, <3>4 DEF ConnsSound
  <2>3. Counted'
    BY <1>a, <1>4 DEF Accept, Counted, ActiveCounted, Requests
  <2>4. AnswersSound'
    BY <1>a, <1>4 DEF Accept, AnswersSound, Peer!LastAnswered
  <2>5. LostOnlyByShutdown'
    BY <1>a, <1>4 DEF Accept, LostOnlyByShutdown
  <2> QED
    BY <2>1, <2>2, <2>3, <2>4, <2>5 DEF IInv
<1>5. CASE AcceptFails
  <2>1. TypeOK'
    BY <1>a, <1>5 DEF AcceptFails, TypeOK
  <2>2. ConnsSound'
    <3>1. Tracked'
      BY <1>a, <1>5, ServerAssumption
      DEF AcceptFails, TypeOK, ConnsSound, Tracked, Running
    <3>2. SocketsSound'
      BY <1>a, <1>5, ServerAssumption
      DEF AcceptFails, TypeOK, ConnsSound, Tracked, SocketsSound, Running
    <3>3. SnapSound'
      BY <1>a, <1>5, ServerAssumption
      DEF AcceptFails, TypeOK, ConnsSound, Tracked, SnapSound, Running
    <3>4. ClosedUnder'
      BY <1>a, <1>5, ServerAssumption
      DEF AcceptFails, TypeOK, ConnsSound, SnapSound, ClosedUnder
    <3> QED
      BY <3>1, <3>2, <3>3, <3>4 DEF ConnsSound
  <2>3. Counted'
    BY <1>a, <1>5 DEF AcceptFails, Counted, ActiveCounted, Requests
  <2>4. AnswersSound'
    BY <1>a, <1>5 DEF AcceptFails, AnswersSound, Peer!LastAnswered
  <2>5. LostOnlyByShutdown'
    BY <1>a, <1>5 DEF AcceptFails, LostOnlyByShutdown
  <2> QED
    BY <2>1, <2>2, <2>3, <2>4, <2>5 DEF IInv
<1>6. CASE Track
  <2>1. TypeOK'
    BY <1>a, <1>6 DEF Track, TypeOK, ConnsSound, Tracked
  <2>2. ConnsSound'
    <3>1. Tracked'
      BY <1>a, <1>6, ServerAssumption
      DEF Track, TypeOK, ConnsSound, Tracked, Running
    <3>2. SocketsSound'
      BY <1>a, <1>6, ServerAssumption
      DEF Track, TypeOK, ConnsSound, Tracked, SocketsSound, Running
    <3>3. SnapSound'
      BY <1>a, <1>6, ServerAssumption
      DEF Track, TypeOK, ConnsSound, Tracked, SnapSound
    <3>4. ClosedUnder'
      BY <1>a, <1>6, ServerAssumption
      DEF Track, TypeOK, ConnsSound, Tracked, ClosedUnder
    <3> QED
      BY <3>1, <3>2, <3>3, <3>4 DEF ConnsSound
  <2>3. Counted'
    BY <1>a, <1>6, CountStays DEF Track, Goto, InRequest, ConnsSound, Tracked
  <2>4. AnswersSound'
    BY <1>a, <1>6, AnswersStay DEF Track, Goto, ConnsSound, Tracked
  <2>5. LostOnlyByShutdown'
    BY <1>a, <1>6 DEF Track, LostOnlyByShutdown
  <2> QED
    BY <2>1, <2>2, <2>3, <2>4, <2>5 DEF IInv
<1>7. ASSUME NEW c \in Conns, ReadFrame(c) PROVE IInv'
  <2>1. TypeOK'
    BY SMTT(30), SMTT(60), <1>a, <1>7 DEF ReadFrame, TypeOK, Goto, InRequest
  <2>2. ConnsSound'
    BY <1>a, <1>7, HandlerMoves DEF ReadFrame, InRequest, Goto
  <2>3. Counted'
    BY <1>a, <1>7, CountStays DEF ReadFrame, Goto, InRequest
  <2>4. AnswersSound'
    BY <1>a, <1>7, AnswersRead DEF ReadFrame
  <2>5. LostOnlyByShutdown'
    BY <1>a, <1>7 DEF ReadFrame, LostOnlyByShutdown
  <2> QED
    BY <2>1, <2>2, <2>3, <2>4, <2>5 DEF IInv
<1>8. ASSUME NEW c \in Conns, ReadEnds(c) PROVE IInv'
  <2>1. TypeOK'
    BY <1>a, <1>8 DEF ReadEnds, TypeOK, Goto, InRequest
  <2>2. ConnsSound'
    BY <1>a, <1>8, HandlerMoves DEF ReadEnds, InRequest
  <2>3. Counted'
    BY <1>a, <1>8, CountStays DEF ReadEnds, Goto, InRequest
  <2>4. AnswersSound'
    BY <1>a, <1>8, AnswersStay DEF ReadEnds, Goto
  <2>5. LostOnlyByShutdown'
    BY <1>a, <1>8 DEF ReadEnds, LostOnlyByShutdown
  <2> QED
    BY <2>1, <2>2, <2>3, <2>4, <2>5 DEF IInv
<1>9. ASSUME NEW c \in Conns, ReadFails(c) PROVE IInv'
  <2>1. TypeOK'
    BY <1>a, <1>9 DEF ReadFails, TypeOK, Goto, InRequest
  <2>2. ConnsSound'
    BY <1>a, <1>9, HandlerMoves DEF ReadFails, InRequest
  <2>3. Counted'
    BY <1>a, <1>9, CountStays DEF ReadFails, Goto, InRequest
  <2>4. AnswersSound'
    BY <1>a, <1>9, AnswersStay DEF ReadFails, Goto
  <2>5. LostOnlyByShutdown'
    BY <1>a, <1>9 DEF ReadFails, LostOnlyByShutdown
  <2> QED
    BY <2>1, <2>2, <2>3, <2>4, <2>5 DEF IInv
<1>10. ASSUME NEW c \in Conns, CloseConn(c) PROVE IInv'
  <2>1. TypeOK'
    BY <1>a, <1>10 DEF CloseConn, TypeOK, Goto, InRequest
  <2>2. ConnsSound'
    <3>1. Tracked'
      BY <1>a, <1>10, ServerAssumption
      DEF CloseConn, TypeOK, ConnsSound, Tracked, Running, Goto
    <3>2. SocketsSound'
      BY <1>a, <1>10, ServerAssumption
      DEF CloseConn, TypeOK, ConnsSound, Tracked, SocketsSound, Running, Goto
    <3>3. SnapSound'
      BY <1>a, <1>10, ServerAssumption
      DEF CloseConn, TypeOK, ConnsSound, Tracked, SnapSound, Running, Goto
    <3>4. ClosedUnder'
      BY <1>a, <1>10, ServerAssumption
      DEF CloseConn, TypeOK, ConnsSound, SnapSound, ClosedUnder, Goto
    <3> QED
      BY <3>1, <3>2, <3>3, <3>4 DEF ConnsSound
  <2>3. Counted'
    BY <1>a, <1>10, CountStays DEF CloseConn, Goto, InRequest
  <2>4. AnswersSound'
    BY <1>a, <1>10, AnswersStay DEF CloseConn, Goto
  <2>5. LostOnlyByShutdown'
    BY <1>a, <1>10 DEF CloseConn, LostOnlyByShutdown
  <2> QED
    BY <2>1, <2>2, <2>3, <2>4, <2>5 DEF IInv
<1>11. ASSUME NEW c \in Conns, Untrack(c) PROVE IInv'
  <2>1. TypeOK'
    BY <1>a, <1>11 DEF Untrack, TypeOK, Goto, InRequest
  <2>2. ConnsSound'
    <3>1. Tracked'
      BY <1>a, <1>11, ServerAssumption
      DEF Untrack, TypeOK, ConnsSound, Tracked, Running, Goto
    <3>2. SocketsSound'
      BY <1>a, <1>11, ServerAssumption
      DEF Untrack, TypeOK, ConnsSound, Tracked, SocketsSound, Running, Goto
    <3>3. SnapSound'
      BY <1>a, <1>11, ServerAssumption
      DEF Untrack, TypeOK, ConnsSound, Tracked, SnapSound, Running, Goto
    <3>4. ClosedUnder'
      BY <1>a, <1>11, ServerAssumption
      DEF Untrack, TypeOK, ConnsSound, SnapSound, ClosedUnder, Goto
    <3> QED
      BY <3>1, <3>2, <3>3, <3>4 DEF ConnsSound
  <2>3. Counted'
    BY <1>a, <1>11, CountStays DEF Untrack, Goto, InRequest
  <2>4. AnswersSound'
    BY <1>a, <1>11, AnswersStay DEF Untrack, Goto
  <2>5. LostOnlyByShutdown'
    BY <1>a, <1>11 DEF Untrack, LostOnlyByShutdown
  <2> QED
    BY <2>1, <2>2, <2>3, <2>4, <2>5 DEF IInv
<1>12. ASSUME NEW c \in Conns, Pong(c) PROVE IInv'
  <2>1. TypeOK'
    BY <1>a, <1>12, Written DEF Pong, TypeOK, Goto, InRequest
  <2>2. ConnsSound'
    BY <1>a, <1>12, HandlerMoves DEF Pong, InRequest
  <2>3. Counted'
    BY <1>a, <1>12, CountStays DEF Pong, Goto, InRequest
  <2>4. AnswersSound'
    BY <1>a, <1>12, AnswersMove DEF Pong
  <2>5. LostOnlyByShutdown'
    BY <1>a, <1>12 DEF Pong, LostOnlyByShutdown
  <2> QED
    BY <2>1, <2>2, <2>3, <2>4, <2>5 DEF IInv
<1>13. ASSUME NEW c \in Conns, Enter(c) PROVE IInv'
  <2>1. TypeOK'
    BY SMTT(30), SMTT(60), <1>a, <1>13 DEF Enter, TypeOK, Goto, InRequest
  <2>2. ConnsSound'
    BY <1>a, <1>13, HandlerMoves DEF Enter, InRequest
  <2>3. Counted'
    BY <1>a, <1>13, CountEnters DEF Enter, InRequest
  <2>4. AnswersSound'
    BY <1>a, <1>13, AnswersStay DEF Enter, Goto
  <2>5. LostOnlyByShutdown'
    BY <1>a, <1>13 DEF Enter, LostOnlyByShutdown
  <2> QED
    BY <2>1, <2>2, <2>3, <2>4, <2>5 DEF IInv
<1>14. ASSUME NEW c \in Conns, Lookup(c) PROVE IInv'
  <2>1. TypeOK'
    BY <1>a, <1>14 DEF Lookup, TypeOK, Goto, InRequest
  <2>2. ConnsSound'
    BY <1>a, <1>14, HandlerMoves DEF Lookup, InRequest, Goto
  <2>3. Counted'
    BY <1>a, <1>14, CountStays DEF Lookup, Goto, InRequest
  <2>4. AnswersSound'
    BY <1>a, <1>14, AnswersStay DEF Lookup, Goto
  <2>5. LostOnlyByShutdown'
    BY <1>a, <1>14 DEF Lookup, LostOnlyByShutdown
  <2> QED
    BY <2>1, <2>2, <2>3, <2>4, <2>5 DEF IInv
<1>15. ASSUME NEW c \in Conns, Call(c) PROVE IInv'
  <2>1. TypeOK'
    BY <1>a, <1>15 DEF Call, TypeOK, Goto, InRequest
  <2>2. ConnsSound'
    BY <1>a, <1>15, HandlerMoves DEF Call, InRequest
  <2>3. Counted'
    BY <1>a, <1>15, CountStays DEF Call, Goto, InRequest
  <2>4. AnswersSound'
    BY <1>a, <1>15, AnswersStay DEF Call, Goto
  <2>5. LostOnlyByShutdown'
    BY <1>a, <1>15 DEF Call, LostOnlyByShutdown
  <2> QED
    BY <2>1, <2>2, <2>3, <2>4, <2>5 DEF IInv
<1>16. ASSUME NEW c \in Conns, Reply(c) PROVE IInv'
  <2>1. TypeOK'
    BY <1>a, <1>16, Written DEF Reply, TypeOK, Goto, InRequest
  <2>2. ConnsSound'
    BY <1>a, <1>16, HandlerMoves DEF Reply, InRequest
  <2>3. Counted'
    BY <1>a, <1>16, CountStays DEF Reply, Goto, InRequest
  <2>4. AnswersSound'
    BY <1>a, <1>16, AnswersMove DEF Reply
  <2>6. sock[c] = "closed" => shutdown /\ c \in snap
    BY <1>a, <1>16 DEF Reply, ConnsSound, ClosedUnder
  <2>7. \A p \in dropped' : p \in dropped \/ (p[1] = c /\ sock[c] = "closed")
    <3>1. CASE dropped' = dropped
      BY <3>1
    <3>2. CASE sock[c] = "closed" /\ dropped' = dropped \cup {<<c, nread[c], early[c]>>}
      BY SMTT(30), SMTT(60), <3>2
    <3> QED
      BY <1>16, <3>1, <3>2 DEF Reply
  <2>8. shutdown' = shutdown /\ snap' = snap
    BY <1>16 DEF Reply
  <2>5. LostOnlyByShutdown'
    BY <1>a, <2>6, <2>7, <2>8 DEF LostOnlyByShutdown
  <2> QED
    BY <2>1, <2>2, <2>3, <2>4, <2>5 DEF IInv
<1>17. ASSUME NEW c \in Conns, Leave(c) PROVE IInv'
  <2>1. TypeOK'
    BY <1>a, <1>17, CountLeaves DEF Leave, TypeOK, Goto, InRequest
  <2>2. ConnsSound'
    BY <1>a, <1>17, HandlerMoves DEF Leave, InRequest
  <2>3. Counted'
    BY <1>a, <1>17, CountLeaves DEF Leave, InRequest
  <2>4. AnswersSound'
    BY <1>a, <1>17, AnswersStay DEF Leave, Goto
  <2>5. LostOnlyByShutdown'
    BY <1>a, <1>17 DEF Leave, LostOnlyByShutdown
  <2> QED
    BY <2>1, <2>2, <2>3, <2>4, <2>5 DEF IInv
<1>18. CASE Register
  <2>1. TypeOK'
    BY <1>a, <1>18 DEF Register, TypeOK
  <2>2. ConnsSound'
    BY <1>a, <1>18, ConnsStay DEF Register
  <2>3. Counted'
    BY <1>a, <1>18 DEF Register, Counted, ActiveCounted, Requests
  <2>4. AnswersSound'
    BY <1>a, <1>18 DEF Register, AnswersSound, Peer!LastAnswered
  <2>5. LostOnlyByShutdown'
    BY <1>a, <1>18 DEF Register, LostOnlyByShutdown
  <2> QED
    BY <2>1, <2>2, <2>3, <2>4, <2>5 DEF IInv
<1>19. CASE SetShutdown
  <2>1. TypeOK'
    BY <1>a, <1>19 DEF SetShutdown, TypeOK
  <2>2. ConnsSound'
    <3>1. Tracked'
      BY <1>a, <1>19, ServerAssumption
      DEF SetShutdown, TypeOK, ConnsSound, Tracked, Running
    <3>2. SocketsSound'
      BY <1>a, <1>19, ServerAssumption
      DEF SetShutdown, TypeOK, ConnsSound, Tracked, SocketsSound, Running
    <3>3. SnapSound'
      BY <1>a, <1>19, ServerAssumption
      DEF SetShutdown, TypeOK, ConnsSound, Tracked, SnapSound, Running
    <3>4. ClosedUnder'
      BY <1>a, <1>19, ServerAssumption
      DEF SetShutdown, TypeOK, ConnsSound, SnapSound, ClosedUnder
    <3> QED
      BY <3>1, <3>2, <3>3, <3>4 DEF ConnsSound
  <2>3. Counted'
    BY <1>a, <1>19 DEF SetShutdown, Counted, ActiveCounted, Requests
  <2>4. AnswersSound'
    BY <1>a, <1>19 DEF SetShutdown, AnswersSound, Peer!LastAnswered
  <2>5. LostOnlyByShutdown'
    BY <1>a, <1>19 DEF SetShutdown, LostOnlyByShutdown
  <2> QED
    BY <2>1, <2>2, <2>3, <2>4, <2>5 DEF IInv
<1>20. CASE CloseListener
  <2>1. TypeOK'
    BY <1>a, <1>20 DEF CloseListener, TypeOK
  <2>2. ConnsSound'
    <3>1. Tracked'
      BY <1>a, <1>20, ServerAssumption
      DEF CloseListener, TypeOK, ConnsSound, Tracked, SocketsSound, Running
    <3>2. SocketsSound'
      BY <1>a, <1>20, ServerAssumption
      DEF CloseListener, TypeOK, ConnsSound, Tracked, SocketsSound, Running
    <3>3. SnapSound'
      BY <1>a, <1>20, ServerAssumption
      DEF CloseListener, TypeOK, ConnsSound, Tracked, SnapSound, Running
    <3>4. ClosedUnder'
      BY <1>a, <1>20, ServerAssumption
      DEF CloseListener, TypeOK, ConnsSound, SocketsSound, SnapSound, ClosedUnder
    <3> QED
      BY <3>1, <3>2, <3>3, <3>4 DEF ConnsSound
  <2>3. Counted'
    BY <1>a, <1>20 DEF CloseListener, Counted, ActiveCounted, Requests
  <2>4. AnswersSound'
    BY <1>a, <1>20 DEF CloseListener, AnswersSound, Peer!LastAnswered
  <2>5. LostOnlyByShutdown'
    BY <1>a, <1>20 DEF CloseListener, LostOnlyByShutdown
  <2> QED
    BY <2>1, <2>2, <2>3, <2>4, <2>5 DEF IInv
<1>21. CASE Snapshot
  <2>1. TypeOK'
    BY <1>a, <1>21 DEF Snapshot, TypeOK
  <2>2. ConnsSound'
    <3>1. Tracked'
      BY <1>a, <1>21, ServerAssumption
      DEF Snapshot, TypeOK, ConnsSound, Tracked, Running
    <3>2. SocketsSound'
      BY <1>a, <1>21, ServerAssumption
      DEF Snapshot, TypeOK, ConnsSound, Tracked, SocketsSound, Running
    <3>3. SnapSound'
      BY <1>a, <1>21, ServerAssumption
      DEF Snapshot, TypeOK, ConnsSound, Tracked, SnapSound, Running
    <3>4. ClosedUnder'
      BY <1>a, <1>21, ServerAssumption
      DEF Snapshot, TypeOK, ConnsSound, SnapSound, ClosedUnder
    <3> QED
      BY <3>1, <3>2, <3>3, <3>4 DEF ConnsSound
  <2>3. Counted'
    BY <1>a, <1>21 DEF Snapshot, Counted, ActiveCounted, Requests
  <2>4. AnswersSound'
    BY <1>a, <1>21 DEF Snapshot, AnswersSound, Peer!LastAnswered
  <2>5. LostOnlyByShutdown'
    BY <1>a, <1>21
    DEF Snapshot, LostOnlyByShutdown, ConnsSound, SnapSound
  <2> QED
    BY <2>1, <2>2, <2>3, <2>4, <2>5 DEF IInv
<1>22. CASE CloseSnap
  <2>1. TypeOK'
    BY <1>a, <1>22 DEF CloseSnap, TypeOK
  <2>2. ConnsSound'
    <3>1. Tracked'
      BY <1>a, <1>22, ServerAssumption
      DEF CloseSnap, TypeOK, ConnsSound, Tracked, SnapSound, Running
    <3>2. SocketsSound'
      BY <1>a, <1>22, ServerAssumption
      DEF CloseSnap, TypeOK, ConnsSound, Tracked, SocketsSound, SnapSound, Running
    <3>3. SnapSound'
      BY <1>a, <1>22, ServerAssumption
      DEF CloseSnap, TypeOK, ConnsSound, Tracked, SnapSound, Running
    <3>4. ClosedUnder'
      BY <1>a, <1>22, ServerAssumption
      DEF CloseSnap, TypeOK, ConnsSound, SnapSound, ClosedUnder
    <3> QED
      BY <3>1, <3>2, <3>3, <3>4 DEF ConnsSound
  <2>3. Counted'
    BY <1>a, <1>22 DEF CloseSnap, Counted, ActiveCounted, Requests
  <2>4. AnswersSound'
    BY <1>a, <1>22 DEF CloseSnap, AnswersSound, Peer!LastAnswered
  <2>5. LostOnlyByShutdown'
    BY <1>a, <1>22 DEF CloseSnap, LostOnlyByShutdown
  <2> QED
    BY <2>1, <2>2, <2>3, <2>4, <2>5 DEF IInv
<1>23. CASE Drained
  <2>1. TypeOK'
    BY <1>a, <1>23 DEF Drained, TypeOK
  <2>2. ConnsSound'
    BY <1>a, <1>23, ConnsStay DEF Drained
  <2>3. Counted'
    BY <1>a, <1>23 DEF Drained, Counted, ActiveCounted, Requests
  <2>4. AnswersSound'
    BY <1>a, <1>23 DEF Drained, AnswersSound, Peer!LastAnswered
  <2>5. LostOnlyByShutdown'
    BY <1>a, <1>23 DEF Drained, LostOnlyByShutdown
  <2> QED
    BY <2>1, <2>2, <2>3, <2>4, <2>5 DEF IInv
<1>24. CASE Expired
  <2>1. TypeOK'
    BY <1>a, <1>24 DEF Expired, TypeOK
  <2>2. ConnsSound'
    BY <1>a, <1>24, ConnsStay DEF Expired
  <2>3. Counted'
    BY <1>a, <1>24 DEF Expired, Counted, ActiveCounted, Requests
  <2>4. AnswersSound'
    BY <1>a, <1>24 DEF Expired, AnswersSound, Peer!LastAnswered
  <2>5. LostOnlyByShutdown'
    BY <1>a, <1>24 DEF Expired, LostOnlyByShutdown
  <2> QED
    BY <2>1, <2>2, <2>3, <2>4, <2>5 DEF IInv
<1>25. CASE UNCHANGED vars
  BY SMTT(30), SMTT(60), <1>25
  DEF vars, IInv, TypeOK, ConnsSound, Tracked, SocketsSound, SnapSound, ClosedUnder,
      Running, Counted, Requests, ActiveCounted, AnswersSound, Peer!LastAnswered,
      LostOnlyByShutdown
<1> QED
  BY <1>1, <1>2, <1>3, <1>4, <1>5, <1>6, <1>7, <1>8, <1>9, <1>10, <1>11,
     <1>12, <1>13, <1>14, <1>15, <1>16, <1>17, <1>18, <1>19, <1>20, <1>21,
     <1>22, <1>23, <1>24, <1>25
  DEF Next, Serve, HandleRequest, HandleConn, Shutdown, Client

\* IInv is an invariant of the server.
LEMMA Invariance == Spec => []IInv
BY InitInv, NextInv, PTL DEF Spec
-----------------------------------------------------------------------------
\* What Shutdown waits for is what it means to wait for: activeReqs counts the
\* goroutines inside handleRequest, however many there are and however they
\* leave it.
THEOREM RequestsCounted == Spec => []ActiveCounted
BY Invariance, PTL DEF IInv, Counted

\* Every open socket has an owner that will close it, through Accept, track,
\* the handler's deferred calls and Shutdown.
THEOREM SocketsOwned == Spec => []NoSocketLeak
<1>1. IInv => NoSocketLeak
  BY ServerAssumption
  DEF IInv, TypeOK, ConnsSound, Tracked, SocketsSound, Running, NoSocketLeak, InRequest
<1> QED
  BY <1>1, Invariance, PTL

\* An answer that handleRequest writes in vain, while its client waits, was for
\* a connection that Shutdown had in its slice: nothing else closes a socket
\* under a request.
THEOREM AnswersLostByShutdown == Spec => []LostOnlyByShutdown
BY Invariance, PTL DEF IInv
-----------------------------------------------------------------------------
\* When Shutdown returns without an error, no request is being handled.
ReturnsIdle ==
  [][spc # "returned" /\ spc' = "returned" => \A c \in Conns : hpc[c] \notin InRequest]_vars

\* The counter that the waiter of Shutdown polls is zero only with every
\* goroutine outside handleRequest.
THEOREM ShutdownReturnsIdle == Spec => ReturnsIdle
<1>1. ASSUME IInv, Next, spc # "returned", spc' = "returned"
      PROVE  \A c \in Conns : hpc[c] \notin InRequest
  <2>1. activeReqs = 0
    BY <1>1, ZenonT(60)
    DEF Next, Serve, HandleRequest, HandleConn, Shutdown, Client, Dial, Send, HangUp,
        Accept, AcceptFails, Track, ReadFrame, ReadEnds, ReadFails, CloseConn, Untrack,
        Pong, Enter, Lookup, Call, Reply, Leave, Register, SetShutdown, CloseListener,
        Snapshot, CloseSnap, Drained, Expired, closer
  <2>2. Requests = {}
    BY <1>1, <2>1, FS_EmptySet DEF IInv, Counted, ActiveCounted, Requests
  <2> QED
    BY <2>2 DEF Requests
<1>2. IInv /\ [Next]_vars
        => [spc # "returned" /\ spc' = "returned"
              => \A c \in Conns : hpc[c] \notin InRequest]_vars
  BY <1>1
<1> QED
  BY <1>2, Invariance, PTL DEF Spec, ReturnsIdle
-----------------------------------------------------------------------------
(* The server implements RPCPeer.                                          *)

\* What conn.Write sends for the frame read last is an answer that RPCPeer
\* allows, or nothing.
LEMMA WriteAnswers ==
  ASSUME IInv, NEW c \in Conns, NEW type, Write(c, type), UNCHANGED asked,
         nread[c] > 0, Peer!LastAnswered(c) < nread[c],
         type \in Peer!AnswersTo(asked[c][nread[c]])
  PROVE  [Peer!Next]_(Peer!vars)
<1>1. nread[c] \in DOMAIN asked[c]
  <2>1. asked[c] \in Seq(FrameTypes) /\ nread[c] \in Nat
    BY DEF IInv, TypeOK
  <2>2. nread[c] <= Len(asked[c])
    BY DEF IInv, AnswersSound
  <2> QED
    BY SMTT(30), SMTT(60), <2>1, <2>2
<1>2. CASE answered' = answered
  BY <1>2 DEF Peer!vars
<1>3. CASE answered' = [answered EXCEPT ![c] =
                          Append(@, [id |-> nread[c], type |-> type])]
  <2>1. nread[c] > Peer!LastAnswered(c)
    BY <1>1
  <2>2. Peer!Answer(c, nread[c])
    BY <1>3, <2>1 DEF Peer!Answer
  <2> QED
    BY <1>1, <2>2 DEF Peer!Next
<1> QED
  BY <1>2, <1>3 DEF Write

\* Every step of the server asks or answers a frame as RPCPeer does, or does
\* neither.
LEMMA PeerStep == IInv /\ [Next]_vars => [Peer!Next]_(Peer!vars)
<1> SUFFICES ASSUME IInv, [Next]_vars PROVE [Peer!Next]_(Peer!vars)
  OBVIOUS
<1> USE DEF wire
<1>1. ASSUME NEW c \in Conns, Send(c) PROVE Peer!Next
  BY <1>1 DEF Send, FrameTypes, Peer!Next, Peer!Ask, Peer!FrameTypes
<1>2. ASSUME NEW c \in Conns, Pong(c) PROVE [Peer!Next]_(Peer!vars)
  <2>1. /\ nread[c] > 0 /\ Peer!LastAnswered(c) < nread[c]
        /\ asked[c][nread[c]] = "ping"
    BY <1>2 DEF Pong, IInv, AnswersSound
  <2>2. "pong" \in Peer!AnswersTo(asked[c][nread[c]])
    BY <2>1 DEF Peer!AnswersTo
  <2> QED
    BY <1>2, <2>1, <2>2, WriteAnswers DEF Pong
<1>3. ASSUME NEW c \in Conns, Reply(c) PROVE [Peer!Next]_(Peer!vars)
  <2> DEFINE type == IF failed[c] THEN "error" ELSE "response"
  <2>1. /\ nread[c] > 0 /\ Peer!LastAnswered(c) < nread[c]
        /\ asked[c][nread[c]] = "request"
    BY <1>3 DEF Reply, IInv, AnswersSound
  <2>2. type \in Peer!AnswersTo(asked[c][nread[c]])
    BY <2>1 DEF Peer!AnswersTo
  <2>3. Write(c, type) /\ UNCHANGED asked
    BY <1>3 DEF Reply
  <2> HIDE DEF type
  <2> QED
    BY <2>1, <2>2, <2>3, WriteAnswers
<1>4. ASSUME UNCHANGED <<asked, answered>> PROVE UNCHANGED Peer!vars
  BY <1>4 DEF Peer!vars
<1>5. ASSUME NEW c \in Conns,
             \/ Dial(c) \/ HangUp(c) \/ Accept(c) \/ ReadFrame(c) \/ ReadEnds(c)
             \/ ReadFails(c) \/ CloseConn(c) \/ Untrack(c) \/ Enter(c) \/ Lookup(c)
             \/ Call(c) \/ Leave(c)
      PROVE  UNCHANGED <<asked, answered>>
  BY <1>5
  DEF Dial, HangUp, Accept, ReadFrame, ReadEnds, ReadFails, CloseConn, Untrack, Enter,
      Lookup, Call, Leave
<1>6. ASSUME \/ AcceptFails \/ Track \/ Register \/ SetShutdown \/ CloseListener
             \/ Snapshot \/ CloseSnap \/ Drained \/ Expired \/ UNCHANGED vars
      PROVE  UNCHANGED <<asked, answered>>
  BY <1>6
  DEF AcceptFails, Track, Register, SetShutdown, CloseListener, Snapshot, CloseSnap,
      Drained, Expired, vars
<1> QED
  BY <1>1, <1>2, <1>3, <1>4, <1>5, <1>6
  DEF Next, Serve, HandleRequest, HandleConn, Shutdown, Client

\* On every connection the answers belong to frames that were sent, fit their
\* type, and come once and in order: the server implements RPCPeer.
THEOREM ServerImplementsPeer == Spec => ImplementsPeer
<1>1. Init => Peer!Init
  BY DEF Init, Peer!Init
<1> QED
  BY <1>1, PeerStep, Invariance, PTL DEF Spec, ImplementsPeer, Peer!Spec
=============================================================================

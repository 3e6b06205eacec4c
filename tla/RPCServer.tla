----------------------------- MODULE RPCServer -----------------------------
(***************************************************************************)
(* core/rpc/server/server.go with the service registry it calls            *)
(* (core/rpc/registry/service.go).                                         *)
(*                                                                         *)
(* Goroutines: Serve, one handleConn per accepted connection, and one      *)
(* caller of Shutdown.  A step is one access to conns, activeReqs, the     *)
(* registry, the listener or a socket.  A frame is abstracted to its type; *)
(* its RequestID is its position on the connection.  The registry holds    *)
(* one service, and registering it again may change its argument type.     *)
(* The server is started with ListenAndServe, which keeps the listener.    *)
(***************************************************************************)
EXTENDS Naturals, Sequences, FiniteSets

CONSTANTS Conns, NoConn,
          MaxFrames,   \* bound on the frames sent on a connection
          MaxVersions  \* bound on the calls of Register

ASSUME ServerAssumption ==
  NoConn \notin Conns /\ MaxFrames \in Nat /\ MaxVersions \in Nat

FrameTypes == {"request", "ping", "other"}

VARIABLES
  conns, activeReqs, shutdown,   \* the fields of Server
  service,    \* version of the registered service, 0 when there is none,
  hasMethod,  \* and whether it has the method the requests name
  listening,  \* the listener is open
  sock,       \* the server's end of each connection
  peerOpen,   \* connections whose client has not closed its end
  asked,      \* frames the client has sent, and how many were read
  nread,
  answered,   \* answers that reached the client
  apc, acc,   \* Serve: where it is, the accepted connection
  hpc, argType, failed,  \* handleConn and handleRequest, per connection
  spc, snap,  \* Shutdown: where it is, its slice of connections
  early,      \* history: the request was begun before Shutdown was called
  dropped     \* history: answers that handleRequest wrote in vain to a socket
              \* closed here, while their client waited

registry == <<service, hasMethod>>
server   == <<conns, activeReqs, shutdown, registry, listening>>
wire     == <<peerOpen, asked>>
accepter == <<apc, acc>>
closer   == <<spc, snap>>
history  == <<early, dropped>>
handler  == <<hpc, argType, failed>>
vars == <<server, sock, wire, nread, answered, accepter, handler, closer,
          history>>

Init ==
  /\ conns = {} /\ activeReqs = 0 /\ shutdown = FALSE /\ service = 0
  /\ hasMethod = FALSE
  /\ listening = TRUE /\ sock = [c \in Conns |-> "none"] /\ peerOpen = {}
  /\ asked = [c \in Conns |-> <<>>] /\ nread = [c \in Conns |-> 0]
  /\ answered = [c \in Conns |-> <<>>]
  /\ apc = "accept" /\ acc = NoConn
  /\ hpc = [c \in Conns |-> "none"] /\ argType = [c \in Conns |-> 0]
  /\ failed = [c \in Conns |-> FALSE]
  /\ spc = "idle" /\ snap = {} /\ dropped = {}
  /\ early = [c \in Conns |-> FALSE]
-----------------------------------------------------------------------------
(* The clients and the network.                                            *)

Dial(c) ==
  /\ listening /\ sock[c] = "none"
  /\ sock' = [sock EXCEPT ![c] = "backlog"] /\ peerOpen' = peerOpen \cup {c}
  /\ UNCHANGED <<server, asked, nread, answered, accepter, handler, closer,
                 history>>

Send(c) ==
  /\ c \in peerOpen /\ Len(asked[c]) < MaxFrames
  /\ \E type \in FrameTypes :
       asked' = [asked EXCEPT ![c] = Append(@, type)]
  /\ UNCHANGED <<server, sock, peerOpen, nread, answered, accepter, handler,
                 closer, history>>

HangUp(c) ==
  /\ c \in peerOpen /\ peerOpen' = peerOpen \ {c}
  /\ UNCHANGED <<server, sock, asked, nread, answered, accepter, handler,
                 closer, history>>
-----------------------------------------------------------------------------
(* Serve and trackConn.                                                    *)

\* conn, err := ln.Accept()
Accept(c) ==
  /\ apc = "accept" /\ listening /\ sock[c] = "backlog"
  /\ sock' = [sock EXCEPT ![c] = "open"]
  /\ apc' = "track" /\ acc' = c
  /\ UNCHANGED <<server, wire, nread, answered, handler, closer, history>>

\* Accept returned an error: the listener is closed.
AcceptFails ==
  /\ apc = "accept" /\ ~listening
  /\ apc' = IF shutdown THEN "returned" ELSE "accept"
  /\ UNCHANGED <<server, sock, wire, nread, answered, acc, handler, closer,
                 history>>

\* s.trackConn(conn, true); go s.handleConn(conn)
Track ==
  /\ apc = "track" /\ apc' = "accept" /\ acc' = NoConn
  /\ conns' = conns \cup {acc}
  /\ hpc' = [hpc EXCEPT ![acc] = "read"]
  /\ UNCHANGED <<activeReqs, shutdown, registry, listening, sock, wire, nread,
                 answered, argType, failed, closer, history>>
-----------------------------------------------------------------------------
(* handleConn.                                                             *)

Goto(c, label) == hpc' = [hpc EXCEPT ![c] = label]

\* Mutant: the reader does not move past the frame.
ReadFrame_Again(c) ==
  /\ hpc[c] = "read" /\ sock[c] = "open" /\ nread[c] < Len(asked[c])
  /\ nread' = [nread EXCEPT ![c] = IF @ = 0 THEN 1 ELSE @]
  /\ Goto(c, CASE asked[c][nread'[c]] = "request" -> "enter"
               [] asked[c][nread'[c]] = "ping"    -> "pong"
               [] OTHER                           -> "read")
  /\ UNCHANGED <<server, sock, wire, answered, accepter, argType, failed,
                 closer, history>>

\* A whole frame is read, decoded and dispatched on its type.
ReadFrame(c) ==
  /\ hpc[c] = "read" /\ sock[c] = "open" /\ nread[c] < Len(asked[c])
  /\ nread' = [nread EXCEPT ![c] = @ + 1]
  /\ Goto(c, CASE asked[c][nread'[c]] = "request" -> "enter"
               [] asked[c][nread'[c]] = "ping"    -> "pong"
               [] OTHER                           -> "read")
  /\ UNCHANGED <<server, sock, wire, answered, accepter, argType, failed,
                 closer, history>>

\* ReadFull fails for certain: the socket was closed here, or the peer has
\* hung up and everything it sent has been read.
ReadEnds(c) ==
  /\ hpc[c] = "read" /\ Goto(c, "close")
  /\ sock[c] = "closed" \/ (c \notin peerOpen /\ nread[c] = Len(asked[c]))
  /\ UNCHANGED <<server, sock, wire, nread, answered, accepter, argType, failed,
                 closer, history>>

\* The read deadline passes, or the bytes are not a frame.
ReadFails(c) ==
  /\ hpc[c] = "read" /\ sock[c] = "open" /\ Goto(c, "close")
  /\ UNCHANGED <<server, sock, wire, nread, answered, accepter, argType, failed,
                 closer, history>>

\* Mutant: the deferred calls in the other order.
CloseConn_Untracks(c) ==
  /\ hpc[c] = "close" /\ Goto(c, "untrack") /\ conns' = conns \ {c}
  /\ UNCHANGED <<activeReqs, shutdown, registry, listening, sock, wire, nread,
                 answered, accepter, argType, failed, closer, history>>

\* defer: conn.Close()
CloseConn(c) ==
  /\ hpc[c] = "close" /\ Goto(c, "untrack")
  /\ sock' = [sock EXCEPT ![c] = "closed"]
  /\ UNCHANGED <<server, wire, nread, answered, accepter, argType, failed, closer,
                 history>>

\* defer: s.trackConn(conn, false)
Untrack(c) ==
  /\ hpc[c] = "untrack" /\ Goto(c, "done") /\ conns' = conns \ {c}
  /\ UNCHANGED <<activeReqs, shutdown, registry, listening, sock, wire, nread,
                 answered, accepter, argType, failed, closer, history>>
-----------------------------------------------------------------------------
(* handleRequest, handlePing and sendError.                                *)

\* conn.Write: on a socket closed here it fails, and a peer that has gone
\* does not receive it.
Write(c, type) ==
  answered' = IF sock[c] = "open" /\ c \in peerOpen
              THEN [answered EXCEPT ![c] =
                      Append(@, [id |-> nread[c], type |-> type])]
              ELSE answered

Pong(c) ==
  /\ hpc[c] = "pong" /\ Write(c, "pong") /\ Goto(c, "read")
  /\ UNCHANGED <<server, sock, wire, nread, accepter, argType, failed, closer,
                 history>>

\* s.activeReqs.Add(1)
Enter(c) ==
  /\ hpc[c] = "enter" /\ activeReqs' = activeReqs + 1
  /\ failed' = [failed EXCEPT ![c] = FALSE] /\ Goto(c, "lookup")
  /\ early' = [early EXCEPT ![c] = ~shutdown]
  /\ UNCHANGED <<conns, shutdown, registry, listening, sock, wire, nread, answered,
                 accepter, argType, closer, dropped>>

\* registry.GetMethod succeeds.
GetMethod == service # 0 /\ hasMethod

\* The metadata is parsed, registry.GetMethod finds the service's method, and
\* the argument is decoded into its type; each of them may fail.
Lookup(c) ==
  /\ hpc[c] = "lookup"
  /\ \/ /\ GetMethod /\ Goto(c, "call")
        /\ argType' = [argType EXCEPT ![c] = service] /\ UNCHANGED failed
     \/ /\ Goto(c, "reply") /\ failed' = [failed EXCEPT ![c] = TRUE]
        /\ UNCHANGED argType
  /\ UNCHANGED <<server, sock, wire, nread, answered, accepter, closer, history>>

\* registry.Call looks the method up again and compares the argument's type;
\* the method may return an error, or its reply may not encode.
Call(c) ==
  /\ hpc[c] = "call" /\ Goto(c, "reply")
  /\ \/ /\ GetMethod /\ argType[c] = service
        /\ \E err \in BOOLEAN : failed' = [failed EXCEPT ![c] = err]
     \/ /\ ~(GetMethod /\ argType[c] = service)
        /\ failed' = [failed EXCEPT ![c] = TRUE]
  /\ argType' = [argType EXCEPT ![c] = 0]
  /\ UNCHANGED <<server, sock, wire, nread, answered, accepter, closer, history>>

\* The response, or sendError.
Reply(c) ==
  /\ hpc[c] = "reply" /\ Goto(c, "leave")
  /\ Write(c, IF failed[c] THEN "error" ELSE "response")
  /\ dropped' = IF sock[c] = "closed" /\ c \in peerOpen
                THEN dropped \cup {<<c, nread[c], early[c]>>} ELSE dropped
  /\ UNCHANGED <<server, sock, wire, nread, accepter, argType, failed, closer,
                 early>>

\* Mutant: a request that fails returns without decrementing.
Leave_OnSuccess(c) ==
  /\ hpc[c] = "leave" /\ Goto(c, "read")
  /\ activeReqs' = IF failed[c] THEN activeReqs ELSE activeReqs - 1
  /\ UNCHANGED <<conns, shutdown, registry, listening, sock, wire, nread, answered,
                 accepter, argType, failed, closer, history>>

\* defer s.activeReqs.Add(-1)
Leave(c) ==
  /\ hpc[c] = "leave" /\ Goto(c, "read") /\ activeReqs' = activeReqs - 1
  /\ UNCHANGED <<conns, shutdown, registry, listening, sock, wire, nread, answered,
                 accepter, argType, failed, closer, history>>

\* Server.Register, called by the application at any time; the scan of the
\* service's methods may pass over the one that requests name.
Register ==
  /\ service < MaxVersions /\ service' = service + 1
  /\ hasMethod' \in BOOLEAN
  /\ UNCHANGED <<conns, activeReqs, shutdown, listening, sock, wire, nread,
                 answered, accepter, handler, closer, history>>
-----------------------------------------------------------------------------
(* Shutdown.                                                               *)

SetShutdown ==
  /\ spc = "idle" /\ spc' = "listener" /\ shutdown' = TRUE
  /\ UNCHANGED <<conns, activeReqs, registry, listening, sock, wire, nread, answered,
                 accepter, handler, snap, history>>

\* s.listener.Close(); the kernel resets the connections nobody has accepted.
CloseListener ==
  /\ spc = "listener" /\ spc' = "snapshot" /\ listening' = FALSE
  /\ sock' = [c \in Conns |-> IF sock[c] = "backlog" THEN "closed" ELSE sock[c]]
  /\ UNCHANGED <<conns, activeReqs, shutdown, registry, wire, nread, answered,
                 accepter, handler, snap, history>>

Snapshot ==
  /\ spc = "snapshot" /\ spc' = "close" /\ snap' = conns
  /\ UNCHANGED <<server, sock, wire, nread, answered, accepter, handler, history>>

\* Mutant: the wait begins without closing the connections.
CloseSnap_Skips ==
  /\ spc = "close" /\ spc' = "wait"
  /\ UNCHANGED <<server, sock, wire, nread, answered, accepter, handler, snap,
                 history>>

\* for _, conn := range conns { conn.Close() }
CloseSnap ==
  /\ spc = "close"
  /\ \/ \E c \in snap : /\ sock[c] # "closed" /\ UNCHANGED spc
                        /\ sock' = [sock EXCEPT ![c] = "closed"]
     \/ /\ \A c \in snap : sock[c] = "closed"
        /\ spc' = "wait" /\ UNCHANGED sock
  /\ UNCHANGED <<server, wire, nread, answered, accepter, handler, snap, history>>

\* The waiter finds activeReqs at zero.
Drained ==
  /\ spc = "wait" /\ activeReqs = 0 /\ spc' = "returned"
  /\ UNCHANGED <<server, sock, wire, nread, answered, accepter, handler, snap,
                 history>>

\* case <-ctx.Done()
Expired ==
  /\ spc = "wait" /\ spc' = "expired"
  /\ UNCHANGED <<server, sock, wire, nread, answered, accepter, handler, snap,
                 history>>
-----------------------------------------------------------------------------
Serve == (\E c \in Conns : Accept(c)) \/ AcceptFails \/ Track

HandleRequest(c) ==
  Enter(c) \/ Lookup(c) \/ Call(c) \/ Reply(c) \/ Leave(c)

HandleConn(c) ==
  \/ ReadFrame(c) \/ ReadEnds(c) \/ Pong(c) \/ HandleRequest(c)
  \/ CloseConn(c) \/ Untrack(c)

Shutdown == SetShutdown \/ CloseListener \/ Snapshot \/ CloseSnap \/ Drained

Client(c) == Dial(c) \/ Send(c) \/ HangUp(c) \/ ReadFails(c)

Next ==
  \/ Serve \/ Shutdown \/ Expired \/ Register
  \/ \E c \in Conns : HandleConn(c) \/ Client(c)

Spec == Init /\ [][Next]_vars

\* Goroutines run, methods return, and somebody calls Shutdown; clients and
\* contexts owe nothing.
FairSpec ==
  /\ Spec /\ WF_vars(Serve) /\ WF_vars(Shutdown)
  /\ \A c \in Conns : WF_vars(HandleConn(c))
-----------------------------------------------------------------------------
InRequest == {"lookup", "call", "reply", "leave"}

\* activeReqs is the number of goroutines inside handleRequest, whichever of
\* its returns they take: what Shutdown waits for is what it means to wait for.
ActiveCounted ==
  activeReqs = Cardinality({c \in Conns : hpc[c] \in InRequest})

\* A socket is open only while somebody will close it: it is in conns and its
\* handleConn, whose deferred Close ends it, runs, or Serve is about to track
\* it.  Shutdown's slice need not hold it: one tracked late is left to
\* handleConn alone.
NoSocketLeak ==
  \A c \in Conns :
    /\ sock[c] = "open" =>
         \/ c \in conns /\ hpc[c] \notin {"none", "untrack", "done"}
         \/ c = acc /\ hpc[c] = "none"
    /\ hpc[c] = "done" => c \notin conns

\* "Shutdown gracefully shuts down the server" and "Wait for active requests to
\* complete" (server.go:243, 263): a request that handleRequest had begun before
\* Shutdown was called gets its answer as long as its client waits for it.
ActiveRequestsAnswered == \A p \in dropped : ~p[3]

\* An answer that handleRequest writes while its client waits fails only on a
\* connection of Shutdown's slice: no deadline and no bad frame closes the
\* socket under a request.  Frames that nobody has read yet are not requests
\* here; they are lost with their connection.
LostOnlyByShutdown == \A p \in dropped : shutdown /\ p[1] \in snap

Peer == INSTANCE RPCPeer

\* On every connection the server implements RPCPeer, whatever Shutdown and
\* the other connections do.
ImplementsPeer == Peer!Spec

\* Shutdown ends: closed connections stop producing requests.  A connection
\* tracked after the slice was taken stays open; that it does not keep
\* activeReqs above zero for ever leans on MaxFrames, in the code on a client
\* that stops asking or a context that expires.
ShutdownReturns == shutdown ~> spc \in {"returned", "expired"}

\* Every connection in Shutdown's slice ends its handleConn and leaves conns.
SnapshotDrains == \A c \in Conns : c \in snap ~> (hpc[c] = "done" /\ c \notin conns)
=============================================================================

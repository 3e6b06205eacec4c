------------------------------- MODULE Engine -------------------------------
(***************************************************************************)
(* The connection life cycle of core/engine.go.                            *)
(*                                                                         *)
(* Two goroutines share the connection table: the event loop (Run,         *)
(* acceptConnections, handleConnectionEvent, ...) and the idle cleaner     *)
(* (cleanupIdleConnections).  Both run closeConnection.  connMu guards the *)
(* table only; the fields of a Connection are read and written without a   *)
(* lock, so the model interleaves the two goroutines between every two     *)
(* accesses to a field that the other one writes.  One place is coarser:   *)
(* ParseRequest and the three assignments that follow it are one step, so  *)
(* a close by the cleaner falls before or behind them.                     *)
(*                                                                         *)
(* Left out: StateWriting, StateKeepalive, closeAfter and conn.context are *)
(* never assigned by the code; keepAlive is assigned and never read.       *)
(***************************************************************************)
EXTENDS Naturals

CONSTANTS Fds,         \* descriptors the kernel can hand out for clients
          Conns,       \* Connection objects, pooled ones included
          Lfd,         \* the listening descriptor
          NoFd,        \* -1
          NoConn,      \* nil
          BufLen,      \* len(readBuf), 8192 in the code
          MaxArrivals  \* bound: connections that clients open

ASSUME EngineAssumption ==
  /\ Lfd \notin Fds /\ NoFd \notin Fds /\ NoConn \notin Conns
  /\ BufLen \in Nat \ {0}
  /\ MaxArrivals \in Nat

VARIABLES
  connections,  \* Engine.connections: descriptor -> Connection, or NoConn
  conn,         \* the fields of every Connection object, see Blank
  pool,         \* connectionPool: what Get may return, new objects included
  open, watched, pending,
                \* kernel: open descriptors, the poller's watch list, and what
                \* a read of a descriptor would find
  arrived, backlog,
                \* clients that have connected; those not yet accepted
  pc,           \* where each goroutine is
  batch,        \* loop: descriptors of the last Wait still to be handled
  hand, hfd, got,
                \* loop: the conn in hand, a descriptor it holds, a byte count
  unscanned, toClose,
                \* cleaner: table entries still to be looked at; its decisions
  cfd, victim   \* closeConnection, per goroutine: its argument fd, its conn

table   == <<connections, pool>>
sockets == <<open, watched, pending>>
clients == <<arrived, backlog>>
locals  == <<batch, hand, hfd, got>>
sweep   == <<unscanned, toClose>>
closing == <<cfd, victim>>
vars == <<table, conn, sockets, clients, pc, locals, sweep, closing>>

Actors  == {"loop", "cleaner"}
LoopPC  == {"wait", "dispatch", "accept", "add", "insert", "touch", "read",
            "recv", "advance", "parse", "route", "handle", "keep", "rearm"}
SweepPC == {"tick", "scan", "sweep"}
OwnPC   == {"remove", "release", "unref", "unbuf", "close", "put"}
ClosePC == {"delete"} \cup OwnPC
Halted  == {"crashed", "badline"}   \* the process has panicked

\* request.Proto and request.Connection as far as checkKeepAlive tells them
\* apart; "none" is a nil request.
Requests == {"keep", "close", "http10"}

\* Connection.Reset: fd, state, len(readBuf), readOffset, request, and whether
\* more than idleTimeout has passed since lastActive.
Blank == [fd |-> NoFd, state |-> "reading", cap |-> 0, off |-> 0,
          req |-> "none", age |-> "old"]

Goto(a, label) == pc' = [pc EXCEPT ![a] = label]
Crash          == Goto("loop", "crashed")

\* cleanupIdleConnections holds connMu for reading while it scans.
Unlocked == pc["cleaner"] # "scan"

Init ==
  /\ connections = [f \in Fds |-> NoConn]
  /\ conn = [c \in Conns |-> Blank]
  /\ pool = Conns
  /\ open = {} /\ watched = {} /\ pending = [f \in Fds |-> "none"]
  /\ arrived = 0 /\ backlog = 0
  /\ pc = [a \in Actors |-> IF a = "loop" THEN "wait" ELSE "tick"]
  /\ batch = {} /\ hand = NoConn /\ hfd = NoFd /\ got = 0
  /\ unscanned = {} /\ toClose = {}
  /\ cfd = [a \in Actors |-> NoFd] /\ victim = [a \in Actors |-> NoConn]
-----------------------------------------------------------------------------
(* Clients, the network and time.                                          *)

\* A client connects: the kernel queues it on the listening socket.
Connect ==
  /\ arrived < MaxArrivals
  /\ arrived' = arrived + 1 /\ backlog' = backlog + 1
  /\ UNCHANGED <<table, conn, sockets, pc, locals, sweep, closing>>

\* Bytes reach an open socket, or its peer closes; a reset may lose bytes.
Network(f) ==
  /\ f \in open
  /\ \/ pending[f] = "none" /\ pending' = [pending EXCEPT ![f] = "data"]
     \/ pending[f] # "eof" /\ pending' = [pending EXCEPT ![f] = "eof"]
  /\ UNCHANGED <<table, conn, open, watched, clients, pc, locals, sweep,
                 closing>>

\* More than idleTimeout has passed since c.lastActive.
Elapse(c) ==
  /\ c \notin pool /\ conn[c].age = "fresh"
  /\ conn' = [conn EXCEPT ![c].age = "old"]
  /\ UNCHANGED <<table, sockets, clients, pc, locals, sweep, closing>>
-----------------------------------------------------------------------------
(* The event loop: Run and handleConnectionEvent.                          *)

\* poller.Wait, level triggered: every watched descriptor with something to
\* read, and the listening one when a client waits.  A timeout stutters.
Wait ==
  LET ready == {f \in watched : pending[f] # "none"}
               \cup (IF backlog > 0 THEN {Lfd} ELSE {})
  IN /\ pc["loop"] = "wait" /\ ready # {}
     /\ batch' = ready /\ Goto("loop", "dispatch")
     /\ UNCHANGED <<table, conn, sockets, clients, hand, hfd, got, sweep,
                    closing>>

\* The batch is used up: back to Wait.
BatchDone ==
  /\ pc["loop"] = "dispatch" /\ batch = {}
  /\ hand' = NoConn /\ hfd' = NoFd /\ Goto("loop", "wait")
  /\ UNCHANGED <<table, conn, sockets, clients, batch, got, sweep, closing>>

DispatchAccept ==
  /\ pc["loop"] = "dispatch" /\ Lfd \in batch
  /\ batch' = batch \ {Lfd} /\ Goto("loop", "accept")
  /\ UNCHANGED <<table, conn, sockets, clients, hand, hfd, got, sweep,
                 closing>>

\* handleConnectionEvent up to RUnlock: the table lookup, or return.
Lookup(f) ==
  /\ pc["loop"] = "dispatch" /\ f \in batch
  /\ batch' = batch \ {f}
  /\ IF connections[f] # NoConn
     THEN hand' = connections[f] /\ Goto("loop", "touch")
     ELSE UNCHANGED <<hand, pc>>
  /\ UNCHANGED <<table, conn, sockets, clients, hfd, got, sweep, closing>>

\* handleConnectionEvent after RUnlock, on the conn it looked up before.
Touch ==
  /\ pc["loop"] = "touch"
  /\ conn' = [conn EXCEPT ![hand].age = "fresh"]
  /\ Goto("loop",
          IF conn[hand].state = "reading" THEN "read" ELSE "dispatch")
  /\ UNCHANGED <<table, sockets, clients, locals, sweep, closing>>
-----------------------------------------------------------------------------
(* acceptConnections.                                                      *)

\* syscall.Accept fails: nobody waits, or the process is out of descriptors.
AcceptFails ==
  /\ pc["loop"] = "accept" /\ (backlog = 0 \/ open = Fds)
  /\ Goto("loop", "dispatch")
  /\ UNCHANGED <<table, conn, sockets, clients, locals, sweep, closing>>

\* Accept succeeds and SetNonblock fails: the descriptor is closed again.
AcceptDropped ==
  /\ pc["loop"] = "accept" /\ backlog > 0 /\ open # Fds
  /\ backlog' = backlog - 1
  /\ UNCHANGED <<table, conn, sockets, arrived, pc, locals, sweep, closing>>

\* Accept, connectionPool.Get and the assignments to the conn's fields; its
\* request field keeps what the pooled object holds.
Accept(f, c) ==
  /\ pc["loop"] = "accept" /\ backlog > 0 /\ f \notin open /\ c \in pool
  /\ backlog' = backlog - 1 /\ open' = open \cup {f}
  /\ pool' = pool \ {c}
  /\ conn' = [conn EXCEPT ![c] = [Blank EXCEPT !.fd = f, !.cap = BufLen,
                                    !.age = "fresh", !.req = conn[c].req]]
  /\ hand' = c /\ hfd' = f /\ Goto("loop", "add")
  /\ UNCHANGED <<connections, watched, pending, arrived, batch, got, sweep,
                 closing>>

PollerAdd ==
  /\ pc["loop"] = "add"
  /\ watched' = watched \cup {hfd} /\ Goto("loop", "insert")
  /\ UNCHANGED <<table, conn, open, pending, clients, locals, sweep, closing>>

\* connectionPool.Put: Reset, then the object may be handed out again.
PoolPut(c) == conn' = [conn EXCEPT ![c] = Blank] /\ pool' = pool \cup {c}

\* Mutant: the descriptor is not closed.
KernelClose_Forgotten(f) == f \in Fds /\ UNCHANGED sockets

\* syscall.Close: the kernel also drops the descriptor from the poller.
KernelClose(f) ==
  /\ open' = open \ {f} /\ watched' = watched \ {f}
  /\ pending' = [pending EXCEPT ![f] = "none"]

\* Mutant: the continue after a failed Add is missing.
PollerAddFails_GoesOn ==
  /\ pc["loop"] = "add"
  /\ PoolPut(hand) /\ KernelClose(hfd) /\ Goto("loop", "insert")
  /\ UNCHANGED <<connections, clients, locals, sweep, closing>>

PollerAddFails ==
  /\ pc["loop"] = "add"
  /\ PoolPut(hand) /\ KernelClose(hfd)
  /\ hand' = NoConn /\ hfd' = NoFd /\ Goto("loop", "accept")
  /\ UNCHANGED <<connections, clients, batch, got, sweep, closing>>

\* connections[nfd] = conn, under the write lock.
Insert ==
  /\ pc["loop"] = "insert" /\ Unlocked
  /\ connections' = [connections EXCEPT ![hfd] = hand]
  /\ hand' = NoConn /\ hfd' = NoFd /\ Goto("loop", "accept")
  /\ UNCHANGED <<pool, conn, sockets, clients, batch, got, sweep, closing>>
-----------------------------------------------------------------------------
(* closeConnection, run by goroutine a.                                    *)

CallClose(a, f) == cfd' = [cfd EXCEPT ![a] = f] /\ Goto(a, "delete")
Returned(a)     == IF a = "loop" THEN "dispatch" ELSE "sweep"

\* Lookup and delete under the write lock; only the goroutine that finds the
\* entry goes on.
Delete(a) ==
  /\ pc[a] = "delete" /\ Unlocked
  /\ IF cfd[a] \in Fds /\ connections[cfd[a]] # NoConn
     THEN /\ victim' = [victim EXCEPT ![a] = connections[cfd[a]]]
          /\ connections' = [connections EXCEPT ![cfd[a]] = NoConn]
          /\ Goto(a, "remove") /\ UNCHANGED cfd
     ELSE /\ cfd' = [cfd EXCEPT ![a] = NoFd]
          /\ Goto(a, Returned(a)) /\ UNCHANGED <<connections, victim>>
  /\ UNCHANGED <<pool, conn, sockets, clients, locals, sweep>>

\* Mutant: the descriptor is closed before the conn is cleaned up.
Remove_ClosesEarly(a) ==
  /\ pc[a] = "remove" /\ KernelClose(cfd[a]) /\ Goto(a, "release")
  /\ UNCHANGED <<table, conn, clients, locals, sweep, closing>>

\* Mutant: the conn goes back to the pool before it is cleaned up.
Remove_PutsEarly(a) ==
  /\ pc[a] = "remove" /\ PoolPut(victim[a]) /\ Goto(a, "release")
  /\ UNCHANGED <<connections, sockets, clients, locals, sweep, closing>>

Remove(a) ==
  /\ pc[a] = "remove"
  /\ watched' = watched \ {cfd[a]} /\ Goto(a, "release")
  /\ UNCHANGED <<table, conn, open, pending, clients, locals, sweep, closing>>

\* requestPool.Put(conn.request) blanks Proto and keeps Connection; then
\* conn.request = nil; then bytePool.Put(conn.readBuf), conn.readBuf = nil.
ReleaseObjects(a) ==
  /\ \/ /\ pc[a] = "release" /\ Goto(a, "unref")
        /\ conn' = [conn EXCEPT ![victim[a]].req =
                                  IF @ = "http10" THEN "keep" ELSE @]
     \/ /\ pc[a] = "unref" /\ Goto(a, "unbuf")
        /\ conn' = [conn EXCEPT ![victim[a]].req = "none"]
     \/ /\ pc[a] = "unbuf" /\ Goto(a, "close")
        /\ conn' = [conn EXCEPT ![victim[a]].cap = 0]
  /\ UNCHANGED <<table, sockets, clients, locals, sweep, closing>>

Close(a) ==
  /\ pc[a] = "close"
  /\ KernelClose(cfd[a]) /\ Goto(a, "put")
  /\ UNCHANGED <<table, conn, clients, locals, sweep, closing>>

\* conn.Reset(); connectionPool.Put(conn); return
Put(a) ==
  /\ pc[a] = "put"
  /\ PoolPut(victim[a])
  /\ victim' = [victim EXCEPT ![a] = NoConn]
  /\ cfd' = [cfd EXCEPT ![a] = NoFd] /\ Goto(a, Returned(a))
  /\ UNCHANGED <<connections, sockets, clients, locals, sweep>>

CloseStep(a) ==
  Delete(a) \/ Remove(a) \/ ReleaseObjects(a) \/ Close(a) \/ Put(a)
-----------------------------------------------------------------------------
(* handleRead, processRequest and checkKeepAlive on the conn in hand.      *)

\* The arguments of syscall.Read: conn.fd and conn.readBuf[conn.readOffset:],
\* which panics when the offset lies beyond the buffer.
ReadArgs ==
  /\ pc["loop"] = "read"
  /\ IF conn[hand].off > conn[hand].cap
     THEN Crash /\ UNCHANGED <<hfd, got>>
     ELSE /\ hfd' = conn[hand].fd /\ got' = conn[hand].cap - conn[hand].off
          /\ Goto("loop", "recv")
  /\ UNCHANGED <<table, conn, sockets, clients, batch, hand, sweep, closing>>

\* syscall.Read finds nothing to read: EAGAIN.
RecvNothing ==
  /\ pc["loop"] = "recv" /\ hfd \in open /\ pending[hfd] = "none" /\ got > 0
  /\ got' = 0 /\ Goto("loop", "dispatch")
  /\ UNCHANGED <<table, conn, sockets, clients, batch, hand, hfd, sweep,
                 closing>>

\* Mutant: the n == 0 branch is missing.
RecvFails_Ignored ==
  /\ pc["loop"] = "recv" /\ hfd \in open /\ pending[hfd] = "eof"
  /\ got' = 0 /\ Goto("loop", "dispatch")
  /\ UNCHANGED <<table, conn, sockets, clients, batch, hand, hfd, sweep,
                 closing>>

\* It fails (bad descriptor, reset) or returns 0 (end of file, empty slice).
RecvFails ==
  /\ pc["loop"] = "recv"
  /\ IF hfd \in open THEN pending[hfd] = "eof" \/ got = 0 ELSE TRUE
  /\ got' = 0 /\ CallClose("loop", conn[hand].fd)
  /\ UNCHANGED <<table, conn, sockets, clients, batch, hand, hfd, sweep,
                 victim>>

\* It returns n bytes; more may be left when the slice was filled.
RecvData(n) ==
  /\ pc["loop"] = "recv" /\ hfd \in open /\ pending[hfd] = "data"
  /\ n \in 1..got
  /\ \/ pending' = [pending EXCEPT ![hfd] = "none"]
     \/ n = got /\ UNCHANGED pending
  /\ got' = n /\ Goto("loop", "advance")
  /\ UNCHANGED <<table, conn, open, watched, clients, batch, hand, hfd, sweep,
                 closing>>

\* conn.readOffset += n
Advance ==
  /\ pc["loop"] = "advance"
  /\ conn' = [conn EXCEPT ![hand].off = @ + got]
  /\ got' = 0 /\ Goto("loop", "parse")
  /\ UNCHANGED <<table, sockets, clients, batch, hand, hfd, sweep, closing>>

\* conn.readBuf[:conn.readOffset] panics beyond the buffer; ParseRequest
\* indexes line[len(line)-1], which panics when the first line is empty.
ParsePanics ==
  /\ pc["loop"] = "parse"
  /\ \/ conn[hand].off > conn[hand].cap /\ Crash
     \/ conn[hand].off \in 1..conn[hand].cap /\ Goto("loop", "badline")
  /\ UNCHANGED <<table, conn, sockets, clients, locals, sweep, closing>>

\* ParseRequest fails: wait for more, or with a full buffer send a 400 and
\* close.
ParseFails ==
  /\ pc["loop"] = "parse"
  /\ \/ conn[hand].off >= conn[hand].cap /\ CallClose("loop", conn[hand].fd)
     \/ /\ conn[hand].off < conn[hand].cap
        /\ Goto("loop", "dispatch") /\ UNCHANGED cfd
  /\ UNCHANGED <<table, conn, sockets, clients, locals, sweep, victim>>

\* Mutant: conn.request is not assigned.
ParseSucceeds_NoRequest(r) ==
  /\ pc["loop"] = "parse" /\ conn[hand].off \in 1..conn[hand].cap
  /\ conn' = [conn EXCEPT ![hand].off = 0, ![hand].state = "processing"]
  /\ Goto("loop", "route")
  /\ UNCHANGED <<table, sockets, clients, locals, sweep, closing>>

\* ParseRequest returns a request: processing starts.
ParseSucceeds(r) ==
  /\ pc["loop"] = "parse" /\ conn[hand].off \in 1..conn[hand].cap
  /\ conn' = [conn EXCEPT ![hand].off = 0, ![hand].req = r,
                          ![hand].state = "processing"]
  /\ Goto("loop", "route")
  /\ UNCHANGED <<table, sockets, clients, locals, sweep, closing>>

\* router.Find(conn.request.Method, ...): a nil request panics.  With no route
\* the 404 goes to conn.fd at once; otherwise the context captures conn.fd.
Route ==
  /\ pc["loop"] = "route"
  /\ \/ conn[hand].req = "none" /\ Crash /\ UNCHANGED hfd
     \/ /\ conn[hand].req # "none" /\ hfd' = conn[hand].fd
        /\ Goto("loop", "keep") \/ Goto("loop", "handle")
  /\ UNCHANGED <<table, conn, sockets, clients, batch, hand, got, sweep,
                 closing>>

\* h(ctx): the handler writes its response to the descriptor in the context.
Handle ==
  /\ pc["loop"] = "handle" /\ Goto("loop", "keep")
  /\ UNCHANGED <<table, conn, sockets, clients, locals, sweep, closing>>

\* checkKeepAlive, the condition: a nil request panics.
KeepAlive ==
  /\ pc["loop"] = "keep"
  /\ \/ conn[hand].req = "none" /\ Crash /\ UNCHANGED cfd
     \/ /\ conn[hand].req \in {"close", "http10"}
        /\ CallClose("loop", conn[hand].fd)
     \/ conn[hand].req = "keep" /\ Goto("loop", "rearm") /\ UNCHANGED cfd
  /\ UNCHANGED <<table, conn, sockets, clients, locals, sweep, victim>>

\* checkKeepAlive, the else branch: ReleaseRequest panics on a nil request.
Rearm ==
  /\ pc["loop"] = "rearm"
  /\ \/ conn[hand].req = "none" /\ Crash /\ UNCHANGED conn
     \/ /\ conn[hand].req # "none" /\ Goto("loop", "dispatch")
        /\ conn' = [conn EXCEPT ![hand].state = "reading", ![hand].off = 0,
                           ![hand].req = "none", ![hand].age = "fresh"]
  /\ UNCHANGED <<table, sockets, clients, locals, sweep, closing>>
-----------------------------------------------------------------------------
(* cleanupIdleConnections.                                                 *)

\* The ticker fires: RLock, start of the range over the table.
Tick ==
  /\ pc["cleaner"] = "tick" /\ Goto("cleaner", "scan")
  /\ unscanned' = {f \in Fds : connections[f] # NoConn}
  /\ UNCHANGED <<table, conn, sockets, clients, locals, toClose, closing>>

\* Mutant: the test of lastActive is inverted.
Expired_Inverted(c) == conn[c].state # "processing" /\ conn[c].age = "fresh"

\* The condition on a connection, from unlocked reads of its fields.
Expired(c) == conn[c].state # "processing" /\ conn[c].age = "old"

Scan(f) ==
  /\ pc["cleaner"] = "scan" /\ f \in unscanned
  /\ unscanned' = unscanned \ {f}
  /\ toClose' = IF Expired(connections[f]) THEN toClose \cup {f} ELSE toClose
  /\ UNCHANGED <<table, conn, sockets, clients, pc, locals, closing>>

\* RUnlock.
ScanDone ==
  /\ pc["cleaner"] = "scan" /\ unscanned = {} /\ Goto("cleaner", "sweep")
  /\ UNCHANGED <<table, conn, sockets, clients, locals, sweep, closing>>

\* closeConnection(fd) for every descriptor picked, by number.
Sweep(f) ==
  /\ pc["cleaner"] = "sweep" /\ f \in toClose
  /\ toClose' = toClose \ {f} /\ CallClose("cleaner", f)
  /\ UNCHANGED <<table, conn, sockets, clients, locals, unscanned, victim>>

SweepDone ==
  /\ pc["cleaner"] = "sweep" /\ toClose = {} /\ Goto("cleaner", "tick")
  /\ UNCHANGED <<table, conn, sockets, clients, locals, sweep, closing>>
-----------------------------------------------------------------------------
Environment ==
  Connect \/ (\E f \in Fds : Network(f)) \/ (\E c \in Conns : Elapse(c))

LoopStep ==
  \/ Wait \/ BatchDone \/ DispatchAccept \/ Touch
  \/ \E f \in Fds : Lookup(f)
  \/ AcceptFails \/ AcceptDropped \/ PollerAdd \/ PollerAddFails \/ Insert
  \/ \E f \in Fds, c \in Conns : Accept(f, c)
  \/ ReadArgs \/ RecvNothing \/ RecvFails \/ Advance
  \/ \E n \in 1..BufLen : RecvData(n)
  \/ ParsePanics \/ ParseFails
  \/ \E r \in Requests : ParseSucceeds(r)
  \/ Route \/ Handle \/ KeepAlive \/ Rearm
  \/ CloseStep("loop")

CleanerStep ==
  \/ Tick \/ ScanDone \/ SweepDone
  \/ \E f \in Fds : Scan(f) \/ Sweep(f)
  \/ CloseStep("cleaner")

\* A panic ends the whole process.
Running == pc["loop"] \notin Halted

Next == Running /\ (Environment \/ LoopStep \/ CleanerStep)

Spec == Init /\ [][Next]_vars

\* The Go scheduler runs both goroutines, handlers return, and the ticker
\* fires again and again; sync.RWMutex lets a waiting writer in before later
\* readers, so the loop gets the write lock.  Clients owe nothing.
FairSpec == Spec /\ WF_vars(Running /\ LoopStep)
                 /\ WF_vars(Running /\ CleanerStep)
                 /\ SF_vars(Running /\ (Insert \/ Delete("loop")))
-----------------------------------------------------------------------------
Connection ==
  [fd : Fds \cup {NoFd}, state : {"reading", "processing"}, cap : {0, BufLen},
   off : Nat, req : Requests \cup {"none"}, age : {"fresh", "old"}]

TypeOK ==
  /\ connections \in [Fds -> Conns \cup {NoConn}]
  /\ conn \in [Conns -> Connection]
  /\ pool \subseteq Conns
  /\ open \subseteq Fds /\ watched \subseteq Fds
  /\ pending \in [Fds -> {"none", "data", "eof"}]
  /\ arrived \in Nat /\ backlog \in Nat
  /\ pc \in [Actors -> LoopPC \cup SweepPC \cup ClosePC \cup Halted]
  /\ pc["loop"] \notin SweepPC /\ pc["cleaner"] \notin LoopPC \cup Halted
  /\ batch \subseteq Fds \cup {Lfd}
  /\ hand \in Conns \cup {NoConn} /\ hfd \in Fds \cup {NoFd} /\ got \in Nat
  /\ unscanned \subseteq Fds /\ toClose \subseteq Fds
  /\ cfd \in [Actors -> Fds \cup {NoFd}]
  /\ victim \in [Actors -> Conns \cup {NoConn}]

\* Who owns a Connection object besides the pool: the table, the accept path
\* between Get and Insert, or a goroutine inside closeConnection.
InTable(c)      == \E f \in Fds : connections[f] = c
SettingUp(c)    == pc["loop"] \in {"add", "insert"} /\ hand = c
ClosedBy(a, c)  == pc[a] \in OwnPC /\ victim[a] = c

\* A goroutine inside closeConnection that has yet to close descriptor f.
Holds(a, f) == pc[a] \in OwnPC \ {"put"} /\ cfd[a] = f

\* A Connection object is at every moment in exactly one place: the pool, one
\* slot of the table, the accept path, or the closeConnection of one goroutine.
\* So no object is pooled while in use, put twice, shared by two clients, or
\* lost, although both goroutines close connections concurrently.
OneOwner ==
  \A c \in Conns :
    /\ c \in pool \/ InTable(c) \/ SettingUp(c) \/ \E a \in Actors : ClosedBy(a, c)
    /\ c \in pool => ~InTable(c) /\ ~SettingUp(c)
    /\ InTable(c) => ~SettingUp(c)
    /\ \A a \in Actors : ClosedBy(a, c) =>
         /\ c \notin pool /\ ~InTable(c) /\ ~SettingUp(c)
         /\ \A b \in Actors : ClosedBy(b, c) => b = a
    /\ \A f, g \in Fds : connections[f] = c /\ connections[g] = c => f = g

\* Every descriptor in the table is open and watched by the poller, and its
\* Connection records that very descriptor: a closed or reused number is never
\* reachable through the table.
TableSound ==
  \A f \in Fds : connections[f] # NoConn =>
     f \in open /\ f \in watched /\ conn[connections[f]].fd = f

\* syscall.Close in closeConnection always closes the descriptor of the
\* connection it took out of the table: no other connection, not even one being
\* accepted, has got that number in the meantime.
CloseHitsOwnDescriptor ==
  \A a \in Actors, f \in Fds : Holds(a, f) =>
    /\ f \in open /\ connections[f] = NoConn /\ conn[victim[a]].fd = f
    /\ ~(pc["loop"] \in {"add", "insert"} /\ hfd = f)
    /\ \A b \in Actors : Holds(b, f) => b = a

\* Every open client descriptor has an owner that will close it: it is in the
\* table, being accepted, or held by a closeConnection.  None leaks.
NoDescriptorLeak ==
  \A f \in open :
    \/ connections[f] # NoConn
    \/ pc["loop"] \in {"add", "insert"} /\ hfd = f
    \/ \E a \in Actors : Holds(a, f)

\* The descriptor the loop has captured for a read, or in the context of a
\* handler, is either closed or still that of the connection being served, even
\* when the cleaner closes this connection meanwhile: no response and no read
\* ever reaches another client.
IOReachesOwnClient ==
  pc["loop"] \in {"recv", "handle"} /\ hfd \in open =>
    /\ conn[hand].fd = hfd
    /\ connections[hfd] = hand \/ (ClosedBy("cleaner", hand) /\ Holds("cleaner", hfd))

\* A nil request or a nil read buffer makes the loop panic only when the idle
\* cleaner has taken the connection being served out of the table: the loop by
\* itself never does.
PanicNeedsCleaner == pc["loop"] = "crashed" => ~InTable(hand)

\* A table entry is never overwritten: it only goes away through the delete of
\* closeConnection, although descriptor numbers are reused.
NeverOverwritten ==
  [][\A f \in Fds : connections[f] # NoConn =>
                      connections'[f] \in {connections[f], NoConn}]_vars

\* What the comment in cleanupIdleConnections promises: it closes connections
\* "that have been idle too long (in any state except processing)".
CleanupClosesOnlyIdle ==
  [][pc["cleaner"] = "delete" /\ pc'["cleaner"] = "remove"
       => Expired(victim'["cleaner"])]_vars

\* A client that has gone away is noticed by the loop and its descriptor closed.
PeerCloseNoticed ==
  \A f \in Fds :
    connections[f] # NoConn /\ pending[f] = "eof" ~> f \notin open \/ ~Running

\* A connection that stays idle is closed by the cleaner.
IdleReclaimed ==
  \A c \in Conns :
    InTable(c) /\ conn[c].age = "old"
      ~> ~InTable(c) \/ conn[c].age = "fresh" \/ ~Running
=============================================================================

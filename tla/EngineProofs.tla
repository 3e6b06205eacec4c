---------------------------- MODULE EngineProofs ----------------------------
(***************************************************************************)
(* Proofs about module Engine for every number of descriptors, Connection  *)
(* objects and arrivals; and about the parts of the server that have no    *)
(* goroutine in common with it: SmartPool, for every number of users and   *)
(* objects, and HTTP2Server, for every number of callers.                  *)
(***************************************************************************)
EXTENDS Engine, TLAPS

\* The provers of a leaf that names none: most leaves are first-order.
USE ZenonT(20), SMTT(30), SMTT(60)

\* The loop works on a conn that it has looked up earlier.
Working == {"touch", "read", "recv", "advance", "parse", "route", "handle",
            "keep", "rearm"}

\* Inside closeConnection a goroutine has a conn and its descriptor, and the
\* loop has a conn while it accepts or works.
LocalsSound ==
  /\ \A a \in Actors : pc[a] \in OwnPC => victim[a] \in Conns /\ cfd[a] \in Fds
  /\ pc["loop"] \in Working => hand \in Conns
  /\ pc["loop"] \in {"add", "insert"} =>
       /\ hand \in Conns /\ hfd \in open /\ conn[hand].fd = hfd
       /\ connections[hfd] = NoConn
  /\ pc["loop"] = "insert" => hfd \in watched

\* A pooled conn has no descriptor, and neither has, as far as the kernel is
\* concerned, a conn that the loop works on after the cleaner has closed it.
ClosedSound ==
  /\ \A c \in pool : conn[c].fd = NoFd
  /\ pc["loop"] \in Working /\ pc["cleaner"] = "put" /\ victim["cleaner"] = hand
       => conn[hand].fd \notin open

\* The buffer and the request that the loop is about to use are there as long
\* as its conn is in the table.
DataSound ==
  /\ \A f \in Fds : connections[f] # NoConn =>
       conn[connections[f]].cap = BufLen /\ conn[connections[f]].off <= BufLen
  /\ pc["loop"] = "insert" \/ pc["loop"] = "add" =>
       conn[hand].cap = BufLen /\ conn[hand].off <= BufLen
  /\ pc["loop"] \in {"recv", "advance"} /\ InTable(hand) =>
       conn[hand].off + got <= BufLen
  /\ pc["loop"] \in {"route", "handle", "keep", "rearm"} /\ InTable(hand) =>
       conn[hand].req # "none"

\* The inductive invariant: the safety properties of Engine and what they need
\* about the goroutines' local variables and the fields of a conn.
IInv ==
  /\ TypeOK
  /\ LocalsSound
  /\ OneOwner /\ TableSound /\ CloseHitsOwnDescriptor /\ NoDescriptorLeak
  /\ ClosedSound /\ IOReachesOwnClient
  /\ DataSound /\ PanicNeedsCleaner
-----------------------------------------------------------------------------
\* The initial state, with every Connection pooled, satisfies IInv.
LEMMA InitInv == Init => IInv
BY SMTT(30), SMTT(60), EngineAssumption
DEF Init, IInv, TypeOK, LocalsSound, OneOwner, InTable, SettingUp, ClosedBy,
    TableSound, CloseHitsOwnDescriptor, Holds, NoDescriptorLeak, ClosedSound,
    IOReachesOwnClient, DataSound, PanicNeedsCleaner, Blank, Connection,
    Actors, LoopPC,
    SweepPC, ClosePC, OwnPC, Halted, Working

(* The invariant is preserved, part by part of the program.  Most steps     *)
(* touch few variables and follow at once; the others are proved conjunct  *)
(* by conjunct.                                                            *)

\* The steps of the loop from Wait to the conn of an event.
DispatchStep ==
  \/ Wait \/ BatchDone \/ DispatchAccept \/ Touch
  \/ \E f \in Fds : Lookup(f)
  \/ AcceptFails \/ AcceptDropped

\* Those of acceptConnections that set a conn up.
AcceptStep ==
  \/ PollerAdd \/ PollerAddFails \/ Insert
  \/ \E f \in Fds, c \in Conns : Accept(f, c)

\* Its steps on the conn in hand.
ReadStep ==
  \/ ReadArgs \/ RecvNothing \/ RecvFails \/ Advance
  \/ \E n \in 1..BufLen : RecvData(n)
  \/ ParsePanics \/ ParseFails
  \/ \E r \in Requests : ParseSucceeds(r)
  \/ Route \/ Handle \/ KeepAlive \/ Rearm

\* The steps of cleanupIdleConnections outside closeConnection.
SweepStep ==
  \/ Tick \/ ScanDone \/ SweepDone
  \/ \E f \in Fds : Scan(f) \/ Sweep(f)

\* What the loop relies on while it serves a conn: the parts of IInv that speak of
\* its own label, its locals and the buffers of the table.
LoopSound ==
  /\ pc["loop"] \in Working => hand \in Conns
  /\ pc["loop"] \in Working /\ pc["cleaner"] = "put" /\ victim["cleaner"] = hand
       => conn[hand].fd \notin open
  /\ IOReachesOwnClient /\ DataSound /\ PanicNeedsCleaner

\* A step in which no conn and no descriptor changes its owner: nobody takes a
\* conn over, hands it on, or closes its descriptor.
Aside ==
  /\ UNCHANGED <<connections, pool, open, watched, victim>>
  /\ \A c \in Conns : conn'[c].fd = conn[c].fd
  /\ \A a \in Actors : /\ pc'[a] \in OwnPC <=> pc[a] \in OwnPC
                       /\ pc'[a] = "put" <=> pc[a] = "put"
                       /\ pc[a] \in OwnPC => cfd'[a] = cfd[a]
  /\ \/ pc["loop"] \notin {"add", "insert"} /\ pc'["loop"] \notin {"add", "insert"}
     \/ pc'["loop"] = pc["loop"] /\ UNCHANGED <<hand, hfd>>

\* Such a step keeps IInv when it keeps the types and what the loop relies on.
LEMMA AsideInv ==
  ASSUME IInv, TypeOK', Aside, LoopSound' PROVE IInv'
<1>0. /\ TypeOK /\ LocalsSound /\ OneOwner /\ TableSound
      /\ CloseHitsOwnDescriptor /\ NoDescriptorLeak /\ ClosedSound
  BY DEF IInv
<1>1. /\ connections' = connections /\ pool' = pool /\ open' = open
      /\ watched' = watched /\ victim' = victim
      /\ \A c \in Conns : conn'[c].fd = conn[c].fd
  BY DEF Aside
<1>2. \A a \in Actors : /\ pc'[a] \in OwnPC <=> pc[a] \in OwnPC
                        /\ pc'[a] = "put" <=> pc[a] = "put"
                        /\ pc[a] \in OwnPC => cfd'[a] = cfd[a]
  BY DEF Aside
<1>3. /\ pc'["loop"] \in {"add", "insert"} <=> pc["loop"] \in {"add", "insert"}
      /\ pc'["loop"] \in {"add", "insert"} =>
           pc'["loop"] = pc["loop"] /\ hand' = hand /\ hfd' = hfd
  BY DEF Aside
<1>4. \A c \in Conns : /\ InTable(c)' <=> InTable(c)
                       /\ SettingUp(c)' <=> SettingUp(c)
                       /\ \A a \in Actors : ClosedBy(a, c)' <=> ClosedBy(a, c)
  BY <1>1, <1>2, <1>3 DEF InTable, SettingUp, ClosedBy
<1>5. \A a \in Actors, f \in Fds : Holds(a, f)' <=> Holds(a, f)
  BY <1>2 DEF Holds
<1>6. LocalsSound'
  <2>1. /\ pc'["loop"] \in {"add", "insert"} =>
             /\ hand' \in Conns /\ hfd' \in open' /\ conn'[hand'].fd = hfd'
             /\ connections'[hfd'] = NoConn
        /\ pc'["loop"] = "insert" => hfd' \in watched'
    BY <1>0, <1>1, <1>3 DEF LocalsSound
  <2>2. \A a \in Actors : pc'[a] \in OwnPC => victim'[a] \in Conns /\ cfd'[a] \in Fds
    BY <1>0, <1>1, <1>2 DEF LocalsSound
  <2> QED
    BY <2>1, <2>2 DEF LocalsSound, LoopSound
<1>7. OneOwner'
  BY <1>0, <1>1, <1>4 DEF OneOwner
<1>8. TableSound'
  BY SMTT(30), SMTT(60), <1>0, <1>1 DEF TableSound, TypeOK
<1>9. CloseHitsOwnDescriptor'
  BY SMTT(30), SMTT(60), <1>0, <1>1, <1>3, <1>5
  DEF CloseHitsOwnDescriptor, LocalsSound, Holds
<1>10. NoDescriptorLeak'
  BY <1>0, <1>1, <1>3, <1>5 DEF NoDescriptorLeak, TypeOK
<1>11. ClosedSound'
  BY <1>0, <1>1 DEF ClosedSound, LoopSound, TypeOK
<1> QED
  BY <1>6, <1>7, <1>8, <1>9, <1>10, <1>11 DEF IInv, LoopSound

\* As long as the descriptor of the conn that the loop works on is open, the conn
\* is in the table under it, or the cleaner is about to close it.
LEMMA OpenIsServed ==
  ASSUME IInv, pc["loop"] \in Working, conn[hand].fd \in open
  PROVE  \/ connections[conn[hand].fd] = hand
         \/ ClosedBy("cleaner", hand) /\ Holds("cleaner", conn[hand].fd)
<1>0. /\ TypeOK /\ LocalsSound /\ OneOwner /\ TableSound
      /\ CloseHitsOwnDescriptor /\ ClosedSound
  BY DEF IInv
<1>1. hand \in Conns /\ conn[hand].fd # NoFd
  BY <1>0, EngineAssumption DEF LocalsSound, TypeOK
<1>2. hand \notin pool
  BY <1>0, <1>1 DEF ClosedSound
<1>3. ~SettingUp(hand) /\ ~ClosedBy("loop", hand)
  BY DEF SettingUp, ClosedBy, Working, OwnPC
<1>4. InTable(hand) \/ ClosedBy("cleaner", hand)
  BY <1>0, <1>1, <1>2, <1>3 DEF OneOwner, Actors
<1>5. CASE InTable(hand)
  BY <1>0, <1>1, <1>5, EngineAssumption DEF InTable, TableSound
<1>6. CASE ClosedBy("cleaner", hand)
  <2>1. pc["cleaner"] \in OwnPC /\ pc["cleaner"] # "put" /\ victim["cleaner"] = hand
    BY <1>0, <1>6 DEF ClosedSound, ClosedBy
  <2>2. cfd["cleaner"] \in Fds
    BY <1>0, <2>1 DEF LocalsSound, Actors
  <2>3. Holds("cleaner", cfd["cleaner"])
    BY <2>1 DEF Holds
  <2>4. conn[hand].fd = cfd["cleaner"]
    BY <1>0, <2>1, <2>2, <2>3 DEF CloseHitsOwnDescriptor, Actors
  <2> QED
    BY <1>6, <2>3, <2>4
<1> QED
  BY <1>4, <1>5, <1>6

\* Clients, the network and time preserve IInv.
LEMMA EnvironmentInv ==
  ASSUME IInv, Environment PROVE IInv'
<1> USE DEF Goto, Crash, CallClose, table, sockets, clients, locals, sweep, closing,
            Actors
<1>0. TypeOK /\ LoopSound
  BY DEF IInv, LoopSound, LocalsSound, ClosedSound
<1>1. CASE Connect
  <2>1. TypeOK'
    BY SMTT(30), SMTT(60), <1>0, <1>1, EngineAssumption
    DEF Connect, TypeOK, LoopPC, SweepPC, ClosePC, OwnPC, Halted
  <2>2. Aside
    BY <1>0, <1>1 DEF Connect, Aside, TypeOK, OwnPC
  <2>3. LoopSound'
    BY <1>0, <1>1, EngineAssumption
    DEF Connect, LoopSound, TypeOK, Working, OwnPC, DataSound, IOReachesOwnClient,
        ClosedBy, Holds, PanicNeedsCleaner, InTable, Connection
  <2> QED
    BY <2>1, <2>2, <2>3, AsideInv
<1>2. ASSUME NEW f \in Fds, Network(f) PROVE IInv'
  <2>1. TypeOK'
    BY SMTT(30), SMTT(60), <1>0, <1>2, EngineAssumption
    DEF Network, TypeOK, LoopPC, SweepPC, ClosePC, OwnPC, Halted
  <2>2. Aside
    BY <1>0, <1>2 DEF Network, Aside, TypeOK, OwnPC
  <2>3. LoopSound'
    BY <1>0, <1>2, EngineAssumption
    DEF Network, LoopSound, TypeOK, Working, OwnPC, DataSound, IOReachesOwnClient,
        ClosedBy, Holds, PanicNeedsCleaner, InTable, Connection
  <2> QED
    BY <2>1, <2>2, <2>3, AsideInv
<1>3. ASSUME NEW c \in Conns, Elapse(c) PROVE IInv'
  <2>1. TypeOK'
    BY SMTT(30), SMTT(60), <1>0, <1>3, EngineAssumption
    DEF Elapse, TypeOK, LoopPC, SweepPC, ClosePC, OwnPC, Halted, Connection
  <2>2. Aside
    BY SMTT(30), SMTT(60), <1>0, <1>3 DEF Elapse, Aside, TypeOK, OwnPC, Connection
  <2>3. LoopSound'
    BY SMTT(30), SMTT(60), <1>0, <1>3, EngineAssumption
    DEF Elapse, LoopSound, TypeOK, Working, OwnPC, DataSound, IOReachesOwnClient,
        ClosedBy, Holds, PanicNeedsCleaner, InTable, Connection
  <2> QED
    BY <2>1, <2>2, <2>3, AsideInv
<1> QED
  BY <1>1, <1>2, <1>3 DEF Environment

\* So do the loop's steps from epoll_wait to the conn of an event: Wait, dispatch,
\* lookup and handleAccept.
LEMMA DispatchInv ==
  ASSUME IInv, DispatchStep PROVE IInv'
<1> USE DEF Goto, Crash, CallClose, table, sockets, clients, locals, sweep, closing,
            Actors
<1>0. TypeOK /\ LoopSound
  BY DEF IInv, LoopSound, LocalsSound, ClosedSound
<1>a. OneOwner
  BY DEF IInv
<1>1. CASE Wait
  <2>1. TypeOK'
    BY <1>0, <1>1, EngineAssumption
    DEF Wait, TypeOK, LoopPC, SweepPC, ClosePC, OwnPC, Halted
  <2>2. Aside
    BY <1>0, <1>1 DEF Wait, Aside, TypeOK, OwnPC
  <2>3. LoopSound'
    BY <1>0, <1>1, EngineAssumption
    DEF Wait, LoopSound, TypeOK, Working, OwnPC, DataSound, IOReachesOwnClient,
        ClosedBy, Holds, PanicNeedsCleaner, InTable, Connection
  <2> QED
    BY <2>1, <2>2, <2>3, AsideInv
<1>2. CASE BatchDone
  <2>1. TypeOK'
    BY <1>0, <1>2, EngineAssumption
    DEF BatchDone, TypeOK, LoopPC, SweepPC, ClosePC, OwnPC, Halted
  <2>2. Aside
    BY <1>0, <1>2 DEF BatchDone, Aside, TypeOK, OwnPC
  <2>3. LoopSound'
    BY <1>0, <1>2, EngineAssumption
    DEF BatchDone, LoopSound, TypeOK, Working, OwnPC, DataSound, IOReachesOwnClient,
        ClosedBy, Holds, PanicNeedsCleaner, InTable, Connection
  <2> QED
    BY <2>1, <2>2, <2>3, AsideInv
<1>3. CASE DispatchAccept
  <2>1. TypeOK'
    BY <1>0, <1>3, EngineAssumption
    DEF DispatchAccept, TypeOK, LoopPC, SweepPC, ClosePC, OwnPC, Halted
  <2>2. Aside
    BY <1>0, <1>3 DEF DispatchAccept, Aside, TypeOK, OwnPC
  <2>3. LoopSound'
    BY <1>0, <1>3, EngineAssumption
    DEF DispatchAccept, LoopSound, TypeOK, Working, OwnPC, DataSound, IOReachesOwnClient,
        ClosedBy, Holds, PanicNeedsCleaner, InTable, Connection
  <2> QED
    BY <2>1, <2>2, <2>3, AsideInv
<1>4. CASE Touch
  <2>1. TypeOK'
    BY SMTT(30), SMTT(60), <1>0, <1>4, EngineAssumption
    DEF Touch, TypeOK, LoopPC, SweepPC, ClosePC, OwnPC, Halted, Connection, LoopSound, Working
  <2>2. Aside
    BY SMTT(30), SMTT(60), <1>0, <1>4 DEF Touch, Aside, TypeOK, OwnPC, Connection
  <2>3. LoopSound'
    BY SMTT(30), SMTT(60), <1>0, <1>4, EngineAssumption
    DEF Touch, LoopSound, TypeOK, Working, OwnPC, DataSound, IOReachesOwnClient,
        ClosedBy, Holds, PanicNeedsCleaner, InTable, Connection
  <2> QED
    BY <2>1, <2>2, <2>3, AsideInv
<1>5. ASSUME NEW f \in Fds, Lookup(f) PROVE IInv'
  <2>1. TypeOK'
    BY SMTT(30), SMTT(60), <1>0, <1>5, EngineAssumption
    DEF Lookup, TypeOK, LoopPC, SweepPC, ClosePC, OwnPC, Halted
  <2>2. Aside
    BY SMTT(30), SMTT(60), <1>0, <1>5 DEF Lookup, Aside, TypeOK, OwnPC
  <2>3. LoopSound'
    BY SMTT(30), SMTT(60), <1>0, <1>5, EngineAssumption, <1>a
    DEF Lookup, OneOwner, LoopSound, TypeOK, Working, OwnPC, DataSound, IOReachesOwnClient,
        ClosedBy, Holds, PanicNeedsCleaner, InTable, Connection
  <2> QED
    BY <2>1, <2>2, <2>3, AsideInv
<1>6. CASE AcceptFails
  <2>1. TypeOK'
    BY <1>0, <1>6, EngineAssumption
    DEF AcceptFails, TypeOK, LoopPC, SweepPC, ClosePC, OwnPC, Halted
  <2>2. Aside
    BY <1>0, <1>6 DEF AcceptFails, Aside, TypeOK, OwnPC
  <2>3. LoopSound'
    BY <1>0, <1>6, EngineAssumption
    DEF AcceptFails, LoopSound, TypeOK, Working, OwnPC, DataSound, IOReachesOwnClient,
        ClosedBy, Holds, PanicNeedsCleaner, InTable, Connection
  <2> QED
    BY <2>1, <2>2, <2>3, AsideInv
<1>7. CASE AcceptDropped
  <2>1. TypeOK'
    BY SMTT(30), SMTT(60), <1>0, <1>7, EngineAssumption
    DEF AcceptDropped, TypeOK, LoopPC, SweepPC, ClosePC, OwnPC, Halted
  <2>2. Aside
    BY <1>0, <1>7 DEF AcceptDropped, Aside, TypeOK, OwnPC
  <2>3. LoopSound'
    BY <1>0, <1>7, EngineAssumption
    DEF AcceptDropped, LoopSound, TypeOK, Working, OwnPC, DataSound, IOReachesOwnClient,
        ClosedBy, Holds, PanicNeedsCleaner, InTable, Connection
  <2> QED
    BY <2>1, <2>2, <2>3, AsideInv
<1> QED
  BY <1>1, <1>2, <1>3, <1>4, <1>5, <1>6, <1>7
  DEF DispatchStep

\* So does handing a conn from the pool to the table in acceptConnections.
LEMMA AcceptInv ==
  ASSUME IInv, AcceptStep PROVE IInv'
<1> USE EngineAssumption
    DEF IInv, TypeOK, LocalsSound, table, sockets, clients, locals, sweep, closing,
        Goto, Returned, PoolPut, KernelClose, Blank, Unlocked, Actors, OwnPC,
        Working
<1>1. CASE PollerAdd
  <2>1. (TypeOK /\ LocalsSound)'
    BY SMTT(30), SMTT(60), <1>1
    DEF PollerAdd, TableSound, LoopPC, SweepPC, ClosePC, Halted,
        Connection
  <2>2. (OneOwner /\ TableSound)'
    BY SMTT(30), SMTT(60), <1>1
    DEF PollerAdd, OneOwner, InTable, SettingUp, ClosedBy, TableSound
  <2>3. (CloseHitsOwnDescriptor /\ NoDescriptorLeak)'
    BY SMTT(30), SMTT(60), <1>1
    DEF PollerAdd, OneOwner, InTable, SettingUp, ClosedBy, TableSound,
        CloseHitsOwnDescriptor, NoDescriptorLeak, Holds
  <2>4. (ClosedSound /\ IOReachesOwnClient)'
    BY SMTT(30), SMTT(60), <1>1
    DEF PollerAdd, OneOwner, InTable, SettingUp, ClosedBy, TableSound,
        CloseHitsOwnDescriptor, Holds, ClosedSound, IOReachesOwnClient
  <2>5. (DataSound /\ PanicNeedsCleaner)'
    BY SMTT(30), SMTT(60), <1>1
    DEF PollerAdd, OneOwner, InTable, SettingUp, ClosedBy, TableSound,
        DataSound, PanicNeedsCleaner
  <2> QED
    BY <2>1, <2>2, <2>3, <2>4, <2>5 DEF IInv
<1>2. CASE PollerAddFails
  <2>1. (TypeOK /\ LocalsSound)'
    BY SMTT(30), SMTT(60), <1>2
    DEF PollerAddFails, TableSound, LoopPC, SweepPC, ClosePC, Halted,
        Connection
  <2>2. (OneOwner /\ TableSound)'
    BY SMTT(30), SMTT(60), <1>2
    DEF PollerAddFails, OneOwner, InTable, SettingUp, ClosedBy, TableSound
  <2>3. (CloseHitsOwnDescriptor /\ NoDescriptorLeak)'
    BY SMTT(30), SMTT(60), <1>2
    DEF PollerAddFails, OneOwner, InTable, SettingUp, ClosedBy, TableSound,
        CloseHitsOwnDescriptor, NoDescriptorLeak, Holds
  <2>4. (ClosedSound /\ IOReachesOwnClient)'
    BY SMTT(30), SMTT(60), <1>2
    DEF PollerAddFails, OneOwner, InTable, SettingUp, ClosedBy, TableSound,
        CloseHitsOwnDescriptor, Holds, ClosedSound, IOReachesOwnClient
  <2>5. (DataSound /\ PanicNeedsCleaner)'
    BY SMTT(30), SMTT(60), <1>2
    DEF PollerAddFails, OneOwner, InTable, SettingUp, ClosedBy, TableSound,
        DataSound, PanicNeedsCleaner
  <2> QED
    BY <2>1, <2>2, <2>3, <2>4, <2>5 DEF IInv
<1>3. CASE Insert
  <2>1. (TypeOK /\ LocalsSound)'
    BY SMTT(30), SMTT(60), <1>3
    DEF Insert, TableSound, LoopPC, SweepPC, ClosePC, Halted,
        Connection
  <2>2. (OneOwner /\ TableSound)'
    BY SMTT(30), SMTT(60), <1>3
    DEF Insert, OneOwner, InTable, SettingUp, ClosedBy, TableSound
  <2>3. (CloseHitsOwnDescriptor /\ NoDescriptorLeak)'
    BY SMTT(30), SMTT(60), <1>3
    DEF Insert, OneOwner, InTable, SettingUp, ClosedBy, TableSound,
        CloseHitsOwnDescriptor, NoDescriptorLeak, Holds
  <2>4. (ClosedSound /\ IOReachesOwnClient)'
    BY SMTT(30), SMTT(60), <1>3
    DEF Insert, OneOwner, InTable, SettingUp, ClosedBy, TableSound,
        CloseHitsOwnDescriptor, Holds, ClosedSound, IOReachesOwnClient
  <2>5. (DataSound /\ PanicNeedsCleaner)'
    BY SMTT(30), SMTT(60), <1>3
    DEF Insert, OneOwner, InTable, SettingUp, ClosedBy, TableSound,
        DataSound, PanicNeedsCleaner
  <2> QED
    BY <2>1, <2>2, <2>3, <2>4, <2>5 DEF IInv
<1>4. ASSUME NEW f \in Fds, NEW c \in Conns, Accept(f, c) PROVE IInv'
  <2>1. TypeOK'
    <3> DEFINE r == [Blank EXCEPT !.fd = f, !.cap = BufLen, !.age = "fresh",
                                  !.req = conn[c].req]
    <3>1. r \in Connection
      BY DEF Connection
    <3>2. conn' = [conn EXCEPT ![c] = r]
      BY <1>4 DEF Accept
    <3> HIDE DEF r
    <3>3. conn' \in [Conns -> Connection]
      BY <3>1, <3>2
    <3> QED
      BY SMTT(30), SMTT(60), <3>3, <1>4
      DEF Accept, LoopPC, SweepPC, ClosePC, Halted
  <2>2. LocalsSound'
    BY SMTT(30), SMTT(60), <1>4
    DEF Accept, TableSound, CloseHitsOwnDescriptor, Holds,
           NoDescriptorLeak
  <2>3. OneOwner'
    BY SMTT(30), SMTT(60), <1>4
    DEF Accept, OneOwner, InTable, SettingUp, ClosedBy, TableSound
  <2>4. TableSound'
    BY SMTT(30), SMTT(60), <1>4
    DEF Accept, OneOwner, InTable, SettingUp, ClosedBy, TableSound,
           CloseHitsOwnDescriptor, Holds
  <2>5. CloseHitsOwnDescriptor'
    BY SMTT(30), SMTT(60), <1>4
    DEF Accept, OneOwner, InTable, SettingUp, ClosedBy, TableSound,
           CloseHitsOwnDescriptor, Holds
  <2>6. NoDescriptorLeak'
    BY <1>4 DEF Accept, NoDescriptorLeak, Holds, TableSound
  <2>7. ClosedSound'
    BY SMTT(30), SMTT(60), <1>4
    DEF Accept, OneOwner, InTable, SettingUp, ClosedBy, TableSound,
           CloseHitsOwnDescriptor, Holds, ClosedSound
  <2>8. IOReachesOwnClient'
    BY <1>4 DEF Accept, OneOwner, InTable, SettingUp, ClosedBy, TableSound,
           CloseHitsOwnDescriptor, Holds, ClosedSound, IOReachesOwnClient
  <2>9. DataSound'
    BY SMTT(30), SMTT(60), <1>4
    DEF Accept, OneOwner, InTable, SettingUp, ClosedBy, TableSound,
           DataSound
  <2>10. PanicNeedsCleaner'
    BY <1>4 DEF Accept, PanicNeedsCleaner, InTable
  <2> QED
    BY <2>1, <2>2, <2>3, <2>4, <2>5, <2>6, <2>7, <2>8, <2>9, <2>10 DEF IInv
<1> HIDE DEF IInv
<1> QED
  BY <1>1, <1>2, <1>3, <1>4 DEF AcceptStep

\* closeConnection, whichever goroutine runs it, preserves IInv.
LEMMA CloseInv ==
  ASSUME IInv, Running, NEW a \in Actors, CloseStep(a) PROVE IInv'
<1> USE EngineAssumption
    DEF IInv, TypeOK, LocalsSound, table, sockets, clients, locals, sweep, closing,
        Goto, Returned, PoolPut, KernelClose, Blank, Unlocked, Actors, OwnPC,
        Working
<1>1. CASE Delete(a)
  <2>1. TypeOK'
    BY SMTT(30), SMTT(60), <1>1
    DEF Delete, LoopPC, SweepPC, ClosePC, Halted
  <2>2. LocalsSound'
    BY SMTT(30), SMTT(60), <1>1
    DEF Delete, TableSound, CloseHitsOwnDescriptor, Holds,
           NoDescriptorLeak
  <2>3. OneOwner'
    BY SMTT(30), SMTT(60), <1>1
    DEF Delete, OneOwner, InTable, SettingUp, ClosedBy, TableSound
  <2>4. TableSound'
    BY SMTT(30), SMTT(60), <1>1
    DEF Delete, OneOwner, InTable, SettingUp, ClosedBy, TableSound,
           CloseHitsOwnDescriptor, Holds
  <2>5. CloseHitsOwnDescriptor'
    BY SMTT(30), SMTT(60), <1>1
    DEF Delete, OneOwner, InTable, SettingUp, ClosedBy, TableSound,
           CloseHitsOwnDescriptor, Holds
  <2>6. NoDescriptorLeak'
    BY SMTT(30), SMTT(60), <1>1 DEF Delete, NoDescriptorLeak, Holds, TableSound
  <2>7. ClosedSound'
    BY SMTT(30), SMTT(60), <1>1
    DEF Delete, OneOwner, InTable, SettingUp, ClosedBy, TableSound,
           CloseHitsOwnDescriptor, Holds, ClosedSound
  <2>8. IOReachesOwnClient'
    BY SMTT(30), SMTT(60), <1>1
    DEF Delete, OneOwner, InTable, SettingUp, ClosedBy, TableSound,
           CloseHitsOwnDescriptor, Holds, ClosedSound, IOReachesOwnClient
  <2>9. DataSound'
    BY SMTT(30), SMTT(60), <1>1
    DEF Delete, OneOwner, InTable, SettingUp, ClosedBy, TableSound,
           DataSound
  <2>10. PanicNeedsCleaner'
    <3>1. pc'["loop"] = "crashed" => pc["loop"] = "crashed"
      BY <1>1 DEF Delete
    <3>2. pc["loop"] # "crashed"
      BY DEF Running, Halted
    <3> QED
      BY <3>1, <3>2 DEF PanicNeedsCleaner
  <2> QED
    BY <2>1, <2>2, <2>3, <2>4, <2>5, <2>6, <2>7, <2>8, <2>9, <2>10
    DEF IInv
<1>2. CASE Remove(a)
  <2>1. TypeOK'
    BY <1>2
    DEF Remove, LoopPC, SweepPC, ClosePC, Halted
  <2>2. LocalsSound'
    BY SMTT(30), SMTT(60), <1>2
    DEF Remove, TableSound, CloseHitsOwnDescriptor, Holds, NoDescriptorLeak
  <2>3. OneOwner'
    BY SMTT(30), SMTT(60), <1>2
    DEF Remove, OneOwner, InTable, SettingUp, ClosedBy, TableSound
  <2>4. TableSound'
    BY SMTT(30), SMTT(60), <1>2
    DEF Remove, OneOwner, InTable, SettingUp, ClosedBy, TableSound,
           CloseHitsOwnDescriptor, Holds
  <2>5. CloseHitsOwnDescriptor'
    BY SMTT(30), SMTT(60), <1>2
    DEF Remove, OneOwner, InTable, SettingUp, ClosedBy, TableSound,
           CloseHitsOwnDescriptor, Holds
  <2>6. NoDescriptorLeak'
    BY SMTT(30), SMTT(60), <1>2
    DEF Remove, NoDescriptorLeak, Holds, TableSound, OneOwner, InTable,
           SettingUp, ClosedBy
  <2>7. ClosedSound'
    BY <1>2
    DEF Remove, OneOwner, InTable, SettingUp, ClosedBy, TableSound,
           CloseHitsOwnDescriptor, Holds, ClosedSound
  <2>8. IOReachesOwnClient'
    BY <1>2
    DEF Remove, OneOwner, InTable, SettingUp, ClosedBy, TableSound,
           CloseHitsOwnDescriptor, Holds, ClosedSound, IOReachesOwnClient
  <2>9. DataSound'
    BY <1>2
    DEF Remove, OneOwner, InTable, SettingUp, ClosedBy, TableSound, DataSound
  <2>10. PanicNeedsCleaner'
    BY <1>2
    DEF Remove, PanicNeedsCleaner, InTable, DataSound
  <2> QED
    BY <2>1, <2>2, <2>3, <2>4, <2>5, <2>6, <2>7, <2>8, <2>9, <2>10 DEF IInv
<1>3. CASE ReleaseObjects(a)
  <2>1. TypeOK'
    BY SMTT(30), SMTT(60), <1>3
    DEF ReleaseObjects, LoopPC, SweepPC, ClosePC, Halted, Connection, Requests
  <2>a. /\ \A c \in Conns : conn'[c].fd = conn[c].fd
        /\ \A c \in Conns \ {victim[a]} : conn'[c] = conn[c]
    BY SMTT(30), SMTT(60), <1>3 DEF ReleaseObjects, Connection
  <2>b. ~InTable(victim[a]) /\ ~SettingUp(victim[a])
    BY <1>3 DEF ReleaseObjects, OneOwner, ClosedBy
  <2>2. Aside
    BY SMTT(30), SMTT(60), <1>3, <2>a DEF ReleaseObjects, Aside
  <2>c. /\ UNCHANGED <<connections, open, hand, hfd, got, victim, cfd>>
        /\ \A b \in Actors :
             pc'[b] = pc[b] \/ {pc[b], pc'[b]} \subseteq OwnPC \ {"put"}
    BY SMTT(30), SMTT(60), <1>3 DEF ReleaseObjects
  <2>3. LoopSound'
    <3>1. /\ (pc["loop"] \in Working => hand \in Conns)'
          /\ (pc["loop"] \in Working /\ pc["cleaner"] = "put" /\ victim["cleaner"] = hand
                => conn[hand].fd \notin open)'
      BY <2>a, <2>c DEF ClosedSound
    <3>2. IOReachesOwnClient'
      BY <2>a, <2>c DEF IOReachesOwnClient, ClosedBy, Holds
    <3>3. DataSound'
      BY SMTT(30), SMTT(60), <2>a, <2>b, <2>c DEF DataSound, InTable, SettingUp
    <3>4. PanicNeedsCleaner'
      BY <2>c DEF PanicNeedsCleaner, InTable
    <3> QED
      BY <3>1, <3>2, <3>3, <3>4 DEF LoopSound
  <2> HIDE DEF IInv, TypeOK
  <2> QED
    BY <2>1, <2>2, <2>3, AsideInv
<1>4. CASE Close(a)
  <2>1. TypeOK'
    BY <1>4
    DEF Close, LoopPC, SweepPC, ClosePC, Halted
  <2>2. LocalsSound'
    BY SMTT(30), SMTT(60), <1>4
    DEF Close, TableSound, CloseHitsOwnDescriptor, Holds, NoDescriptorLeak
  <2>3. OneOwner'
    BY SMTT(30), SMTT(60), <1>4
    DEF Close, OneOwner, InTable, SettingUp, ClosedBy, TableSound
  <2>4. TableSound'
    BY <1>4
    DEF Close, OneOwner, InTable, SettingUp, ClosedBy, TableSound,
           CloseHitsOwnDescriptor, Holds
  <2>5. CloseHitsOwnDescriptor'
    BY SMTT(30), SMTT(60), <1>4
    DEF Close, OneOwner, InTable, SettingUp, ClosedBy, TableSound,
           CloseHitsOwnDescriptor, Holds
  <2>6. NoDescriptorLeak'
    BY SMTT(30), SMTT(60), <1>4
    DEF Close, NoDescriptorLeak, Holds, TableSound, OneOwner, InTable,
           SettingUp, ClosedBy
  <2>7. ClosedSound'
    BY SMTT(30), SMTT(60), <1>4
    DEF Close, OneOwner, InTable, SettingUp, ClosedBy, TableSound,
           CloseHitsOwnDescriptor, Holds, ClosedSound
  <2>8. IOReachesOwnClient'
    BY <1>4
    DEF Close, OneOwner, InTable, SettingUp, ClosedBy, TableSound,
           CloseHitsOwnDescriptor, Holds, ClosedSound, IOReachesOwnClient
  <2>9. DataSound'
    BY <1>4
    DEF Close, OneOwner, InTable, SettingUp, ClosedBy, TableSound, DataSound
  <2>10. PanicNeedsCleaner'
    BY <1>4
    DEF Close, PanicNeedsCleaner, InTable, DataSound
  <2> QED
    BY <2>1, <2>2, <2>3, <2>4, <2>5, <2>6, <2>7, <2>8, <2>9, <2>10 DEF IInv
<1>5. CASE Put(a)
  <2>1. TypeOK'
    BY <1>5
    DEF Put, LoopPC, SweepPC, ClosePC, Halted, Connection, Requests
  <2>2. LocalsSound'
    BY SMTT(30), SMTT(60), <1>5
    DEF Put, TableSound, CloseHitsOwnDescriptor, Holds, NoDescriptorLeak, OneOwner,
           InTable, SettingUp, ClosedBy
  <2>3. OneOwner'
    BY SMTT(30), SMTT(60), <1>5
    DEF Put, OneOwner, InTable, SettingUp, ClosedBy, TableSound
  <2>4. TableSound'
    BY SMTT(30), SMTT(60), <1>5
    DEF Put, OneOwner, InTable, SettingUp, ClosedBy, TableSound,
           CloseHitsOwnDescriptor, Holds
  <2>5. CloseHitsOwnDescriptor'
    BY SMTT(30), SMTT(60), <1>5
    DEF Put, OneOwner, InTable, SettingUp, ClosedBy, TableSound,
           CloseHitsOwnDescriptor, Holds
  <2>6. NoDescriptorLeak'
    BY SMTT(30), SMTT(60), <1>5
    DEF Put, NoDescriptorLeak, Holds, TableSound, OneOwner, InTable,
           SettingUp, ClosedBy
  <2>7. ClosedSound'
    BY SMTT(30), SMTT(60), <1>5
    DEF Put, OneOwner, InTable, SettingUp, ClosedBy, TableSound,
           CloseHitsOwnDescriptor, Holds, ClosedSound
  <2>8. IOReachesOwnClient'
    BY SMTT(30), SMTT(60), <1>5
    DEF Put, OneOwner, InTable, SettingUp, ClosedBy, TableSound,
           CloseHitsOwnDescriptor, Holds, ClosedSound, IOReachesOwnClient
  <2>9. DataSound'
    BY SMTT(30), SMTT(60), <1>5
    DEF Put, OneOwner, InTable, SettingUp, ClosedBy, TableSound, DataSound
  <2>10. PanicNeedsCleaner'
    BY <1>5
    DEF Put, PanicNeedsCleaner, InTable, DataSound
  <2> QED
    BY <2>1, <2>2, <2>3, <2>4, <2>5, <2>6, <2>7, <2>8, <2>9, <2>10 DEF IInv
<1> HIDE DEF IInv
<1> QED
  BY <1>1, <1>2, <1>3, <1>4, <1>5
  DEF CloseStep

\* So do handleRead, processRequest and checkKeepAlive.
LEMMA ReadInv ==
  ASSUME IInv, ReadStep PROVE IInv'
<1> USE DEF Goto, Crash, CallClose, table, sockets, clients, locals, sweep, closing,
            Actors
<1>0. TypeOK /\ LoopSound
  BY DEF IInv, LoopSound, LocalsSound, ClosedSound
<1>a. pc["loop"] \in Working =>
        /\ hand \in Conns /\ conn[hand] \in Connection
        /\ conn[hand].fd \in Fds \cup {NoFd}
        /\ conn[hand].off \in Nat /\ conn[hand].cap \in Nat
  BY SMTT(30), SMTT(60), <1>0, EngineAssumption DEF LoopSound, TypeOK, Connection
<1>1. CASE ReadArgs
  <2>1. TypeOK'
    BY SMTT(30), SMTT(60), <1>0, <1>a, <1>1, EngineAssumption
    DEF ReadArgs, TypeOK, LoopPC, SweepPC, ClosePC, OwnPC, Halted, Working
  <2>2. Aside
    BY SMTT(30), SMTT(60), <1>0, <1>1 DEF ReadArgs, Aside, TypeOK, OwnPC
  <2>3. LoopSound'
    BY SMTT(30), SMTT(60), <1>0, <1>1, EngineAssumption, OpenIsServed
    DEF ReadArgs, LoopSound, TypeOK, Working, OwnPC, DataSound, IOReachesOwnClient,
        ClosedBy, Holds, PanicNeedsCleaner, InTable, Connection
  <2> QED
    BY <2>1, <2>2, <2>3, AsideInv
<1>2. CASE RecvNothing
  <2>1. TypeOK'
    BY <1>0, <1>2, EngineAssumption
    DEF RecvNothing, TypeOK, LoopPC, SweepPC, ClosePC, OwnPC, Halted
  <2>2. Aside
    BY <1>0, <1>2 DEF RecvNothing, Aside, TypeOK, OwnPC
  <2>3. LoopSound'
    BY <1>0, <1>2, EngineAssumption
    DEF RecvNothing, LoopSound, TypeOK, Working, OwnPC, DataSound, IOReachesOwnClient,
        ClosedBy, Holds, PanicNeedsCleaner, InTable, Connection
  <2> QED
    BY <2>1, <2>2, <2>3, AsideInv
<1>3. CASE RecvFails
  <2>1. TypeOK'
    BY <1>0, <1>a, <1>3, EngineAssumption
    DEF RecvFails, TypeOK, LoopPC, SweepPC, ClosePC, OwnPC, Halted, Working
  <2>2. Aside
    BY <1>0, <1>3 DEF RecvFails, Aside, TypeOK, OwnPC
  <2>3. LoopSound'
    BY <1>0, <1>3, EngineAssumption
    DEF RecvFails, LoopSound, TypeOK, Working, OwnPC, DataSound, IOReachesOwnClient,
        ClosedBy, Holds, PanicNeedsCleaner, InTable, Connection
  <2> QED
    BY <2>1, <2>2, <2>3, AsideInv
<1>4. ASSUME NEW n \in 1..BufLen, RecvData(n) PROVE IInv'
  <2>1. TypeOK'
    BY SMTT(30), SMTT(60), <1>0, <1>4, EngineAssumption
    DEF RecvData, TypeOK, LoopPC, SweepPC, ClosePC, OwnPC, Halted
  <2>2. Aside
    BY <1>0, <1>4 DEF RecvData, Aside, TypeOK, OwnPC
  <2>3. LoopSound'
    BY SMTT(30), SMTT(60), <1>0, <1>4, EngineAssumption
    DEF RecvData, LoopSound, TypeOK, Working, OwnPC, DataSound, IOReachesOwnClient,
        ClosedBy, Holds, PanicNeedsCleaner, InTable, Connection
  <2> QED
    BY <2>1, <2>2, <2>3, AsideInv
<1>5. CASE Advance
  <2>1. TypeOK'
    BY SMTT(30), SMTT(60), <1>0, <1>a, <1>5, EngineAssumption
    DEF Advance, TypeOK, LoopPC, SweepPC, ClosePC, OwnPC, Halted, Connection, Working
  <2>2. Aside
    BY SMTT(30), SMTT(60), <1>0, <1>5
    DEF Advance, Aside, TypeOK, OwnPC, Connection
  <2>3. LoopSound'
    BY SMTT(30), SMTT(60), <1>0, <1>5, EngineAssumption
    DEF Advance, LoopSound, TypeOK, Working, OwnPC, DataSound, IOReachesOwnClient,
        ClosedBy, Holds, PanicNeedsCleaner, InTable, Connection
  <2> QED
    BY <2>1, <2>2, <2>3, AsideInv
<1>6. CASE ParsePanics
  <2>1. TypeOK'
    BY SMTT(30), SMTT(60), <1>0, <1>6, EngineAssumption
    DEF ParsePanics, TypeOK, LoopPC, SweepPC, ClosePC, OwnPC, Halted
  <2>2. Aside
    BY <1>0, <1>6 DEF ParsePanics, Aside, TypeOK, OwnPC
  <2>3. LoopSound'
    BY SMTT(30), SMTT(60), <1>0, <1>6, EngineAssumption
    DEF ParsePanics, LoopSound, TypeOK, Working, OwnPC, DataSound, IOReachesOwnClient,
        ClosedBy, Holds, PanicNeedsCleaner, InTable, Connection
  <2> QED
    BY <2>1, <2>2, <2>3, AsideInv
<1>7. CASE ParseFails
  <2>1. TypeOK'
    BY SMTT(30), SMTT(60), <1>0, <1>a, <1>7, EngineAssumption
    DEF ParseFails, TypeOK, LoopPC, SweepPC, ClosePC, OwnPC, Halted, Working
  <2>2. Aside
    BY <1>0, <1>7 DEF ParseFails, Aside, TypeOK, OwnPC
  <2>3. LoopSound'
    BY SMTT(30), SMTT(60), <1>0, <1>7, EngineAssumption
    DEF ParseFails, LoopSound, TypeOK, Working, OwnPC, DataSound, IOReachesOwnClient,
        ClosedBy, Holds, PanicNeedsCleaner, InTable, Connection
  <2> QED
    BY <2>1, <2>2, <2>3, AsideInv
<1>8. ASSUME NEW r \in Requests, ParseSucceeds(r) PROVE IInv'
  <2>1. TypeOK'
    <3> DEFINE s == [conn[hand] EXCEPT !.off = 0, !.req = r,
                                       !.state = "processing"]
    <3>1. s \in Connection
      BY <1>a, <1>8 DEF ParseSucceeds, Working, Connection
    <3>2. conn' = [conn EXCEPT ![hand] = s]
      BY <1>8 DEF ParseSucceeds
    <3> HIDE DEF s
    <3>3. conn' \in [Conns -> Connection]
      BY <1>0, <3>1, <3>2 DEF TypeOK
    <3> QED
      BY <1>0, <1>8, <3>3
      DEF ParseSucceeds, TypeOK, LoopPC, SweepPC, ClosePC, OwnPC, Halted
  <2>2. Aside
    BY SMTT(30), SMTT(60), <1>0, <1>8
    DEF ParseSucceeds, Aside, TypeOK, OwnPC, Connection
  <2>3. LoopSound'
    BY SMTT(30), SMTT(60), <1>0, <1>8, EngineAssumption
    DEF ParseSucceeds, Requests, LoopSound, TypeOK, Working, OwnPC, DataSound, IOReachesOwnClient,
        ClosedBy, Holds, PanicNeedsCleaner, InTable, Connection
  <2> QED
    BY <2>1, <2>2, <2>3, AsideInv
<1>9. CASE Route
  <2>1. TypeOK'
    BY SMTT(30), SMTT(60), <1>0, <1>a, <1>9, EngineAssumption
    DEF Route, TypeOK, LoopPC, SweepPC, ClosePC, OwnPC, Halted, Working
  <2>2. Aside
    BY SMTT(30), SMTT(60), <1>0, <1>9 DEF Route, Aside, TypeOK, OwnPC
  <2>3. LoopSound'
    BY SMTT(30), SMTT(60), <1>0, <1>9, EngineAssumption, OpenIsServed
    DEF Route, LoopSound, TypeOK, Working, OwnPC, DataSound, IOReachesOwnClient,
        ClosedBy, Holds, PanicNeedsCleaner, InTable, Connection
  <2> QED
    BY <2>1, <2>2, <2>3, AsideInv
<1>10. CASE Handle
  <2>1. TypeOK'
    BY <1>0, <1>10, EngineAssumption
    DEF Handle, TypeOK, LoopPC, SweepPC, ClosePC, OwnPC, Halted
  <2>2. Aside
    BY <1>0, <1>10 DEF Handle, Aside, TypeOK, OwnPC
  <2>3. LoopSound'
    BY <1>0, <1>10, EngineAssumption
    DEF Handle, LoopSound, TypeOK, Working, OwnPC, DataSound, IOReachesOwnClient,
        ClosedBy, Holds, PanicNeedsCleaner, InTable, Connection
  <2> QED
    BY <2>1, <2>2, <2>3, AsideInv
<1>11. CASE KeepAlive
  <2>1. TypeOK'
    BY SMTT(30), SMTT(60), <1>0, <1>a, <1>11, EngineAssumption
    DEF KeepAlive, TypeOK, LoopPC, SweepPC, ClosePC, OwnPC, Halted, Working
  <2>2. Aside
    BY SMTT(30), SMTT(60), <1>0, <1>11 DEF KeepAlive, Aside, TypeOK, OwnPC
  <2>3. LoopSound'
    BY SMTT(30), SMTT(60), <1>0, <1>11, EngineAssumption
    DEF KeepAlive, LoopSound, TypeOK, Working, OwnPC, DataSound, IOReachesOwnClient,
        ClosedBy, Holds, PanicNeedsCleaner, InTable, Connection
  <2> QED
    BY <2>1, <2>2, <2>3, AsideInv
<1>12. CASE Rearm
  <2>1. TypeOK'
    BY SMTT(30), SMTT(60), <1>0, <1>12, EngineAssumption
    DEF Rearm, TypeOK, LoopPC, SweepPC, ClosePC, OwnPC, Halted, Connection, LoopSound, Working
  <2>2. Aside
    BY SMTT(30), SMTT(60), <1>0, <1>12 DEF Rearm, Aside, TypeOK, OwnPC, Connection
  <2>3. LoopSound'
    BY SMTT(30), SMTT(60), <1>0, <1>12, EngineAssumption
    DEF Rearm, LoopSound, TypeOK, Working, OwnPC, DataSound, IOReachesOwnClient,
        ClosedBy, Holds, PanicNeedsCleaner, InTable, Connection
  <2> QED
    BY <2>1, <2>2, <2>3, AsideInv
<1> QED
  BY <1>1, <1>2, <1>3, <1>4, <1>5, <1>6, <1>7, <1>8, <1>9, <1>10, <1>11, <1>12
  DEF ReadStep

\* And cleanupIdleConnections, up to its calls of closeConnection.
LEMMA SweepInv ==
  ASSUME IInv, SweepStep PROVE IInv'
<1> USE DEF Goto, Crash, CallClose, table, sockets, clients, locals, sweep, closing,
            Actors
<1>0. TypeOK /\ LoopSound
  BY DEF IInv, LoopSound, LocalsSound, ClosedSound
<1>1. CASE Tick
  <2>1. TypeOK'
    BY <1>0, <1>1, EngineAssumption
    DEF Tick, TypeOK, LoopPC, SweepPC, ClosePC, OwnPC, Halted
  <2>2. Aside
    BY <1>0, <1>1 DEF Tick, Aside, TypeOK, OwnPC
  <2>3. LoopSound'
    BY <1>0, <1>1, EngineAssumption
    DEF Tick, LoopSound, TypeOK, Working, OwnPC, DataSound, IOReachesOwnClient,
        ClosedBy, Holds, PanicNeedsCleaner, InTable, Connection
  <2> QED
    BY <2>1, <2>2, <2>3, AsideInv
<1>2. ASSUME NEW f \in Fds, Scan(f) PROVE IInv'
  <2>1. TypeOK'
    BY <1>0, <1>2, EngineAssumption
    DEF Scan, TypeOK, LoopPC, SweepPC, ClosePC, OwnPC, Halted
  <2>2. Aside
    BY <1>0, <1>2 DEF Scan, Aside, TypeOK, OwnPC
  <2>3. LoopSound'
    BY <1>0, <1>2, EngineAssumption
    DEF Scan, LoopSound, TypeOK, Working, OwnPC, DataSound, IOReachesOwnClient,
        ClosedBy, Holds, PanicNeedsCleaner, InTable, Connection
  <2> QED
    BY <2>1, <2>2, <2>3, AsideInv
<1>3. CASE ScanDone
  <2>1. TypeOK'
    BY <1>0, <1>3, EngineAssumption
    DEF ScanDone, TypeOK, LoopPC, SweepPC, ClosePC, OwnPC, Halted
  <2>2. Aside
    BY <1>0, <1>3 DEF ScanDone, Aside, TypeOK, OwnPC
  <2>3. LoopSound'
    BY <1>0, <1>3, EngineAssumption
    DEF ScanDone, LoopSound, TypeOK, Working, OwnPC, DataSound, IOReachesOwnClient,
        ClosedBy, Holds, PanicNeedsCleaner, InTable, Connection
  <2> QED
    BY <2>1, <2>2, <2>3, AsideInv
<1>4. ASSUME NEW f \in Fds, Sweep(f) PROVE IInv'
  <2>1. TypeOK'
    BY <1>0, <1>4, EngineAssumption
    DEF Sweep, TypeOK, LoopPC, SweepPC, ClosePC, OwnPC, Halted
  <2>2. Aside
    BY <1>0, <1>4 DEF Sweep, Aside, TypeOK, OwnPC
  <2>3. LoopSound'
    BY <1>0, <1>4, EngineAssumption
    DEF Sweep, LoopSound, TypeOK, Working, OwnPC, DataSound, IOReachesOwnClient,
        ClosedBy, Holds, PanicNeedsCleaner, InTable, Connection
  <2> QED
    BY <2>1, <2>2, <2>3, AsideInv
<1>5. CASE SweepDone
  <2>1. TypeOK'
    BY <1>0, <1>5, EngineAssumption
    DEF SweepDone, TypeOK, LoopPC, SweepPC, ClosePC, OwnPC, Halted
  <2>2. Aside
    BY <1>0, <1>5 DEF SweepDone, Aside, TypeOK, OwnPC
  <2>3. LoopSound'
    BY <1>0, <1>5, EngineAssumption
    DEF SweepDone, LoopSound, TypeOK, Working, OwnPC, DataSound, IOReachesOwnClient,
        ClosedBy, Holds, PanicNeedsCleaner, InTable, Connection
  <2> QED
    BY <2>1, <2>2, <2>3, AsideInv
<1> QED
  BY <1>1, <1>2, <1>3, <1>4, <1>5 DEF SweepStep

\* Every step of either goroutine and of its environment preserves IInv.
LEMMA NextInv == IInv /\ Next => IInv'
<1> SUFFICES ASSUME IInv, Next PROVE IInv'
  OBVIOUS
<1>0. Running
  BY DEF Next
<1>1. CASE Environment
  BY <1>1, EnvironmentInv
<1>2. CASE DispatchStep
  BY <1>2, DispatchInv
<1>3. CASE ReadStep
  BY <1>3, ReadInv
<1>4. CASE SweepStep
  BY <1>4, SweepInv
<1>5. ASSUME NEW a \in Actors, CloseStep(a) PROVE IInv'
  BY <1>0, <1>5, CloseInv
<1>6. CASE AcceptStep
  BY <1>6, AcceptInv
<1> QED
  BY <1>1, <1>2, <1>3, <1>4, <1>5, <1>6
  DEF Next, LoopStep, CleanerStep, DispatchStep, AcceptStep, ReadStep, SweepStep,
      Actors

\* IInv is an invariant of the engine.
LEMMA Invariance == Spec => []IInv
<1>1. ASSUME IInv, UNCHANGED vars PROVE IInv'
  <2> USE DEF vars, table, sockets, locals, closing
  <2>1. TypeOK'
    BY <1>1 DEF IInv, TypeOK, vars, clients, sweep
  <2>2. Aside
    BY <1>1 DEF Aside
  <2>3. LoopSound'
    BY <1>1 DEF IInv, LocalsSound, ClosedSound, LoopSound, IOReachesOwnClient, ClosedBy,
           Holds, DataSound, PanicNeedsCleaner, InTable
  <2> QED
    BY <1>1, <2>1, <2>2, <2>3, AsideInv
<1> QED
  BY InitInv, NextInv, <1>1, PTL DEF Spec

\* Type correctness.
THEOREM TypeCorrect == Spec => []TypeOK
BY Invariance, PTL DEF IInv

\* Every Connection object has exactly one owner at every moment, whatever the
\* event loop and the idle cleaner do concurrently in closeConnection.
THEOREM ExclusiveOwnership == Spec => []OneOwner
BY Invariance, PTL DEF IInv

\* Table entries are open, watched and recorded in their conn: Insert comes
\* after the poller's Add, and Delete before its Remove and the close.
THEOREM TableIsSound == Spec => []TableSound
BY Invariance, PTL DEF IInv

\* syscall.Close in closeConnection only hits the connection's own descriptor.
THEOREM DescriptorSafety == Spec => []CloseHitsOwnDescriptor
BY Invariance, PTL DEF IInv

\* Every open descriptor is in the table, or in the hands of the goroutine that
\* is inserting or closing it: no path through the handlers loses one.
THEOREM NothingLeaks == Spec => []NoDescriptorLeak
BY Invariance, PTL DEF IInv

\* Reads and responses never reach another client's descriptor, even when the
\* cleaner closes the connection while it is being served.
THEOREM NoMisdirectedIO == Spec => []IOReachesOwnClient
BY Invariance, PTL DEF IInv

\* Only the concurrent cleaner can make the loop dereference a nil request or
\* slice a nil buffer.
THEOREM PanicOnlyByCleaner == Spec => []PanicNeedsCleaner
BY Invariance, PTL DEF IInv

\* Insertion never overwrites the entry of another connection.
THEOREM InsertIsFresh == Spec => NeverOverwritten
<1>1. IInv /\ [Next]_vars =>
        [\A f \in Fds : connections[f] # NoConn =>
           connections'[f] \in {connections[f], NoConn}]_vars
  <2> SUFFICES ASSUME IInv, Next, NEW f \in Fds, connections[f] # NoConn
               PROVE  connections'[f] \in {connections[f], NoConn}
    OBVIOUS
  <2>1. CASE Insert
    BY <2>1 DEF Insert, IInv, TypeOK, LocalsSound
  <2>2. ASSUME NEW a \in Actors, Delete(a)
        PROVE  connections'[f] \in {connections[f], NoConn}
    BY <2>2 DEF Delete, IInv, TypeOK
  <2>3. CASE UNCHANGED connections
    BY <2>3
  <2> QED
    BY <2>1, <2>2, <2>3
    DEF Next, Environment, LoopStep, CleanerStep, CloseStep, Actors, table,
        Connect, Network, Elapse, Wait, BatchDone, DispatchAccept, Lookup,
        Touch, AcceptFails, AcceptDropped, Accept, PollerAdd, PollerAddFails,
        Remove, ReleaseObjects, Close, Put, ReadArgs, RecvNothing, RecvFails,
        RecvData, Advance, ParsePanics, ParseFails, ParseSucceeds, Route,
        Handle, KeepAlive, Rearm, Tick, Scan, ScanDone, Sweep, SweepDone
<1> QED
  BY Invariance, <1>1, PTL DEF Spec, NeverOverwritten
-----------------------------------------------------------------------------
(* SmartPool, with Optimize, Stats and the garbage collector at any moment. *)

CONSTANTS Users, Objects, NoObject, Fields, Cleared, MaxGets, MaxStats, MinGets,
          Target, Warmup, Extra, Width
VARIABLES kept, dirty, late, gets, puts, news, step, obj, opt, read, stats

SP == INSTANCE SmartPool WITH pool <- kept, pc <- step

\* A user has an object exactly from Get's sync.Pool.Get to Put's
\* sync.Pool.Put.
HandsSound ==
  /\ kept \subseteq Objects /\ late \subseteq Objects
  /\ dirty \in [Objects -> SUBSET Fields]
  /\ obj \in [Users -> Objects \union {NoObject}]
  /\ step \in [Users -> {"idle", "take", "have", "reset", "back"}]
  /\ \A u \in Users : step[u] \in {"have", "reset", "back"} <=> obj[u] # NoObject

\* Between reset and sync.Pool.Put the object is clean where resetFunc clears it,
\* and stays so, unless it was shared.
CleanOnReturn ==
  \A u \in Users :
    step[u] = "back" => obj[u] \in late \/ dirty[obj[u]] \intersect Cleared = {}

\* The inductive invariant.  CleanOnGet needs CleanOnReturn for PutBack, and
\* both need OneOwner: Use must not dirty an object that somebody else has
\* reset, or that is in the pool.
PoolInv == HandsSound /\ CleanOnReturn /\ SP!CleanOnGet /\ SP!OneOwner

\* NewSmartPool's pool holds new objects only.
LEMMA PoolInit == ASSUME SP!SmartPoolAssumption PROVE SP!Init => PoolInv
BY DEF SP!SmartPoolAssumption, SP!Init, PoolInv, HandsSound, CleanOnReturn,
       SP!CleanOnGet, SP!OneOwner

\* Every step of a user, of the optimizer and of the collector preserves
\* PoolInv.
LEMMA PoolNext ==
  ASSUME SP!SmartPoolAssumption PROVE PoolInv /\ [SP!Next]_SP!vars => PoolInv'
<1> SUFFICES ASSUME PoolInv, [SP!Next]_SP!vars PROVE PoolInv'
  OBVIOUS
<1> USE DEF SP!SmartPoolAssumption, PoolInv, HandsSound, CleanOnReturn, SP!CleanOnGet,
        SP!OneOwner, SP!Goto, SP!counters, SP!user, SP!optimizer, SP!Unused
<1>1. ASSUME NEW u \in Users, SP!Get(u) PROVE PoolInv'
  BY <1>1 DEF SP!Get
<1>2. ASSUME NEW u \in Users, SP!Take(u) PROVE PoolInv'
  BY SMTT(30), SMTT(60), <1>2 DEF SP!Take
<1>3. ASSUME NEW u \in Users, SP!New(u) PROVE PoolInv'
  BY SMTT(30), SMTT(60), <1>3 DEF SP!New
<1>4. ASSUME NEW u \in Users, SP!Use(u) PROVE PoolInv'
  BY SMTT(30), SMTT(60), <1>4 DEF SP!Use
<1>5. ASSUME NEW u \in Users, SP!Put(u) PROVE PoolInv'
  BY <1>5 DEF SP!Put
<1>6. ASSUME NEW u \in Users, SP!Reset(u) PROVE PoolInv'
  BY SMTT(30), SMTT(60), <1>6 DEF SP!Reset
<1>7. ASSUME NEW u \in Users, SP!PutBack(u) PROVE PoolInv'
  BY <1>7 DEF SP!PutBack
<1>8. CASE SP!Collect
  BY <1>8 DEF SP!Collect
<1>9. CASE SP!Optimize
  BY SMTT(30), SMTT(60), <1>9 DEF SP!Optimize
<1>10. CASE SP!LoadGets \/ SP!LoadNews \/ UNCHANGED SP!vars
  BY <1>10 DEF SP!LoadGets, SP!LoadNews, SP!vars
<1>11. ASSUME NEW u \in Users, SP!Share(u) PROVE PoolInv'
  BY <1>11 DEF SP!Share
<1>12. CASE SP!UseLate
  BY SMTT(30), SMTT(60), <1>12 DEF SP!UseLate
<1> QED
  BY <1>1, <1>2, <1>3, <1>4, <1>5, <1>6, <1>7, <1>8, <1>9, <1>10, <1>11, <1>12
  DEF SP!Next, SP!Step

\* PoolInv is an invariant of the pool.
LEMMA PoolInvariance == ASSUME SP!SmartPoolAssumption PROVE SP!Spec => []PoolInv
BY PoolInit, PoolNext, PTL DEF SP!Spec

\* In the fields resetFunc clears, what Get returns carries nothing of an earlier
\* use, whoever used it, unless its user shared it with a goroutine that outlives
\* the use.
THEOREM GetReturnsClean ==
  ASSUME SP!SmartPoolAssumption PROVE SP!Spec => []SP!CleanOnGet
BY PoolInvariance, PTL DEF PoolInv

\* No object is in the hands of two users, or of one and in the pool.
THEOREM ExclusiveObjects ==
  ASSUME SP!SmartPoolAssumption PROVE SP!Spec => []SP!OneOwner
BY PoolInvariance, PTL DEF PoolInv
-----------------------------------------------------------------------------
(* HTTP2Server: ListenAndServe and Close under one mutex.                  *)

CONSTANTS Callers, MaxCalls, Nobody
VARIABLES mu, closed, at, stopped, calls

H2 == INSTANCE HTTP2Server WITH pc <- at

\* The inductive invariant: whoever serves holds the mutex that Close needs.
ServesLocked ==
  /\ at \in [Callers -> {"idle", "listen", "serving", "close"}]
  /\ \A c \in Callers : at[c] = "serving" => mu = c
  /\ H2!ClosedServesNothing

\* Every call keeps it.
LEMMA CallsInv == ASSUME H2!HTTP2Assumption PROVE H2!Spec => []ServesLocked
<1> USE DEF H2!HTTP2Assumption, ServesLocked, H2!ClosedServesNothing
<1>1. H2!Init => ServesLocked
  BY DEF H2!Init
<1>2. ServesLocked /\ [H2!Next]_H2!vars => ServesLocked'
  <2> SUFFICES ASSUME ServesLocked, [H2!Next]_H2!vars PROVE ServesLocked'
    OBVIOUS
  <2>1. ASSUME NEW c \in Callers, NEW op \in {"listen", "close"}, H2!Call(c, op)
        PROVE  ServesLocked'
    BY <2>1 DEF H2!Call
  <2>2. ASSUME NEW c \in Callers, H2!ListenAndServe(c) PROVE ServesLocked'
    BY <2>2 DEF H2!ListenAndServe
  <2>3. ASSUME NEW c \in Callers, H2!ServeEnds(c) PROVE ServesLocked'
    BY <2>3 DEF H2!ServeEnds
  <2>4. ASSUME NEW c \in Callers, H2!Close(c) PROVE ServesLocked'
    BY <2>4 DEF H2!Close
  <2>5. CASE UNCHANGED H2!vars
    BY <2>5 DEF H2!vars
  <2> QED
    BY <2>1, <2>2, <2>3, <2>4, <2>5 DEF H2!Next
<1> QED
  BY <1>1, <1>2, PTL DEF H2!Spec

\* No interleaving of any number of calls serves on a closed server: Close and
\* ListenAndServe decide under the same mutex.
THEOREM NeverServesClosed ==
  ASSUME H2!HTTP2Assumption PROVE H2!Spec => []H2!ClosedServesNothing
BY CallsInv, PTL DEF ServesLocked

\* Close of a server that serves waits until the serving has ended by itself,
\* however the calls interleave.
THEOREM CloseNeverInterrupts ==
  ASSUME H2!HTTP2Assumption PROVE H2!Spec => H2!CloseWaits
<1>1. ASSUME ServesLocked, H2!Next, closed' # closed
      PROVE  \A c \in Callers : at[c] # "serving"
  BY <1>1
  DEF H2!HTTP2Assumption, ServesLocked, H2!Next, H2!Call, H2!ListenAndServe,
      H2!ServeEnds, H2!Close
<1>2. ServesLocked /\ [H2!Next]_H2!vars
        => [closed' # closed => \A c \in Callers : at[c] # "serving"]_H2!vars
  BY <1>1
<1> QED
  BY CallsInv, <1>2, PTL DEF H2!Spec, H2!CloseWaits
=============================================================================

-------------------------------- MODULE Hub --------------------------------
(***************************************************************************)
(* The WebSocket hub of core/websocket/hub.go, with the part of            *)
(* core/websocket/handler.go that registers a connection.                  *)
(*                                                                         *)
(* Goroutines: Hub.run; for each client its HandleConnection, then its     *)
(* readPump and writePump; the senders, goroutines of the application that *)
(* call SendTo, Join and Room.Broadcast.  Payloads are abstracted to how   *)
(* many are in a Send channel.  A client is the object NewClient makes;    *)
(* IdOf is the ID the application gave it, which another client may have   *)
(* too.  A map keyed by ID is the set of the clients in it.  Only run      *)
(* changes Hub.clients and closes clients, so one of its cases is one      *)
(* step, but for the sends of a broadcast.                                 *)
(***************************************************************************)
EXTENDS Naturals, Sequences, FiniteSets, Functions

CONSTANTS Clients, NoClient, Ids, Senders,
          IdOf,                \* Client.ID
          Rooms, NoRoom,       \* the Room objects, all of one name
          MaxClients,          \* Hub.maxClients
          RegCap, UnregCap, BroadcastCap, SendCap, \* capacities of the channels
          MaxBroadcasts        \* bound on the calls of Broadcast

HubAssumption ==
  /\ NoClient \notin Clients /\ NoRoom \notin Rooms
  /\ IdOf \in [Clients -> Ids] /\ MaxBroadcasts \in Nat
  /\ {MaxClients, RegCap, UnregCap, BroadcastCap, SendCap} \subseteq Nat \ {0}

VARIABLES
  clients,                        \* Hub.clients
  register, unregister, broadcast,\* the channels of the hub
  send, closed,                   \* Client.Send (its length), Client.closed
  broken,                         \* connections whose peer is gone
  rooms, made,                    \* Hub.rooms: the room of the name; all made
  members,                        \* Room.clients of each
  reg,                            \* HandleConnection of each client
  rpump, wpump,                   \* readPump and writePump of each client
  hpc, hroom, todo, slow,         \* run: where it is, the room it sends to, the
                                  \* keys still to visit, the client it is about
                                  \* to unregister
  holder, task,                   \* each sender: the client it has loaded, and
                                  \* what for
  nbroadcasts,
  panicked, victim                \* who sent on a closed channel, or "no", and
                                  \* whose it was

channels == <<register, unregister, broadcast>>
room     == <<rooms, made, members>>
pumps    == <<rpump, wpump>>
loop     == <<hpc, hroom, todo, slow>>
sender   == <<holder, task>>
panic    == <<panicked, victim>>
vars == <<clients, channels, send, closed, broken, room, reg, pumps, loop, sender,
          nbroadcasts, panic>>

Init ==
  /\ clients = {} /\ register = <<>> /\ unregister = <<>> /\ broadcast = <<>>
  /\ send = [c \in Clients |-> 0] /\ closed = {} /\ broken = {}
  /\ rooms = NoRoom /\ made = {} /\ members = [r \in Rooms |-> {}]
  /\ reg = [c \in Clients |-> "new"]
  /\ rpump = [c \in Clients |-> "off"] /\ wpump = [c \in Clients |-> "off"]
  /\ hpc = "select" /\ hroom = NoRoom /\ todo = {} /\ slow = NoClient
  /\ holder = [p \in Senders |-> NoClient] /\ task = [p \in Senders |-> "send"]
  /\ nbroadcasts = 0 /\ panicked = "no" /\ victim = NoClient

Running == panicked = "no"

\* Load, Store and Delete of a map keyed by ID.
Load(m, i)   == {c \in m : IdOf[c] = i}
Delete(m, i) == {c \in m : IdOf[c] # i}
Store(m, c)  == Delete(m, IdOf[c]) \cup {c}
-----------------------------------------------------------------------------
(* HandleConnection and Hub.Register.                                      *)

\* The connection is upgraded, and Register counts the clients.  At the limit
\* HandleConnection closes the connection and returns the error.
Count(c) ==
  /\ Running /\ reg[c] = "new"
  /\ IF Cardinality(clients) >= MaxClients
     THEN /\ reg' = [reg EXCEPT ![c] = "refused"] /\ broken' = broken \cup {c}
     ELSE /\ reg' = [reg EXCEPT ![c] = "counted"] /\ UNCHANGED broken
  /\ UNCHANGED <<clients, channels, send, closed, room, pumps, loop, sender,
                 nbroadcasts, panic>>

\* h.register <- client, and the pumps start.
Register(c) ==
  /\ Running /\ reg[c] = "counted" /\ Len(register) < RegCap
  /\ register' = Append(register, c) /\ reg' = [reg EXCEPT ![c] = "registered"]
  /\ rpump' = [rpump EXCEPT ![c] = "run"] /\ wpump' = [wpump EXCEPT ![c] = "run"]
  /\ UNCHANGED <<clients, unregister, broadcast, send, closed, broken, room, loop,
                 sender, nbroadcasts, panic>>

\* The peer goes away.
Disconnect(c) ==
  /\ Running /\ reg[c] = "registered" /\ c \notin broken
  /\ broken' = broken \cup {c}
  /\ UNCHANGED <<clients, channels, send, closed, room, reg, pumps, loop, sender,
                 nbroadcasts, panic>>
-----------------------------------------------------------------------------
(* readPump, writePump and Unregister.                                     *)

\* ReadMessage fails: the peer is gone or the hub closed the connection.
ReadEnds(c) ==
  /\ Running /\ rpump[c] = "run" /\ c \in broken
  /\ rpump' = [rpump EXCEPT ![c] = "unregister"]
  /\ UNCHANGED <<clients, channels, send, closed, broken, room, reg, wpump, loop,
                 sender, nbroadcasts, panic>>

\* A payload is received and written.  To a peer that is gone the write may
\* still succeed; on a connection the hub has closed it fails.
WritePayload(c) ==
  /\ Running /\ wpump[c] = "run" /\ send[c] > 0
  /\ send' = [send EXCEPT ![c] = @ - 1]
  /\ \/ c \notin closed /\ UNCHANGED wpump
     \/ c \in broken /\ wpump' = [wpump EXCEPT ![c] = "unregister"]
  /\ UNCHANGED <<clients, channels, closed, broken, room, reg, rpump, loop, sender,
                 nbroadcasts, panic>>

\* The channel is closed and empty: the range loop ends.
SendDrained(c) ==
  /\ Running /\ wpump[c] = "run" /\ send[c] = 0 /\ c \in closed
  /\ wpump' = [wpump EXCEPT ![c] = "unregister"]
  /\ UNCHANGED <<clients, channels, send, closed, broken, room, reg, rpump, loop,
                 sender, nbroadcasts, panic>>

\* defer h.Unregister(client)
ReadPumpLeaves(c) ==
  /\ Running /\ rpump[c] = "unregister" /\ Len(unregister) < UnregCap
  /\ unregister' = Append(unregister, c) /\ rpump' = [rpump EXCEPT ![c] = "done"]
  /\ UNCHANGED <<clients, register, broadcast, send, closed, broken, room, reg,
                 wpump, loop, sender, nbroadcasts, panic>>

WritePumpLeaves(c) ==
  /\ Running /\ wpump[c] = "unregister" /\ Len(unregister) < UnregCap
  /\ unregister' = Append(unregister, c) /\ wpump' = [wpump EXCEPT ![c] = "done"]
  /\ UNCHANGED <<clients, register, broadcast, send, closed, broken, room, reg,
                 rpump, loop, sender, nbroadcasts, panic>>
-----------------------------------------------------------------------------
(* Hub.run.  select takes any channel that is ready.                       *)

RunRegister ==
  /\ Running /\ hpc = "select" /\ register # <<>>
  /\ register' = Tail(register) /\ clients' = Store(clients, Head(register))
  /\ UNCHANGED <<unregister, broadcast, send, closed, broken, room, reg, pumps,
                 loop, sender, nbroadcasts, panic>>

\* The map is asked for the ID: if some client is in it under that ID, its entry
\* is deleted, and the client received is closed.
RunUnregister ==
  /\ Running /\ hpc = "select" /\ unregister # <<>>
  /\ LET c == Head(unregister)
         shut == IF Load(clients, IdOf[c]) # {} THEN {c} ELSE {}
     IN  /\ clients' = Delete(clients, IdOf[c])
         /\ closed' = closed \cup shut /\ broken' = broken \cup shut
  /\ unregister' = Tail(unregister)
  /\ UNCHANGED <<register, broadcast, send, room, reg, pumps, loop, sender,
                 nbroadcasts, panic>>

\* A message for everybody starts clients.Range; one for the room is sent by
\* Room.Broadcast on the room GetRoom finds, if there is one.
RunBroadcast ==
  /\ Running /\ hpc = "select" /\ broadcast # <<>>
  /\ broadcast' = Tail(broadcast)
  /\ \/ /\ Head(broadcast) = "all" /\ hpc' = "clients"
        /\ todo' = {IdOf[c] : c \in clients} /\ UNCHANGED hroom
     \/ /\ Head(broadcast) = "room" /\ rooms # NoRoom /\ hpc' = "room"
        /\ todo' = {IdOf[c] : c \in members[rooms]} /\ hroom' = rooms
     \/ /\ Head(broadcast) = "room" /\ rooms = NoRoom
        /\ UNCHANGED <<hpc, todo, hroom>>
  /\ UNCHANGED <<clients, register, unregister, send, closed, broken, room, reg,
                 pumps, slow, sender, nbroadcasts, panic>>

\* select { case client.Send <- payload: ... default: ... }
TrySend(c, who) ==
  /\ send' = IF c \notin closed /\ send[c] < SendCap
             THEN [send EXCEPT ![c] = @ + 1] ELSE send
  /\ panicked' = IF c \in closed THEN who ELSE "no"
  /\ victim' = IF c \in closed THEN c ELSE NoClient

\* Range comes to a key of the map; the client under it is handed the payload, or
\* its channel is full.
SendNext ==
  /\ Running /\ hpc \in {"clients", "room"}
  /\ \E c \in IF hpc = "clients" THEN clients ELSE members[hroom] :
       /\ IdOf[c] \in todo /\ todo' = todo \ {IdOf[c]} /\ TrySend(c, hpc)
       /\ slow' = IF hpc = "clients" /\ c \notin closed /\ send[c] = SendCap
                  THEN c ELSE NoClient
  /\ hpc' = IF slow' # NoClient THEN "full" ELSE hpc
  /\ UNCHANGED <<clients, channels, closed, broken, room, reg, pumps, hroom, sender,
                 nbroadcasts>>

\* Range comes to a key that has been deleted from the room meanwhile.
SkipNext ==
  /\ Running /\ hpc = "room"
  /\ \E i \in todo : Load(members[hroom], i) = {} /\ todo' = todo \ {i}
  /\ UNCHANGED <<clients, channels, send, closed, broken, room, reg, pumps, hpc,
                 hroom, slow, sender, nbroadcasts, panic>>

\* default: h.unregister <- client, on the channel that run itself receives from
UnregisterSlow ==
  /\ Running /\ hpc = "full" /\ Len(unregister) < UnregCap
  /\ unregister' = Append(unregister, slow)
  /\ slow' = NoClient /\ hpc' = "clients"
  /\ UNCHANGED <<clients, register, broadcast, send, closed, broken, room, reg,
                 pumps, hroom, todo, sender, nbroadcasts, panic>>

RangeEnds ==
  /\ Running /\ hpc \in {"clients", "room"} /\ todo = {} /\ hpc' = "select"
  /\ UNCHANGED <<clients, channels, send, closed, broken, room, reg, pumps, hroom,
                 todo, slow, sender, nbroadcasts, panic>>
-----------------------------------------------------------------------------
(* The application: Broadcast, SendTo and the rooms.                       *)

Broadcast ==
  /\ Running /\ nbroadcasts < MaxBroadcasts /\ Len(broadcast) < BroadcastCap
  /\ \E to \in {"all", "room"} : broadcast' = Append(broadcast, to)
  /\ nbroadcasts' = nbroadcasts + 1
  /\ UNCHANGED <<clients, register, unregister, send, closed, broken, room, reg,
                 pumps, loop, sender, panic>>

\* A sender loads a client: SendTo, or GetClient of Join, from the hub's map.
LoadClient(p) ==
  /\ Running /\ holder[p] = NoClient
  /\ \E c \in clients : holder' = [holder EXCEPT ![p] = c]
  /\ \E t \in {"send", "join"} : task' = [task EXCEPT ![p] = t]
  /\ UNCHANGED <<clients, channels, send, closed, broken, room, reg, pumps, loop,
                 nbroadcasts, panic>>

\* Room.Broadcast called by the application: its Range comes to a member of the
\* room it was called on.
LoadMember(p) ==
  /\ Running /\ holder[p] = NoClient
  /\ \E r \in made : \E c \in members[r] : holder' = [holder EXCEPT ![p] = c]
  /\ task' = [task EXCEPT ![p] = "send"]
  /\ UNCHANGED <<clients, channels, send, closed, broken, room, reg, pumps, loop,
                 nbroadcasts, panic>>

\* The send, to a client that may have been closed since.
SendTo(p) ==
  /\ Running /\ holder[p] # NoClient /\ task[p] = "send"
  /\ TrySend(holder[p], "sender") /\ holder' = [holder EXCEPT ![p] = NoClient]
  /\ UNCHANGED <<clients, channels, closed, broken, room, reg, pumps, loop, task,
                 nbroadcasts>>

\* Room.Join, on any room the application was given: r.clients.Store
Join(p) ==
  /\ Running /\ holder[p] # NoClient /\ task[p] = "join"
  /\ \E r \in made : members' = [members EXCEPT ![r] = Store(@, holder[p])]
  /\ holder' = [holder EXCEPT ![p] = NoClient]
  /\ UNCHANGED <<clients, channels, send, closed, broken, rooms, made, reg, pumps,
                 loop, task, nbroadcasts, panic>>

Leave ==
  /\ Running
  /\ \E r \in made : \E i \in Ids : members' = [members EXCEPT ![r] = Delete(@, i)]
  /\ UNCHANGED <<clients, channels, send, closed, broken, rooms, made, reg, pumps,
                 loop, sender, nbroadcasts, panic>>

\* CreateRoom stores an empty room under the name; who has the room it replaces
\* may go on using it.
CreateRoom ==
  /\ Running
  /\ \E r \in Rooms \ made : made' = made \cup {r} /\ rooms' = r
  /\ UNCHANGED <<clients, channels, send, closed, broken, members, reg, pumps, loop,
                 sender, nbroadcasts, panic>>

\* DeleteRoom: every member leaves, and the name is free.
DeleteRoom ==
  /\ Running /\ rooms # NoRoom
  /\ members' = [members EXCEPT ![rooms] = {}] /\ rooms' = NoRoom
  /\ UNCHANGED <<clients, channels, send, closed, broken, made, reg, pumps, loop,
                 sender, nbroadcasts, panic>>
-----------------------------------------------------------------------------
Run == \/ RunRegister \/ RunUnregister \/ RunBroadcast \/ SendNext \/ SkipNext
       \/ UnregisterSlow \/ RangeEnds

ReadPump(c) == ReadEnds(c) \/ ReadPumpLeaves(c)
WritePump(c) == WritePayload(c) \/ SendDrained(c) \/ WritePumpLeaves(c)

Sender(p) == LoadClient(p) \/ LoadMember(p) \/ SendTo(p) \/ Join(p)

Next ==
  \/ Run \/ Broadcast \/ Leave \/ CreateRoom \/ DeleteRoom
  \/ \E p \in Senders : Sender(p)
  \/ \E c \in Clients : \/ Count(c) \/ Register(c) \/ Disconnect(c)
                        \/ ReadPump(c) \/ WritePump(c)

Spec == Init /\ [][Next]_vars

-----------------------------------------------------------------------------
\* Type invariant of the hub: channels within their capacities.
TypeOK ==
  /\ clients \subseteq Clients /\ closed \subseteq Clients /\ broken \subseteq Clients
  /\ rooms \in Rooms \cup {NoRoom} /\ made \subseteq Rooms
  /\ members \in [Rooms -> SUBSET Clients]
  /\ register \in Seq(Clients) /\ Len(register) <= RegCap
  /\ unregister \in Seq(Clients) /\ Len(unregister) <= UnregCap
  /\ broadcast \in Seq({"all", "room"}) /\ Len(broadcast) <= BroadcastCap
  /\ send \in [Clients -> 0 .. SendCap]
  /\ reg \in [Clients -> {"new", "counted", "registered", "refused"}]
  /\ rpump \in [Clients -> {"off", "run", "unregister", "done"}]
  /\ wpump \in [Clients -> {"off", "run", "unregister", "done"}]
  /\ hpc \in {"select", "clients", "room", "full"} /\ hroom \in Rooms \cup {NoRoom}
  /\ todo \subseteq Ids /\ slow \in Clients \cup {NoClient}
  /\ holder \in [Senders -> Clients \cup {NoClient}]
  /\ task \in [Senders -> {"send", "join"}]
  /\ nbroadcasts \in 0 .. MaxBroadcasts
  /\ panicked \in {"no", "clients", "room", "sender"}
  /\ victim \in Clients \cup {NoClient}

\* The clients that share their ID with nobody.
Unshared == {c \in Clients : \A d \in Clients : IdOf[d] = IdOf[c] => d = c}

\* Hub.run never sends to a closed client of its own map whose ID no other client
\* has, although a client may be queued for unregistration several times, also
\* before it is registered.  For a client that shares its ID this is false: run
\* may take its unregistration before its registration, find the other's entry,
\* close it, and then store the closed client.  (SendTo and rooms have no such
\* protection at all.)
BroadcastNeverPanics == panicked = "clients" => victim \notin Unshared

\* A client whose two pumps have ended does not stay in the map: its
\* unregistration has been handled or is still queued.  This too is about clients
\* whose ID nobody shares: one that run closed before it stored it stays.
NoZombie ==
  \A c \in clients \cap Unshared :
    rpump[c] = "done" /\ wpump[c] = "done" => c \in Range(unregister)

\* run has sent itself more unregistrations than its channel holds.
Stuck == hpc = "full" /\ Len(unregister) = UnregCap

\* That is for ever: nobody but run receives from the unregister channel, so no
\* step of any goroutine frees a place in it again.
StuckForever == [][Stuck => Stuck']_vars

\* Only a closed client's writePump stops taking payloads, or one whose
\* connection failed; a registered healthy client keeps both pumps.
HealthyKeepsPumps ==
  \A c \in clients \ broken : rpump[c] = "run" /\ wpump[c] = "run"
=============================================================================

------------------------------- MODULE Broker -------------------------------
(***************************************************************************)
(* Server-sent events: the broker of core/sse/broker.go with the handler   *)
(* and the stream and room of core/sse/handler.go and core/sse/stream.go.  *)
(*                                                                         *)
(* Goroutines: Broker.run; Handler.HandleConnection of each client; and    *)
(* senders that call Client.Send from outside run: the keepalive ticker,   *)
(* callers of PublishToClient and of Room.Broadcast.  A client is the      *)
(* object one Subscribe creates; IdOf is its ID, which a reconnecting peer *)
(* uses again.  An event is its place in the order of Publish, 0 for an    *)
(* event that did not pass through the messages channel.                   *)
(***************************************************************************)
EXTENDS Naturals, Sequences, FiniteSets, Functions

CONSTANTS Clients, NoClient, Ids, Senders,
          IdOf,                \* Client.ID
          MaxClients,          \* Broker.maxClients
          QueueCap,            \* capacity of newClients, deadClients, messages
          ChannelCap,          \* capacity of Client.Channel
          MaxEvents            \* bound on the calls of Publish

BrokerAssumption ==
  /\ NoClient \notin Clients /\ IdOf \in [Clients -> Ids]
  /\ {MaxClients, QueueCap, ChannelCap, MaxEvents} \subseteq Nat \ {0}

VARIABLES
  clients,                           \* Broker.clients: ID -> client
  newClients, deadClients, messages, \* the channels of run
  channel, closed,                   \* Client.Channel, closeCh and Channel closed
  handler,                           \* HandleConnection of each client
  got,                               \* the last published event it was handed
  todo, event,                       \* run: clients still to be sent the event
  members,                           \* Room.clients
  checked,                           \* Send of each sender: past IsClosed for
  published, panicked

queues == <<newClients, deadClients, messages>>
run    == <<todo, event>>
vars   == <<clients, queues, channel, closed, handler, got, run, members, checked,
            published, panicked>>

Init ==
  /\ clients = [i \in Ids |-> NoClient]
  /\ newClients = <<>> /\ deadClients = <<>> /\ messages = <<>>
  /\ channel = [c \in Clients |-> <<>>] /\ closed = {}
  /\ handler = [c \in Clients |-> "new"] /\ got = [c \in Clients |-> 0]
  /\ todo = {} /\ event = 0 /\ members = {}
  /\ checked = [s \in Senders |-> NoClient]
  /\ published = 0 /\ panicked = "no"

Running  == panicked = "no"
Entries  == {clients[i] : i \in Ids} \ {NoClient}
-----------------------------------------------------------------------------
(* Handler.HandleConnection, with Stream.Subscribe and Unsubscribe.        *)

\* Register counts the clients, and refuses one at the limit.
Count(c) ==
  /\ Running /\ handler[c] = "new"
  /\ handler' = [handler EXCEPT ![c] = IF Cardinality(Entries) >= MaxClients
                                       THEN "refused" ELSE "counted"]
  /\ UNCHANGED <<clients, queues, channel, closed, got, run, members, checked,
                 published, panicked>>

Subscribe(c) ==
  /\ Running /\ handler[c] = "counted" /\ Len(newClients) < QueueCap
  /\ newClients' = Append(newClients, c)
  /\ handler' = [handler EXCEPT ![c] = "connect"]
  /\ UNCHANGED <<clients, deadClients, messages, channel, closed, got, run, members,
                 checked, published, panicked>>

\* onEvent("connected") succeeds, or fails and the handler returns.
Connected(c) ==
  /\ Running /\ handler[c] = "connect"
  /\ \E to \in {"loop", "leaving"} : handler' = [handler EXCEPT ![c] = to]
  /\ UNCHANGED <<clients, queues, channel, closed, got, run, members, checked,
                 published, panicked>>

\* select: an event is received and handed to onEvent, which may fail.
Receive(c) ==
  /\ Running /\ handler[c] = "loop" /\ channel[c] # <<>>
  /\ channel' = [channel EXCEPT ![c] = Tail(@)]
  /\ got' = [got EXCEPT ![c] = IF Head(channel[c]) = 0 THEN @ ELSE Head(channel[c])]
  /\ \E to \in {"loop", "leaving"} : handler' = [handler EXCEPT ![c] = to]
  /\ UNCHANGED <<clients, queues, closed, run, members, checked, published, panicked>>

\* select: closeCh, or the closed and empty Channel.
SeesClosed(c) ==
  /\ Running /\ handler[c] = "loop" /\ c \in closed
  /\ handler' = [handler EXCEPT ![c] = "leaving"]
  /\ UNCHANGED <<clients, queues, channel, closed, got, run, members, checked,
                 published, panicked>>

\* The deferred Unsubscribe: b.deadClients <- client.
Unsubscribe(c) ==
  /\ Running /\ handler[c] = "leaving" /\ Len(deadClients) < QueueCap
  /\ deadClients' = Append(deadClients, c)
  /\ handler' = [handler EXCEPT ![c] = "done"]
  /\ UNCHANGED <<clients, newClients, messages, channel, closed, got, run, members,
                 checked, published, panicked>>
-----------------------------------------------------------------------------
(* Broker.run.  It is in its select while todo is empty.                   *)

RunNew ==
  /\ Running /\ todo = {} /\ newClients # <<>>
  /\ newClients' = Tail(newClients)
  /\ clients' = [clients EXCEPT ![IdOf[Head(newClients)]] = Head(newClients)]
  /\ UNCHANGED <<deadClients, messages, channel, closed, handler, got, run, members,
                 checked, published, panicked>>

\* The entry of the client's ID is deleted, whoever's it is, and the client closed.
RunDead ==
  /\ Running /\ todo = {} /\ deadClients # <<>>
  /\ deadClients' = Tail(deadClients)
  /\ clients' = [clients EXCEPT ![IdOf[Head(deadClients)]] = NoClient]
  /\ closed' = closed \cup {Head(deadClients)}
  /\ UNCHANGED <<newClients, messages, channel, handler, got, run, members, checked,
                 published, panicked>>

\* broadcast starts its Range.  Only run changes the map, so it does not change
\* under this Range.
RunMessage ==
  /\ Running /\ todo = {} /\ messages # <<>>
  /\ messages' = Tail(messages) /\ event' = Head(messages) /\ todo' = Entries
  /\ UNCHANGED <<clients, newClients, deadClients, channel, closed, handler, got,
                 members, checked, published, panicked>>

\* Client.Send called by run, which is also the only one to close clients: a
\* closed client and a full channel drop the event.
RunSend ==
  /\ Running /\ \E c \in todo :
       /\ todo' = todo \ {c}
       /\ channel' = IF c \notin closed /\ Len(channel[c]) < ChannelCap
                     THEN [channel EXCEPT ![c] = Append(@, event)] ELSE channel
  /\ UNCHANGED <<clients, queues, closed, handler, got, event, members, checked,
                 published, panicked>>
-----------------------------------------------------------------------------
(* Client.Send called by the other goroutines.                             *)

\* A client is found (by Range or Load, or in the room) and is not closed.
Check(s) ==
  /\ Running /\ checked[s] = NoClient
  /\ \E c \in (Entries \cup members) \ closed :
       checked' = [checked EXCEPT ![s] = c]
  /\ UNCHANGED <<clients, queues, channel, closed, handler, got, run, members,
                 published, panicked>>

\* select { case c.Channel <- event: default: }.  Without a lock between the
\* check and the send, run may have closed the channel.
Push(s) ==
  LET c == checked[s] IN
  /\ Running /\ c # NoClient /\ checked' = [checked EXCEPT ![s] = NoClient]
  /\ channel' = IF c \notin closed /\ Len(channel[c]) < ChannelCap
                THEN [channel EXCEPT ![c] = Append(@, 0)] ELSE channel
  /\ panicked' = IF c \in closed THEN s ELSE "no"
  /\ UNCHANGED <<clients, queues, closed, handler, got, run, members, published>>

Publish ==
  /\ Running /\ published < MaxEvents /\ Len(messages) < QueueCap
  /\ published' = published + 1 /\ messages' = Append(messages, published')
  /\ UNCHANGED <<clients, newClients, deadClients, channel, closed, handler, got, run,
                 members, checked, panicked>>

\* Room.Join stores a subscribed client under its ID; Room.Leave deletes an ID.
Join ==
  /\ Running
  /\ \E c \in {d \in Clients \ members : handler[d] \in {"connect", "loop"}} :
       members' = {d \in members : IdOf[d] # IdOf[c]} \cup {c}
  /\ UNCHANGED <<clients, queues, channel, closed, handler, got, run, checked,
                 published, panicked>>

Leave ==
  /\ Running /\ \E c \in members : members' = members \ {c}
  /\ UNCHANGED <<clients, queues, channel, closed, handler, got, run, checked,
                 published, panicked>>
-----------------------------------------------------------------------------
HandleConnection(c) == Connected(c) \/ Receive(c) \/ SeesClosed(c) \/ Unsubscribe(c)
Run  == RunNew \/ RunDead \/ RunMessage \/ RunSend
Next == \/ Run \/ Publish \/ Join \/ Leave
        \/ \E s \in Senders : Check(s) \/ Push(s)
        \/ \E c \in Clients : Count(c) \/ Subscribe(c) \/ HandleConnection(c)
Spec == Init /\ [][Next]_vars
-----------------------------------------------------------------------------
\* Type invariant of the broker.
TypeOK ==
  /\ clients \in [Ids -> Clients \cup {NoClient}]
  /\ newClients \in Seq(Clients) /\ deadClients \in Seq(Clients)
  /\ messages \in Seq(Nat \ {0}) /\ channel \in [Clients -> Seq(Nat)]
  /\ closed \subseteq Clients /\ todo \subseteq Clients /\ members \subseteq Clients
  /\ handler \in [Clients -> {"new", "refused", "counted", "connect", "loop",
                              "leaving", "done"}]
  /\ got \in [Clients -> Nat] /\ event \in Nat /\ published \in Nat
  /\ checked \in [Senders -> Clients \cup {NoClient}]

\* Every client is handed the published events in the order of Publish and none
\* of them twice, whatever is dropped and whatever the other senders put between.
InOrder == [][\A c \in Clients : got'[c] >= got[c]
                /\ (Len(channel'[c]) < Len(channel[c]) /\ Head(channel[c]) # 0
                      => got'[c] > got[c])]_vars

\* A subscribed client can be found under its ID, unless another client has
\* used that ID.
Reachable ==
  \A c \in Clients :
    /\ handler[c] \in {"connect", "loop"} /\ c \notin Range(newClients)
    /\ \A d \in Clients \ {c} : IdOf[d] = IdOf[c] => handler[d] \in {"new", "refused"}
    => clients[IdOf[c]] = c

\* A handler is told to leave only because run closed its client, which run does
\* only after that handler has left: a client is never cut off by another's end.
NotCutOff == \A c \in closed : handler[c] = "done"
=============================================================================

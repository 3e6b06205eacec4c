----------------------------- MODULE PushProofs -----------------------------
(***************************************************************************)
(* Proofs about the two parts that push to clients: module Hub for every   *)
(* number of clients, senders, rooms and broadcasts, all capacities of the *)
(* channels and any sharing of IDs, and, behind it, module Broker.         *)
(***************************************************************************)
EXTENDS Hub, TLAPS

\* The provers of a leaf that names none: most leaves are first-order.
USE ZenonT(20), SMTT(30), SMTT(60)

\* The clients with an ID of their own that run has taken from the register
\* channel.
Known == (clients \cup closed) \cap Unshared

\* A client comes through the register channel once, after it was counted; if its
\* ID is its own, it leaves the map when it is closed; and a closed client's
\* connection is.
LifeCycle ==
  /\ clients \cap closed \cap Unshared = {} /\ closed \subseteq broken
  /\ \A c \in clients \cup Known : reg[c] = "registered"
  /\ \A i \in 1..Len(register) :
       /\ reg[register[i]] = "registered" /\ register[i] \notin Known
       /\ \A j \in 1..Len(register) : register[i] = register[j] => i = j

\* Whoever is about to send has got its clients from run.
SendersSound ==
  /\ \A r \in Rooms : members[r] \cap Unshared \subseteq Known
  /\ \A p \in Senders : holder[p] \in Unshared => holder[p] \in Known
  /\ hpc = "full" => slow # NoClient
  /\ hpc = "room" => hroom # NoRoom

\* A client that run has not taken yet has been sent nothing, so its writePump
\* has not ended; and the pumps of a registered client end on a broken
\* connection only.
PumpsSound ==
  /\ \A c \in Unshared \ Known : send[c] = 0 /\ wpump[c] \in {"off", "run"}
  /\ \A c \in Clients \ broken :
       reg[c] = "registered" => rpump[c] = "run" /\ wpump[c] = "run"

\* The inductive invariant.
IInv ==
  /\ TypeOK /\ LifeCycle /\ SendersSound /\ PumpsSound
  /\ BroadcastNeverPanics /\ NoZombie
-----------------------------------------------------------------------------
(* What the steps do to the channels.                                      *)

\* Receiving from a channel.
LEMMA Received ==
  ASSUME NEW S, NEW s \in Seq(S), s # <<>>
  PROVE  /\ Head(s) \in S /\ Tail(s) \in Seq(S)
         /\ Len(s) \in Nat /\ Len(s) # 0 /\ Len(Tail(s)) = Len(s) - 1
         /\ Head(s) = s[1]
         /\ \A i \in 1..Len(Tail(s)) : Tail(s)[i] = s[i + 1]
BY SMTT(30), SMTT(60)

\* Sending on a channel.
LEMMA Sent ==
  ASSUME NEW S, NEW s \in Seq(S), NEW e \in S
  PROVE  /\ Append(s, e) \in Seq(S)
         /\ Len(s) \in Nat /\ Len(Append(s, e)) = Len(s) + 1
         /\ Append(s, e)[Len(s) + 1] = e
         /\ \A i \in 1..Len(s) : Append(s, e)[i] = s[i]
BY SMTT(30), SMTT(60)

\* What is queued after a receive: all that was, but for the head.
LEMMA QueuedAfterReceive ==
  ASSUME NEW S, NEW s \in Seq(S), s # <<>>, NEW c \in Range(s), c # Head(s)
  PROVE  c \in Range(Tail(s))
<1>1. PICK i \in 1..Len(s) : s[i] = c
  BY SMTT(30), SMTT(60) DEF Range
<1>2. i # 1
  BY SMTT(30), SMTT(60), <1>1
<1>3. i - 1 \in 1..Len(Tail(s)) /\ Tail(s)[i - 1] = c
  BY SMTT(30), SMTT(60), <1>1, <1>2
<1>4. DOMAIN Tail(s) = 1..Len(Tail(s))
  BY SMTT(30), SMTT(60)
<1> QED
  BY <1>3, <1>4 DEF Range

\* What is queued after a send: all that was, and the new one.
LEMMA QueuedAfterSend ==
  ASSUME NEW S, NEW s \in Seq(S), NEW e \in S
  PROVE  Range(s) \cup {e} \subseteq Range(Append(s, e))
BY SMTT(30), SMTT(60), Sent DEF Range

\* A map keyed by ID treats a client with an ID of its own as a set would.
LEMMA MapsOfUnshared ==
  ASSUME HubAssumption, NEW m \in SUBSET Clients, NEW d \in Clients,
         NEW c \in Unshared
  PROVE  /\ c \in Store(m, d) <=> c \in m \/ c = d
         /\ c \in Delete(m, IdOf[d]) <=> c \in m /\ c # d
         /\ Load(m, IdOf[c]) # {} <=> c \in m
BY DEF HubAssumption, Unshared, Store, Delete, Load

\* Storing and deleting keeps to the clients.
LEMMA MapsOfClients ==
  ASSUME NEW m \in SUBSET Clients, NEW d \in Clients, NEW i
  PROVE  /\ Store(m, d) \subseteq m \cup {d} /\ d \in Store(m, d)
         /\ Delete(m, i) \subseteq m
BY DEF Store, Delete
-----------------------------------------------------------------------------
\* Before the first connection.
LEMMA InitInv == ASSUME HubAssumption PROVE Init => IInv
<1> SUFFICES ASSUME Init PROVE IInv
  OBVIOUS
<1>1. TypeOK
  <2>1. /\ RegCap \in Nat /\ UnregCap \in Nat /\ BroadcastCap \in Nat
        /\ SendCap \in Nat /\ MaxBroadcasts \in Nat
    BY DEF HubAssumption
  <2>2. send \in [Clients -> 0..SendCap] /\ nbroadcasts \in 0..MaxBroadcasts
    BY SMTT(30), SMTT(60), <2>1 DEF Init
  <2>3. /\ register \in Seq(Clients) /\ Len(register) <= RegCap
        /\ unregister \in Seq(Clients) /\ Len(unregister) <= UnregCap
        /\ broadcast \in Seq({"all", "room"}) /\ Len(broadcast) <= BroadcastCap
    BY SMTT(30), SMTT(60), <2>1 DEF Init
  <2>4. /\ reg \in [Clients -> {"new", "counted", "registered", "refused"}]
        /\ rpump \in [Clients -> {"off", "run", "unregister", "done"}]
        /\ wpump \in [Clients -> {"off", "run", "unregister", "done"}]
    BY DEF Init
  <2> QED
    BY <2>2, <2>3, <2>4 DEF Init, TypeOK
<1>2. LifeCycle
  BY SMTT(30), SMTT(60) DEF Init, LifeCycle, Known
<1>3. SendersSound /\ PumpsSound
  <2>1. Unshared \subseteq Clients /\ NoClient \notin Unshared
    BY DEF HubAssumption, Unshared
  <2> QED
    BY <2>1 DEF Init, SendersSound, PumpsSound, Known
<1> QED
  BY <1>1, <1>2, <1>3 DEF Init, IInv, BroadcastNeverPanics, NoZombie

\* Every step preserves IInv.
LEMMA NextInv == ASSUME HubAssumption PROVE IInv /\ [Next]_vars => IInv'
<1> SUFFICES ASSUME IInv, [Next]_vars PROVE IInv'
  OBVIOUS
<1> USE DEF HubAssumption, IInv, channels, room, pumps, loop, sender, panic, Running
<1>1. ASSUME NEW c \in Clients, Count(c) PROVE IInv'
  <2>1. TypeOK'
    BY <1>1 DEF Count, TypeOK
  <2>2. LifeCycle' /\ SendersSound' /\ PumpsSound'
    BY SMTT(30), SMTT(60), <1>1
    DEF Count, LifeCycle, SendersSound, PumpsSound, Known, TypeOK
  <2>3. BroadcastNeverPanics' /\ NoZombie'
    BY <1>1 DEF Count, BroadcastNeverPanics, NoZombie, TypeOK
  <2> QED
    BY <2>1, <2>2, <2>3
<1>2. ASSUME NEW c \in Clients, Register(c) PROVE IInv'
  <2>1. TypeOK'
    BY SMTT(30), SMTT(60), <1>2, Sent DEF Register, TypeOK
  <2>2. LifeCycle'
    <3>1. /\ Len(register) \in Nat /\ Len(register') = Len(register) + 1
          /\ register'[Len(register) + 1] = c
          /\ \A i \in 1..Len(register) : register'[i] = register[i]
      BY SMTT(30), SMTT(60), <1>2, Sent DEF Register, TypeOK
    <3>2. c \notin Known /\ \A i \in 1..Len(register) : register[i] # c
      BY <1>2 DEF Register, LifeCycle
    <3>3. \A i \in 1..Len(register) : register[i] \in Clients
      BY SMTT(30), SMTT(60) DEF TypeOK
    <3>4. /\ Known' = Known /\ closed' \subseteq broken'
          /\ clients' \cap closed' \cap Unshared = {}
          /\ \A d \in Clients : reg'[d] = IF d = c THEN "registered" ELSE reg[d]
      BY <1>2 DEF Register, LifeCycle, Known, TypeOK
    <3>5. ASSUME NEW i \in 1..Len(register')
          PROVE  /\ reg'[register'[i]] = "registered" /\ register'[i] \notin Known
                 /\ \A j \in 1..Len(register') : register'[i] = register'[j] => i = j
      <4>1. CASE i = Len(register) + 1
        BY SMTT(30), SMTT(60), <3>1, <3>2, <3>4, <4>1
      <4>2. CASE i \in 1..Len(register)
        BY SMTT(30), SMTT(60), <3>1, <3>2, <3>3, <3>4, <4>2 DEF LifeCycle
      <4> QED
        BY SMTT(30), SMTT(60), <3>1, <4>1, <4>2
    <3>6. \A d \in clients' \cup Known' : reg'[d] = "registered"
      BY <1>2, <3>4 DEF Register, LifeCycle, Known, TypeOK
    <3> QED
      BY <3>4, <3>5, <3>6 DEF LifeCycle
  <2>3. SendersSound'
    BY <1>2, Sent
    DEF Register, SendersSound, LifeCycle, Known, TypeOK
  <2>4. PumpsSound'
    BY SMTT(30), SMTT(60), <1>2, Sent
    DEF Register, PumpsSound, SendersSound, LifeCycle, Known,
       TypeOK
  <2>5. BroadcastNeverPanics'
    BY <1>2, Sent DEF Register, BroadcastNeverPanics, SendersSound,
       LifeCycle, TypeOK
  <2>6. NoZombie'
    BY SMTT(30), SMTT(60), <1>2, Sent
    DEF Register, NoZombie, PumpsSound, LifeCycle, Known,
       TypeOK
  <2> QED
    BY <2>1, <2>2, <2>3, <2>4, <2>5, <2>6
<1>3. ASSUME NEW c \in Clients, Disconnect(c) PROVE IInv'
  <2>1. TypeOK'
    BY <1>3 DEF Disconnect, TypeOK
  <2>2. LifeCycle' /\ SendersSound' /\ PumpsSound'
    BY SMTT(30), SMTT(60), <1>3
    DEF Disconnect, LifeCycle, SendersSound, PumpsSound, Known, TypeOK
  <2>3. BroadcastNeverPanics' /\ NoZombie'
    BY <1>3 DEF Disconnect, BroadcastNeverPanics, NoZombie, TypeOK
  <2> QED
    BY <2>1, <2>2, <2>3
<1>4. ASSUME NEW c \in Clients, ReadEnds(c) PROVE IInv'
  <2>1. TypeOK'
    BY <1>4 DEF ReadEnds, TypeOK
  <2>2. LifeCycle' /\ SendersSound' /\ PumpsSound'
    BY SMTT(30), SMTT(60), <1>4
    DEF ReadEnds, LifeCycle, SendersSound, PumpsSound, Known, TypeOK
  <2>3. BroadcastNeverPanics' /\ NoZombie'
    BY <1>4 DEF ReadEnds, BroadcastNeverPanics, NoZombie, TypeOK
  <2> QED
    BY <2>1, <2>2, <2>3
<1>5. ASSUME NEW c \in Clients, WritePayload(c) PROVE IInv'
  <2>1. TypeOK'
    <3>1. send' \in [Clients -> 0..SendCap]
      <4>1. SendCap \in Nat /\ send[c] \in 0..SendCap
        BY DEF TypeOK
      <4>2. send[c] - 1 \in 0..SendCap
        BY SMTT(30), SMTT(60), <1>5, <4>1 DEF WritePayload
      <4> QED
        BY <1>5, <4>2 DEF WritePayload, TypeOK
    <3> QED
      BY <1>5, <3>1 DEF WritePayload, TypeOK
  <2>2. LifeCycle'
    BY SMTT(30), SMTT(60), <1>5 DEF WritePayload, LifeCycle, Known, TypeOK
  <2>3. SendersSound'
    BY <1>5 DEF WritePayload, SendersSound, LifeCycle, Known, TypeOK
  <2>4. PumpsSound'
    <3>1. ASSUME NEW d \in Unshared \ Known
          PROVE  send'[d] = 0 /\ wpump'[d] \in {"off", "run"}
      <4>1. d \in Clients /\ send[d] = 0 /\ wpump[d] \in {"off", "run"}
        BY <3>1 DEF PumpsSound, Unshared
      <4>2. d # c
        BY SMTT(30), SMTT(60), <1>5, <4>1 DEF WritePayload
      <4> QED
        BY <1>5, <4>1, <4>2 DEF WritePayload, TypeOK
    <3>2. \A d \in Clients \ broken :
            reg[d] = "registered" => rpump[d] = "run" /\ wpump'[d] = "run"
      BY <1>5 DEF WritePayload, PumpsSound, TypeOK, LifeCycle
    <3> QED
      BY <1>5, <3>1, <3>2 DEF WritePayload, PumpsSound, Known
  <2>5. BroadcastNeverPanics'
    BY <1>5
    DEF WritePayload, BroadcastNeverPanics, SendersSound, LifeCycle,
       TypeOK
  <2>6. NoZombie'
    BY SMTT(30), SMTT(60), <1>5
    DEF WritePayload, NoZombie, PumpsSound, LifeCycle, Known, TypeOK
  <2> QED
    BY <2>1, <2>2, <2>3, <2>4, <2>5, <2>6
<1>6. ASSUME NEW c \in Clients, SendDrained(c) PROVE IInv'
  <2>1. TypeOK'
    BY <1>6 DEF SendDrained, TypeOK
  <2>2. LifeCycle' /\ SendersSound' /\ PumpsSound'
    BY SMTT(30), SMTT(60), <1>6
    DEF SendDrained, LifeCycle, SendersSound, PumpsSound, Known, TypeOK
  <2>3. BroadcastNeverPanics' /\ NoZombie'
    BY <1>6 DEF SendDrained, BroadcastNeverPanics, NoZombie, TypeOK
  <2> QED
    BY <2>1, <2>2, <2>3
<1>7. ASSUME NEW c \in Clients, ReadPumpLeaves(c) PROVE IInv'
  <2>1. TypeOK'
    BY SMTT(30), SMTT(60), <1>7, Sent, QueuedAfterSend DEF ReadPumpLeaves, TypeOK
  <2>2. LifeCycle'
    BY SMTT(30), SMTT(60), <1>7, Sent, QueuedAfterSend
    DEF ReadPumpLeaves, LifeCycle, Known,
       TypeOK
  <2>3. SendersSound'
    BY <1>7, Sent, QueuedAfterSend DEF ReadPumpLeaves, SendersSound,
       LifeCycle, Known, TypeOK
  <2>4. PumpsSound'
    BY SMTT(30), SMTT(60), <1>7, Sent, QueuedAfterSend
    DEF ReadPumpLeaves, PumpsSound,
       SendersSound, LifeCycle, Known, TypeOK
  <2>5. BroadcastNeverPanics'
    BY <1>7, Sent, QueuedAfterSend
    DEF ReadPumpLeaves, BroadcastNeverPanics,
       SendersSound, LifeCycle, TypeOK
  <2>6. NoZombie'
    BY SMTT(30), SMTT(60), <1>7, Sent, QueuedAfterSend
    DEF ReadPumpLeaves, NoZombie, PumpsSound,
       LifeCycle, Known, TypeOK
  <2> QED
    BY <2>1, <2>2, <2>3, <2>4, <2>5, <2>6
<1>8. ASSUME NEW c \in Clients, WritePumpLeaves(c) PROVE IInv'
  <2>1. TypeOK'
    BY SMTT(30), SMTT(60), <1>8, Sent, QueuedAfterSend DEF WritePumpLeaves, TypeOK
  <2>2. LifeCycle'
    BY SMTT(30), SMTT(60), <1>8, Sent, QueuedAfterSend
    DEF WritePumpLeaves, LifeCycle, Known,
       TypeOK
  <2>3. SendersSound'
    BY <1>8, Sent, QueuedAfterSend
    DEF WritePumpLeaves, SendersSound,
       LifeCycle, Known, TypeOK
  <2>4. PumpsSound'
    BY SMTT(30), SMTT(60), <1>8, Sent, QueuedAfterSend
    DEF WritePumpLeaves, PumpsSound,
       SendersSound, LifeCycle, Known, TypeOK
  <2>5. BroadcastNeverPanics'
    BY <1>8, Sent, QueuedAfterSend DEF WritePumpLeaves,
       BroadcastNeverPanics, SendersSound, LifeCycle, TypeOK
  <2>6. NoZombie'
    BY <1>8, Sent, QueuedAfterSend DEF WritePumpLeaves, NoZombie,
       PumpsSound, LifeCycle, Known, TypeOK
  <2> QED
    BY <2>1, <2>2, <2>3, <2>4, <2>5, <2>6
<1>9. CASE RunRegister
  <2> DEFINE d == Head(register)
  <2>1. d \in Clients /\ clients \in SUBSET Clients /\ clients' = Store(clients, d)
    BY <1>9, Received DEF RunRegister, TypeOK
  <2>2. TypeOK'
    <3>1. Tail(register) \in Seq(Clients) /\ Len(Tail(register)) <= RegCap
      BY SMTT(30), SMTT(60), <1>9, Received DEF RunRegister, TypeOK
    <3>2. clients' \subseteq Clients
      BY <2>1, MapsOfClients
    <3> QED
      BY <1>9, <3>1, <3>2 DEF RunRegister, TypeOK
  <2>3. /\ Len(register) \in Nat /\ Len(register') = Len(register) - 1
        /\ Len(register) >= 1 /\ d = register[1]
        /\ \A i \in 1..Len(register') : register'[i] = register[i + 1]
    BY SMTT(30), SMTT(60), <1>9, Received DEF RunRegister, TypeOK
  <2>4. d \notin Known /\ reg[d] = "registered"
    BY SMTT(30), SMTT(60), <2>3 DEF LifeCycle
  <2>5. /\ \A c \in Unshared : c \in clients' <=> c \in clients \/ c = d
        /\ clients' \subseteq clients \cup {d} /\ closed' = closed
    <3>1. \A c \in Unshared : c \in Store(clients, d) <=> c \in clients \/ c = d
      BY <2>1, MapsOfUnshared
    <3>2. Store(clients, d) \subseteq clients \cup {d}
      BY <2>1, MapsOfClients
    <3> QED
      BY <1>9, <2>1, <3>1, <3>2 DEF RunRegister
  <2>6. \A c \in Clients : c \in Known' <=> c \in Known \/ (c = d /\ d \in Unshared)
    BY <2>1, <2>5 DEF Known, Unshared
  <2>7. LifeCycle'
    <3>1. /\ \A i \in 1..Len(register) : register[i] = register[1] => i = 1
          /\ \A i \in 1..Len(register) : register[i] \in Clients
      BY SMTT(30), SMTT(60), <2>3 DEF LifeCycle, TypeOK
    <3>2. clients' \cap closed' \cap Unshared = {}
      BY <2>4, <2>5 DEF LifeCycle, Known
    <3>3. \A c \in clients' \cup Known' : reg'[c] = "registered"
      BY <1>9, <2>4, <2>5 DEF RunRegister, LifeCycle, Known
    <3>4. ASSUME NEW i \in 1..Len(register')
          PROVE  /\ reg'[register'[i]] = "registered" /\ register'[i] \notin Known'
                 /\ \A j \in 1..Len(register') : register'[i] = register'[j] => i = j
      <4>1. /\ i + 1 \in 1..Len(register) /\ register'[i] = register[i + 1]
            /\ register[i + 1] # d /\ reg' = reg
        BY SMTT(30), SMTT(60), <1>9, <2>3, <3>1 DEF RunRegister
      <4>2. register'[i] \notin Known'
        BY <2>6, <3>1, <4>1 DEF LifeCycle
      <4>3. \A j \in 1..Len(register') : register'[i] = register'[j] => i = j
        BY SMTT(30), SMTT(60), <2>3, <4>1 DEF LifeCycle
      <4> QED
        BY <4>1, <4>2, <4>3 DEF LifeCycle
    <3> QED
      BY <1>9, <3>2, <3>3, <3>4 DEF RunRegister, LifeCycle
  <2>8. SendersSound'
    BY <1>9, <2>5 DEF RunRegister, SendersSound, Known
  <2>9. PumpsSound'
    BY <1>9, <2>5 DEF RunRegister, PumpsSound, Known
  <2>10. BroadcastNeverPanics'
    BY <1>9 DEF RunRegister, BroadcastNeverPanics
  <2>11. NoZombie'
    BY <1>9, <2>4, <2>5 DEF RunRegister, NoZombie, PumpsSound
  <2> QED
    BY <2>2, <2>7, <2>8, <2>9, <2>10, <2>11
<1>10. CASE RunUnregister
  <2> DEFINE d == Head(unregister)
             shut == IF Load(clients, IdOf[d]) # {} THEN {d} ELSE {}
  <2>1. /\ d \in Clients /\ clients \in SUBSET Clients /\ shut \subseteq {d}
        /\ clients' = Delete(clients, IdOf[d])
        /\ closed' = closed \cup shut /\ broken' = broken \cup shut
    BY <1>10, Received DEF RunUnregister, TypeOK
  <2>2. /\ \A c \in Unshared : c \in clients' <=> c \in clients /\ c # d
        /\ clients' \subseteq clients
    <3>1. \A c \in Unshared :
            c \in Delete(clients, IdOf[d]) <=> c \in clients /\ c # d
      BY <2>1, MapsOfUnshared
    <3>2. Delete(clients, IdOf[d]) \subseteq clients
      BY <2>1, MapsOfClients
    <3> QED
      BY <2>1, <3>1, <3>2
  <2>3. \A c \in Unshared : c \in shut <=> c = d /\ c \in clients
    <3>1. \A c \in Unshared : Load(clients, IdOf[c]) # {} <=> c \in clients
      BY <2>1, MapsOfUnshared
    <3> QED
      BY <3>1
  <2>4. Known' = Known
    BY <2>1, <2>2, <2>3 DEF Known
  <2>5. TypeOK'
    <3>1. Tail(unregister) \in Seq(Clients) /\ Len(Tail(unregister)) <= UnregCap
      BY SMTT(30), SMTT(60), <1>10, Received DEF RunUnregister, TypeOK
    <3> QED
      BY <1>10, <2>1, <2>2, <3>1 DEF RunUnregister, TypeOK
  <2>6. LifeCycle'
    <3>1. clients' \cap closed' \cap Unshared = {} /\ closed' \subseteq broken'
      BY <2>1, <2>2, <2>3 DEF LifeCycle
    <3>2. \A c \in clients' \cup Known' : reg'[c] = "registered"
      BY <1>10, <2>2, <2>4 DEF RunUnregister, LifeCycle
    <3> QED
      BY <1>10, <2>4, <3>1, <3>2 DEF RunUnregister, LifeCycle
  <2>7. SendersSound'
    BY <1>10, <2>4 DEF RunUnregister, SendersSound
  <2>8. PumpsSound'
    BY <1>10, <2>1, <2>4 DEF RunUnregister, PumpsSound
  <2>9. BroadcastNeverPanics'
    BY <1>10 DEF RunUnregister, BroadcastNeverPanics
  <2>10. NoZombie'
    BY <1>10, <2>2, QueuedAfterReceive DEF RunUnregister, NoZombie, TypeOK
  <2> QED
    BY <2>5, <2>6, <2>7, <2>8, <2>9, <2>10
<1>11. CASE RunBroadcast
  <2>1. TypeOK'
    <3>1. Tail(broadcast) \in Seq({"all", "room"})
          /\ Len(Tail(broadcast)) <= BroadcastCap
      BY SMTT(30), SMTT(60), <1>11, Received DEF RunBroadcast, TypeOK
    <3>2. todo' \subseteq Ids
      BY <1>11 DEF RunBroadcast, TypeOK
    <3> QED
      BY <1>11, <3>1, <3>2 DEF RunBroadcast, TypeOK
  <2>2. LifeCycle' /\ SendersSound' /\ PumpsSound'
    BY <1>11 DEF RunBroadcast, LifeCycle, SendersSound, PumpsSound, Known
  <2>3. BroadcastNeverPanics' /\ NoZombie'
    BY <1>11 DEF RunBroadcast, BroadcastNeverPanics, NoZombie
  <2> QED
    BY <2>1, <2>2, <2>3
<1>12. CASE SendNext
  <2>1. PICK c \in IF hpc = "clients" THEN clients ELSE members[hroom] :
          /\ todo' = todo \ {IdOf[c]} /\ TrySend(c, hpc)
          /\ slow' = IF hpc = "clients" /\ c \notin closed /\ send[c] = SendCap
                     THEN c ELSE NoClient
    BY <1>12 DEF SendNext
  <2>2. c \in Clients /\ (c \in Unshared => c \in Known)
    BY <1>12 DEF SendNext, SendersSound, Known, TypeOK
  <2>3. /\ send' \in [Clients -> 0..SendCap]
        /\ \A d \in Clients \ {c} : send'[d] = send[d]
    BY SMTT(30), SMTT(60), <2>1, <2>2 DEF TrySend, TypeOK
  <2>4. TypeOK'
    BY <1>12, <2>1, <2>2, <2>3 DEF SendNext, TrySend, TypeOK
  <2>5. LifeCycle'
    BY <1>12 DEF SendNext, LifeCycle, Known
  <2>6. SendersSound'
    BY <1>12 DEF SendNext, SendersSound, Known
  <2>7. PumpsSound'
    BY <1>12, <2>2, <2>3 DEF SendNext, PumpsSound, Known, Unshared
  <2>8. BroadcastNeverPanics'
    BY <1>12, <2>1 DEF SendNext, TrySend, BroadcastNeverPanics, LifeCycle
  <2>9. NoZombie'
    BY <1>12 DEF SendNext, NoZombie
  <2> QED
    BY <2>4, <2>5, <2>6, <2>7, <2>8, <2>9
<1>13. CASE UnregisterSlow
  <2>1. TypeOK'
    BY SMTT(30), SMTT(60), <1>13, Sent DEF UnregisterSlow, SendersSound, TypeOK
  <2>2. LifeCycle'
    BY SMTT(30), SMTT(60), <1>13, Sent, QueuedAfterSend
    DEF UnregisterSlow, LifeCycle, Known,
       TypeOK
  <2>3. SendersSound'
    BY <1>13, Sent, QueuedAfterSend
    DEF UnregisterSlow, SendersSound,
       LifeCycle, Known, TypeOK
  <2>4. PumpsSound'
    BY <1>13, Sent, QueuedAfterSend DEF UnregisterSlow, PumpsSound,
       SendersSound, LifeCycle, Known, TypeOK
  <2>5. BroadcastNeverPanics'
    BY <1>13, Sent, QueuedAfterSend DEF UnregisterSlow,
       BroadcastNeverPanics, SendersSound, LifeCycle, TypeOK
  <2>6. NoZombie'
    BY <1>13, QueuedAfterSend
    DEF UnregisterSlow, NoZombie, SendersSound,
       TypeOK
  <2> QED
    BY <2>1, <2>2, <2>3, <2>4, <2>5, <2>6
<1>14. CASE RangeEnds
  <2>1. TypeOK'
    BY <1>14 DEF RangeEnds, TypeOK
  <2>2. LifeCycle' /\ SendersSound' /\ PumpsSound'
    BY SMTT(30), SMTT(60), <1>14
    DEF RangeEnds, LifeCycle, SendersSound, PumpsSound, Known, TypeOK
  <2>3. BroadcastNeverPanics' /\ NoZombie'
    BY <1>14 DEF RangeEnds, BroadcastNeverPanics, NoZombie, TypeOK
  <2> QED
    BY <2>1, <2>2, <2>3
<1>15. CASE Broadcast
  <2>1. TypeOK'
    BY SMTT(30), SMTT(60), <1>15, Sent DEF Broadcast, TypeOK
  <2>2. LifeCycle' /\ SendersSound' /\ PumpsSound'
    BY SMTT(30), SMTT(60), <1>15
    DEF Broadcast, LifeCycle, SendersSound, PumpsSound, Known, TypeOK
  <2>3. BroadcastNeverPanics' /\ NoZombie'
    BY <1>15 DEF Broadcast, BroadcastNeverPanics, NoZombie, TypeOK
  <2> QED
    BY <2>1, <2>2, <2>3
<1>16. ASSUME NEW p \in Senders, LoadClient(p) PROVE IInv'
  <2>1. TypeOK'
    BY <1>16 DEF LoadClient, TypeOK
  <2>2. LifeCycle' /\ SendersSound' /\ PumpsSound'
    BY SMTT(30), SMTT(60), <1>16
    DEF LoadClient, LifeCycle, SendersSound, PumpsSound, Known, TypeOK
  <2>3. BroadcastNeverPanics' /\ NoZombie'
    BY <1>16 DEF LoadClient, BroadcastNeverPanics, NoZombie, TypeOK
  <2> QED
    BY <2>1, <2>2, <2>3
<1>17. ASSUME NEW p \in Senders, LoadMember(p) PROVE IInv'
  <2>1. TypeOK'
    BY <1>17 DEF LoadMember, TypeOK
  <2>2. LifeCycle' /\ SendersSound' /\ PumpsSound'
    BY SMTT(30), SMTT(60), <1>17
    DEF LoadMember, LifeCycle, SendersSound, PumpsSound, Known, TypeOK
  <2>3. BroadcastNeverPanics' /\ NoZombie'
    BY <1>17 DEF LoadMember, BroadcastNeverPanics, NoZombie, TypeOK
  <2> QED
    BY <2>1, <2>2, <2>3
<1>18. ASSUME NEW p \in Senders, SendTo(p) PROVE IInv'
  <2>1. /\ holder[p] \in Clients /\ TrySend(holder[p], "sender")
        /\ holder' = [holder EXCEPT ![p] = NoClient]
    BY <1>18 DEF SendTo, TypeOK
  <2>2. /\ send' \in [Clients -> 0..SendCap]
        /\ \A c \in Clients \ {holder[p]} : send'[c] = send[c]
    BY SMTT(30), SMTT(60), <2>1 DEF TrySend, TypeOK
  <2>3. TypeOK'
    BY <1>18, <2>1, <2>2 DEF SendTo, TrySend, TypeOK
  <2>4. LifeCycle'
    BY <1>18 DEF SendTo, LifeCycle, Known
  <2>5. SendersSound'
    <3>1. \A q \in Senders : holder'[q] = IF q = p THEN NoClient ELSE holder[q]
      BY <2>1 DEF TypeOK
    <3>2. NoClient \notin Unshared
      BY DEF Unshared
    <3> QED
      BY <1>18, <3>1, <3>2 DEF SendTo, SendersSound, Known
  <2>6. PumpsSound'
    <3>1. \A c \in Unshared \ Known : c \in Clients \ {holder[p]}
      BY DEF SendersSound, Unshared
    <3> QED
      BY <1>18, <2>2, <3>1 DEF SendTo, PumpsSound, Known
  <2>7. BroadcastNeverPanics' /\ NoZombie'
    BY <1>18, <2>1 DEF SendTo, TrySend, BroadcastNeverPanics, NoZombie
  <2> QED
    BY <2>3, <2>4, <2>5, <2>6, <2>7
<1>19. ASSUME NEW p \in Senders, Join(p) PROVE IInv'
  <2>1. PICK r \in made : members' = [members EXCEPT ![r] = Store(@, holder[p])]
    BY <1>19 DEF Join
  <2>2. /\ r \in Rooms /\ members[r] \in SUBSET Clients /\ holder[p] \in Clients
        /\ holder' = [holder EXCEPT ![p] = NoClient]
    BY <1>19 DEF Join, TypeOK
  <2>3. /\ Store(members[r], holder[p]) \subseteq members[r] \cup {holder[p]}
        /\ \A q \in Rooms \ {r} : members'[q] = members[q]
        /\ members'[r] = Store(members[r], holder[p])
    <3>1. Store(members[r], holder[p]) \subseteq members[r] \cup {holder[p]}
      BY <2>2, MapsOfClients
    <3> QED
      BY <2>1, <2>2, <3>1 DEF TypeOK
  <2>4. TypeOK'
    BY <1>19, <2>1, <2>2, <2>3 DEF Join, TypeOK
  <2>5. LifeCycle' /\ PumpsSound'
    BY <1>19 DEF Join, LifeCycle, PumpsSound, Known
  <2>6. SendersSound'
    <3>1. \A q \in Rooms : members'[q] \cap Unshared \subseteq Known
      BY <2>3 DEF SendersSound
    <3>2. /\ \A q \in Senders : holder'[q] = IF q = p THEN NoClient ELSE holder[q]
          /\ NoClient \notin Unshared
      BY <2>2 DEF TypeOK, Unshared
    <3> QED
      BY <1>19, <3>1, <3>2 DEF Join, SendersSound, Known
  <2>7. BroadcastNeverPanics' /\ NoZombie'
    BY <1>19 DEF Join, BroadcastNeverPanics, NoZombie
  <2> QED
    BY <2>4, <2>5, <2>6, <2>7
<1>20. CASE Leave \/ DeleteRoom
  <2>1. /\ members' \in [Rooms -> SUBSET Clients]
        /\ \A r \in Rooms : members'[r] \subseteq members[r]
    <3>1. PICK r \in Rooms : \E m \in SUBSET members[r] :
                               members' = [members EXCEPT ![r] = m]
      <4>1. CASE Leave
        <5>1. PICK r \in made, i \in Ids :
                members' = [members EXCEPT ![r] = Delete(@, i)]
          BY <4>1 DEF Leave
        <5>2. Delete(members[r], i) \in SUBSET members[r] /\ r \in Rooms
          BY DEF Delete, TypeOK
        <5> QED
          BY <5>1, <5>2
      <4>2. CASE DeleteRoom
        BY <4>2 DEF DeleteRoom, TypeOK
      <4> QED
        BY <1>20, <4>1, <4>2
    <3> QED
      BY <3>1 DEF TypeOK
  <2>2. TypeOK'
    BY <1>20, <2>1 DEF Leave, DeleteRoom, TypeOK
  <2>3. LifeCycle' /\ SendersSound' /\ PumpsSound'
    BY <1>20, <2>1
    DEF Leave, DeleteRoom, LifeCycle, SendersSound, PumpsSound, Known
  <2>4. BroadcastNeverPanics' /\ NoZombie'
    BY <1>20 DEF Leave, DeleteRoom, BroadcastNeverPanics, NoZombie
  <2> QED
    BY <2>2, <2>3, <2>4
<1>21. CASE CreateRoom
  <2>1. TypeOK'
    BY <1>21 DEF CreateRoom, TypeOK
  <2>2. LifeCycle' /\ SendersSound' /\ PumpsSound'
    BY SMTT(30), SMTT(60), <1>21
    DEF CreateRoom, LifeCycle, SendersSound, PumpsSound, Known, TypeOK
  <2>3. BroadcastNeverPanics' /\ NoZombie'
    BY <1>21 DEF CreateRoom, BroadcastNeverPanics, NoZombie, TypeOK
  <2> QED
    BY <2>1, <2>2, <2>3
<1>22. CASE SkipNext
  <2>1. TypeOK'
    BY <1>22 DEF SkipNext, TypeOK
  <2>2. LifeCycle' /\ SendersSound' /\ PumpsSound'
    BY SMTT(30), SMTT(60), <1>22
    DEF SkipNext, LifeCycle, SendersSound, PumpsSound, Known, TypeOK
  <2>3. BroadcastNeverPanics' /\ NoZombie'
    BY <1>22 DEF SkipNext, BroadcastNeverPanics, NoZombie, TypeOK
  <2> QED
    BY <2>1, <2>2, <2>3
<1>23. CASE UNCHANGED vars
  BY SMTT(30), SMTT(60), <1>23
  DEF vars, TypeOK, LifeCycle, SendersSound, PumpsSound, Known,
     BroadcastNeverPanics, NoZombie
<1> QED
  BY <1>1, <1>2, <1>3, <1>4, <1>5, <1>6, <1>7, <1>8, <1>9, <1>10,
     <1>11, <1>12, <1>13, <1>14, <1>15, <1>16, <1>17, <1>18, <1>19, <1>20, <1>21,
     <1>22, <1>23
     DEF Next, Run, ReadPump, WritePump, Sender

\* IInv is an invariant of the hub.
LEMMA Invariance == ASSUME HubAssumption PROVE Spec => []IInv
BY InitInv, NextInv, PTL DEF Spec

\* Type correctness: no channel exceeds its capacity.
THEOREM TypeCorrect == ASSUME HubAssumption PROVE Spec => []TypeOK
BY Invariance, PTL DEF IInv

\* A broadcast of run never panics at a client that shares its ID with nobody:
\* what its range comes to is not closed, as only run itself closes clients, and
\* takes such a client from the map when it does.
THEOREM RunNeverPanics == ASSUME HubAssumption PROVE Spec => []BroadcastNeverPanics
BY Invariance, PTL DEF IInv

\* A client both of whose pumps have ended is never left in the map, if nobody
\* shares its ID.
THEOREM NoZombies == ASSUME HubAssumption PROVE Spec => []NoZombie
BY Invariance, PTL DEF IInv

\* A client in the map whose connection works keeps both of its pumps.
THEOREM PumpsStay == ASSUME HubAssumption PROVE Spec => []HealthyKeepsPumps
<1>1. IInv => HealthyKeepsPumps
  BY DEF IInv, TypeOK, LifeCycle, Known, PumpsSound, HealthyKeepsPumps
<1> QED
  BY Invariance, <1>1, PTL

\* Once run has filled the channel that only run empties, no step of any
\* goroutine frees a place again.
THEOREM StuckIsForever == ASSUME HubAssumption PROVE Spec => StuckForever
<1>1. IInv /\ [Next]_vars => [Stuck => Stuck']_vars
  <2> SUFFICES ASSUME IInv, Next, Stuck PROVE Stuck'
    OBVIOUS
  <2>1. hpc = "full" /\ Len(unregister) = UnregCap /\ UnregCap \in Nat
    BY DEF HubAssumption, Stuck
  <2>2. ~Run
    BY SMTT(30), SMTT(60), <2>1
    DEF Run, RunRegister, RunUnregister, RunBroadcast, SendNext, SkipNext,
       UnregisterSlow, RangeEnds
  <2>3. \A c \in Clients : ~ReadPumpLeaves(c) /\ ~WritePumpLeaves(c)
    BY SMTT(30), SMTT(60), <2>1 DEF ReadPumpLeaves, WritePumpLeaves
  <2>4. CASE Broadcast \/ Leave \/ CreateRoom \/ DeleteRoom
    BY <2>1, <2>4
    DEF Broadcast, Leave, CreateRoom, DeleteRoom, Stuck, loop, channels
  <2>6. ASSUME NEW p \in Senders, Sender(p) PROVE Stuck'
    BY <2>1, <2>6
    DEF Sender, LoadClient, LoadMember, SendTo, Join, Stuck, loop, channels
  <2>5. ASSUME NEW c \in Clients,
               \/ Count(c) \/ Register(c) \/ Disconnect(c) \/ ReadEnds(c)
               \/ WritePayload(c) \/ SendDrained(c)
        PROVE  Stuck'
    BY <2>1, <2>5
    DEF Count, Register, Disconnect, ReadEnds, WritePayload, SendDrained, Stuck,
        loop, channels
  <2> QED
    BY <2>2, <2>3, <2>4, <2>5, <2>6 DEF Next, ReadPump, WritePump
<1> QED
  BY Invariance, <1>1, PTL DEF Spec, StuckForever
-----------------------------------------------------------------------------
(***************************************************************************)
(* Server-sent events, module Broker, for any number of clients, senders   *)
(* and events, all capacities, and any sharing of IDs.  The constants and  *)
(* variables that play the same part in Hub have their name from there.    *)
(***************************************************************************)
CONSTANTS QueueCap, ChannelCap, MaxEvents
VARIABLES newClients, deadClients, messages, channel, handler, got, event,
          checked, published

SSE == INSTANCE Broker

\* A client is in newClients after Subscribe only, and in deadClients or closed
\* after its handler has left only.
StreamsSound ==
  /\ \A i \in 1..Len(newClients) :
       handler[newClients[i]] \notin {"new", "refused", "counted"}
  /\ \A i \in 1..Len(deadClients) : handler[deadClients[i]] = "done"

\* Published events wait in messages in ascending order, behind the one that run
\* is sending.
MessagesAscend ==
  /\ event <= published
  /\ \A i \in 1..Len(messages) :
       /\ event < messages[i] /\ messages[i] <= published
       /\ \A j \in 1..Len(messages) : i < j => messages[i] < messages[j]

\* So do they in the channel of a client, behind those that it was handed; and a
\* client that run has yet to send the event to has only earlier ones.
ChannelAscends(c) ==
  /\ got[c] <= event /\ (c \in todo => got[c] < event)
  /\ \A i \in 1..Len(channel[c]) :
       /\ channel[c][i] <= event /\ (c \in todo => channel[c][i] < event)
       /\ channel[c][i] # 0 => got[c] < channel[c][i]
       /\ \A j \in 1..Len(channel[c]) :
            i < j /\ channel[c][i] # 0 /\ channel[c][j] # 0
              => channel[c][i] < channel[c][j]

\* The inductive invariant.
BrokerInv ==
  /\ SSE!TypeOK /\ StreamsSound /\ SSE!NotCutOff /\ SSE!Reachable
  /\ MessagesAscend /\ \A c \in Clients : ChannelAscends(c)
-----------------------------------------------------------------------------
(* What the steps do to the channels.                                      *)

\* A channel ascends after an event is taken from it and handed over.
LEMMA AscendsAfterReceive ==
  ASSUME NEW c \in Clients, SSE!TypeOK, ChannelAscends(c), channel[c] # <<>>,
         channel'[c] = Tail(channel[c]),
         got'[c] = IF Head(channel[c]) = 0 THEN got[c] ELSE Head(channel[c]),
         UNCHANGED <<todo, event>>
  PROVE  ChannelAscends(c)' /\ got[c] <= got'[c]
         /\ (Head(channel[c]) # 0 => got[c] < got'[c])
<1> DEFINE q == channel[c]  t == Tail(channel[c])
<1>1. q \in Seq(Nat) /\ got[c] \in Nat /\ event \in Nat
  BY DEF SSE!TypeOK
<1>2. /\ Head(q) = q[1] /\ Head(q) \in Nat /\ Len(q) \in Nat /\ Len(q) # 0
      /\ t \in Seq(Nat) /\ Len(t) = Len(q) - 1
      /\ \A i \in 1..Len(t) : t[i] = q[i + 1]
  BY <1>1, Received
<1>3. got[c] <= got'[c] /\ (Head(q) # 0 => got[c] < got'[c]) /\ got'[c] \in Nat
      /\ got'[c] <= event /\ (c \in todo => got'[c] < event)
  BY SMTT(30), SMTT(60), <1>1, <1>2 DEF ChannelAscends
<1>4. ASSUME NEW i \in 1..Len(t)
      PROVE  /\ t[i] <= event /\ (c \in todo => t[i] < event)
             /\ t[i] # 0 => got'[c] < t[i]
             /\ \A j \in 1..Len(t) : i < j /\ t[i] # 0 /\ t[j] # 0 => t[i] < t[j]
  <2>1. i + 1 \in 1..Len(q) /\ 1 \in 1..Len(q) /\ 1 < i + 1 /\ t[i] = q[i + 1]
    BY SMTT(30), SMTT(60), <1>2
  <2>2. t[i] <= event /\ (c \in todo => t[i] < event)
    BY <1>1, <2>1 DEF ChannelAscends
  <2>3. t[i] # 0 => got'[c] < t[i]
    BY <1>1, <1>2, <2>1 DEF ChannelAscends
  <2>4. ASSUME NEW j \in 1..Len(t), i < j, t[i] # 0, t[j] # 0 PROVE t[i] < t[j]
    BY SMTT(30), SMTT(60), <1>1, <1>2, <2>1, <2>4 DEF ChannelAscends
  <2> QED
    BY <2>2, <2>3, <2>4
<1> QED
  BY <1>3, <1>4 DEF ChannelAscends

\* A channel ascends after an event is put into it: 0, or the event that run is
\* sending.
LEMMA AscendsAfterSend ==
  ASSUME NEW c \in Clients, SSE!TypeOK, ChannelAscends(c), NEW e \in {0, event},
         channel'[c] = Append(channel[c], e),
         e # 0 => c \in todo /\ c \notin todo',
         got'[c] = got[c], event' = event, todo' \subseteq todo
  PROVE  ChannelAscends(c)'
<1> DEFINE q == channel[c]  t == Append(channel[c], e)
<1>1. q \in Seq(Nat) /\ got[c] \in Nat /\ event \in Nat /\ e \in Nat
  BY SMTT(30), SMTT(60) DEF SSE!TypeOK
<1>2. /\ Len(q) \in Nat /\ t \in Seq(Nat) /\ Len(t) = Len(q) + 1
      /\ t[Len(q) + 1] = e /\ \A i \in 1..Len(q) : t[i] = q[i]
  BY SMTT(30), SMTT(60), <1>1, Sent
<1>3. got[c] <= event /\ (c \in todo => got[c] < event)
  BY DEF ChannelAscends
<1>4. ASSUME NEW i \in 1..Len(t)
      PROVE  /\ t[i] <= event /\ (c \in todo' => t[i] < event)
             /\ t[i] # 0 => got[c] < t[i]
             /\ \A j \in 1..Len(t) : i < j /\ t[i] # 0 /\ t[j] # 0 => t[i] < t[j]
  <2>1. CASE i = Len(q) + 1
    BY SMTT(30), SMTT(60), <1>1, <1>2, <1>3, <2>1
  <2>2. CASE i \in 1..Len(q)
    <3>1. /\ q[i] \in Nat /\ t[i] = q[i] /\ q[i] <= event /\ (c \in todo => q[i] < event)
          /\ q[i] # 0 => got[c] < q[i]
      BY SMTT(30), SMTT(60), <1>1, <1>2, <2>2 DEF ChannelAscends
    <3>2. ASSUME NEW j \in 1..Len(t), i < j, t[i] # 0, t[j] # 0 PROVE t[i] < t[j]
      <4>1. CASE j = Len(q) + 1
        BY <1>1, <1>2, <3>1, <3>2, <4>1
      <4>2. CASE j \in 1..Len(q)
        BY <1>1, <1>2, <2>2, <3>1, <3>2, <4>2 DEF ChannelAscends
      <4> QED
        BY SMTT(30), SMTT(60), <1>2, <4>1, <4>2
    <3> QED
      BY <3>1, <3>2
  <2> QED
    BY SMTT(30), SMTT(60), <1>2, <2>1, <2>2
<1> QED
  BY <1>3, <1>4 DEF ChannelAscends
-----------------------------------------------------------------------------
\* Before the first subscription.
LEMMA BrokerInit == ASSUME SSE!BrokerAssumption PROVE SSE!Init => BrokerInv
<1> SUFFICES ASSUME SSE!Init PROVE BrokerInv
  OBVIOUS
<1>1. SSE!TypeOK
  BY SMTT(30), SMTT(60) DEF SSE!Init, SSE!TypeOK
<1>2. StreamsSound /\ SSE!NotCutOff /\ SSE!Reachable
  BY SMTT(30), SMTT(60) DEF SSE!Init, StreamsSound, SSE!NotCutOff, SSE!Reachable
<1>3. MessagesAscend /\ \A c \in Clients : ChannelAscends(c)
  BY SMTT(30), SMTT(60) DEF SSE!Init, MessagesAscend, ChannelAscends
<1> QED
  BY <1>1, <1>2, <1>3 DEF BrokerInv

\* Steps that leave the events alone preserve what is said of them, and so do
\* steps that leave the life cycle alone.
LEMMA EventsUnchanged ==
  ASSUME BrokerInv, UNCHANGED <<event, published, messages, todo, got, channel>>
  PROVE  MessagesAscend' /\ \A c \in Clients : ChannelAscends(c)'
BY DEF BrokerInv, MessagesAscend, ChannelAscends

LEMMA ClientsUnchanged ==
  ASSUME BrokerInv, UNCHANGED <<newClients, deadClients, handler, closed, clients>>
  PROVE  StreamsSound' /\ SSE!NotCutOff' /\ SSE!Reachable'
BY DEF BrokerInv, StreamsSound, SSE!NotCutOff, SSE!Reachable

\* A handler goes on, without a change to the channels of run: neither to leaving
\* from done nor back to where it has not subscribed.
LEMMA HandlerGoesOn ==
  ASSUME BrokerInv, NEW c \in Clients, NEW to, handler' = [handler EXCEPT ![c] = to],
         \/ handler[c] = "new" /\ to \in {"refused", "counted"}
         \/ handler[c] = "connect" /\ to \in {"loop", "leaving"}
         \/ handler[c] = "loop" /\ to \in {"loop", "leaving"},
         UNCHANGED <<newClients, deadClients, closed, clients>>
  PROVE  StreamsSound' /\ SSE!NotCutOff' /\ SSE!Reachable'
<1>1. SSE!TypeOK
  BY DEF BrokerInv
<1>2. /\ handler'[c] = to /\ \A d \in Clients \ {c} : handler'[d] = handler[d]
      /\ handler[c] # "done"
  BY <1>1 DEF SSE!TypeOK
<1>3. /\ \A i \in 1..Len(newClients) : newClients[i] \in Clients
      /\ \A i \in 1..Len(deadClients) : deadClients[i] \in Clients
  BY SMTT(30), SMTT(60), <1>1 DEF SSE!TypeOK
<1>4. StreamsSound'
  BY SMTT(30), SMTT(60), <1>2, <1>3 DEF BrokerInv, StreamsSound
<1>5. SSE!NotCutOff'
  BY <1>1, <1>2 DEF BrokerInv, SSE!NotCutOff, SSE!TypeOK
<1>6. SSE!Reachable'
  BY <1>1, <1>2 DEF BrokerInv, SSE!Reachable, SSE!TypeOK
<1> QED
  BY <1>4, <1>5, <1>6

\* Every step preserves IInv.
LEMMA BrokerNext == ASSUME SSE!BrokerAssumption PROVE BrokerInv /\ [SSE!Next]_SSE!vars => BrokerInv'
<1> SUFFICES ASSUME BrokerInv, [SSE!Next]_SSE!vars PROVE BrokerInv'
  OBVIOUS
<1>0. /\ SSE!TypeOK /\ StreamsSound /\ SSE!NotCutOff /\ SSE!Reachable /\ MessagesAscend
      /\ \A c \in Clients : ChannelAscends(c)
      /\ IdOf \in [Clients -> Ids] /\ NoClient \notin Clients
  BY DEF BrokerInv, SSE!BrokerAssumption
<1>1. ASSUME NEW c \in Clients, SSE!Count(c) PROVE BrokerInv'
  <2>1. SSE!TypeOK'
    BY <1>0, <1>1 DEF SSE!Count, SSE!TypeOK, SSE!queues, SSE!run
  <2>2. StreamsSound' /\ SSE!NotCutOff' /\ SSE!Reachable'
    BY <1>1, HandlerGoesOn DEF SSE!Count, SSE!queues
  <2> QED
    BY <1>1, <2>1, <2>2, EventsUnchanged DEF BrokerInv, SSE!Count, SSE!queues, SSE!run
<1>2. ASSUME NEW c \in Clients, SSE!Subscribe(c) PROVE BrokerInv'
  <2>1. SSE!TypeOK'
    BY SMTT(30), SMTT(60), <1>0, <1>2 DEF SSE!Subscribe, SSE!TypeOK, SSE!run
  <2>2. /\ handler[c] = "counted" /\ handler'[c] = "connect"
        /\ \A d \in Clients \ {c} : handler'[d] = handler[d]
    BY <1>0, <1>2 DEF SSE!Subscribe, SSE!TypeOK
  <2>3. StreamsSound'
    <3>1. ASSUME NEW i \in 1..Len(newClients')
          PROVE  handler'[newClients'[i]] \notin {"new", "refused", "counted"}
      <4>1. newClients \in Seq(Clients) /\ newClients' = Append(newClients, c)
        BY <1>0, <1>2 DEF SSE!Subscribe, SSE!TypeOK
      <4>2. CASE i = Len(newClients) + 1
        BY SMTT(30), SMTT(60), <2>2, <4>1, <4>2, Sent
      <4>3. CASE i \in 1..Len(newClients)
        BY SMTT(30), SMTT(60), <1>0, <2>2, <4>1, <4>3, Sent DEF StreamsSound
      <4> QED
        BY SMTT(30), SMTT(60), <4>1, <4>2, <4>3, Sent
    <3>2. ASSUME NEW i \in 1..Len(deadClients) PROVE handler'[deadClients[i]] = "done"
      BY SMTT(30), SMTT(60), <1>0, <2>2 DEF SSE!TypeOK, StreamsSound
    <3> QED
      BY <1>2, <3>1, <3>2 DEF StreamsSound, SSE!Subscribe
  <2>4. SSE!NotCutOff'
    BY <1>0, <1>2, <2>2 DEF SSE!NotCutOff, SSE!TypeOK, SSE!Subscribe
  <2>5. SSE!Reachable'
    <3>1. SSE!Range(newClients) \cup {c} \subseteq SSE!Range(newClients')
      <4>1. Range(newClients) \cup {c} \subseteq Range(newClients')
        BY <1>0, <1>2, QueuedAfterSend DEF SSE!TypeOK, SSE!Subscribe
      <4> QED
        BY <4>1 DEF Range, SSE!Range
    <3> QED
      BY <1>0, <1>2, <2>2, <3>1 DEF SSE!Reachable, SSE!TypeOK, SSE!Subscribe
  <2> QED
    BY <1>2, <2>1, <2>3, <2>4, <2>5, EventsUnchanged DEF BrokerInv, SSE!Subscribe, SSE!run
<1>3. ASSUME NEW c \in Clients, SSE!Connected(c) PROVE BrokerInv'
  <2>1. SSE!TypeOK'
    BY SMTT(30), SMTT(60), <1>0, <1>3
    DEF SSE!Connected, SSE!TypeOK, SSE!queues, SSE!run
  <2>2. StreamsSound' /\ SSE!NotCutOff' /\ SSE!Reachable'
    BY <1>3, HandlerGoesOn DEF SSE!Connected, SSE!queues
  <2> QED
    BY <1>3, <2>1, <2>2, EventsUnchanged DEF BrokerInv, SSE!Connected, SSE!queues, SSE!run
<1>4. ASSUME NEW c \in Clients, SSE!Receive(c) PROVE BrokerInv'
  <2>1. SSE!TypeOK'
    BY SMTT(30), SMTT(60), <1>0, <1>4, Received
    DEF SSE!Receive, SSE!TypeOK, SSE!queues, SSE!run
  <2>2. StreamsSound' /\ SSE!NotCutOff' /\ SSE!Reachable'
    BY <1>4, HandlerGoesOn DEF SSE!Receive, SSE!queues
  <2>3. MessagesAscend'
    BY <1>0, <1>4 DEF SSE!Receive, MessagesAscend, SSE!queues, SSE!run
  <2>4. ChannelAscends(c)'
    BY <1>0, <1>4, AscendsAfterReceive DEF SSE!Receive, SSE!TypeOK, SSE!run
  <2>5. ASSUME NEW d \in Clients, d # c PROVE ChannelAscends(d)'
    BY SMTT(30), SMTT(60), <1>0, <1>4, <2>5
    DEF SSE!Receive, SSE!TypeOK, ChannelAscends, SSE!run
  <2> QED
    BY <2>1, <2>2, <2>3, <2>4, <2>5 DEF BrokerInv
<1>5. ASSUME NEW c \in Clients, SSE!SeesClosed(c) PROVE BrokerInv'
  <2>1. SSE!TypeOK'
    BY <1>0, <1>5 DEF SSE!SeesClosed, SSE!TypeOK, SSE!queues, SSE!run
  <2>2. StreamsSound' /\ SSE!NotCutOff' /\ SSE!Reachable'
    BY <1>5, HandlerGoesOn DEF SSE!SeesClosed, SSE!queues
  <2> QED
    BY <1>5, <2>1, <2>2, EventsUnchanged DEF BrokerInv, SSE!SeesClosed, SSE!queues, SSE!run
<1>6. ASSUME NEW c \in Clients, SSE!Unsubscribe(c) PROVE BrokerInv'
  <2>1. SSE!TypeOK'
    BY SMTT(30), SMTT(60), <1>0, <1>6 DEF SSE!Unsubscribe, SSE!TypeOK, SSE!run
  <2>2. /\ handler[c] = "leaving" /\ handler'[c] = "done"
        /\ \A d \in Clients \ {c} : handler'[d] = handler[d]
    BY <1>0, <1>6 DEF SSE!Unsubscribe, SSE!TypeOK
  <2>3. StreamsSound'
    <3>1. ASSUME NEW i \in 1..Len(newClients)
          PROVE  handler'[newClients[i]] \notin {"new", "refused", "counted"}
      BY SMTT(30), SMTT(60), <1>0, <2>2 DEF SSE!TypeOK, StreamsSound
    <3>2. ASSUME NEW i \in 1..Len(deadClients') PROVE handler'[deadClients'[i]] = "done"
      <4>1. deadClients \in Seq(Clients) /\ deadClients' = Append(deadClients, c)
        BY <1>0, <1>6 DEF SSE!Unsubscribe, SSE!TypeOK
      <4>2. CASE i = Len(deadClients) + 1
        BY SMTT(30), SMTT(60), <2>2, <4>1, <4>2, Sent
      <4>3. CASE i \in 1..Len(deadClients)
        BY SMTT(30), SMTT(60), <1>0, <2>2, <4>1, <4>3, Sent DEF StreamsSound
      <4> QED
        BY SMTT(30), SMTT(60), <4>1, <4>2, <4>3, Sent
    <3> QED
      BY <1>6, <3>1, <3>2 DEF StreamsSound, SSE!Unsubscribe
  <2>4. SSE!NotCutOff' /\ SSE!Reachable'
    BY <1>0, <1>6, <2>2 DEF SSE!NotCutOff, SSE!Reachable, SSE!TypeOK, SSE!Unsubscribe
  <2> QED
    BY <1>6, <2>1, <2>3, <2>4, EventsUnchanged DEF BrokerInv, SSE!Unsubscribe, SSE!run
<1>7. CASE SSE!RunNew
  <2> DEFINE d == Head(newClients)
  <2>1. /\ d \in Clients /\ IdOf[d] \in Ids /\ newClients' = Tail(newClients)
        /\ newClients \in Seq(Clients) /\ newClients # <<>>
        /\ clients' = [clients EXCEPT ![IdOf[d]] = d]
    BY <1>0, <1>7, Received DEF SSE!RunNew, SSE!TypeOK
  <2>2. SSE!TypeOK'
    BY SMTT(30), SMTT(60), <1>0, <1>7, <2>1, Received
    DEF SSE!RunNew, SSE!TypeOK, SSE!run
  <2>3. StreamsSound' /\ handler[d] \notin {"new", "refused", "counted"}
    BY SMTT(30), SMTT(60), <1>0, <1>7, <2>1, Received DEF SSE!RunNew, StreamsSound
  <2>4. SSE!NotCutOff'
    BY <1>0, <1>7 DEF SSE!RunNew, SSE!NotCutOff
  <2>5. SSE!Reachable'
    <3> SUFFICES ASSUME NEW c \in Clients, handler[c] \in {"connect", "loop"},
                        c \notin SSE!Range(newClients'),
                        \A e \in Clients \ {c} :
                          IdOf[e] = IdOf[c] => handler[e] \in {"new", "refused"}
                 PROVE  clients'[IdOf[c]] = c
      BY <1>7 DEF SSE!RunNew, SSE!Reachable
    <3>1. CASE c = d
      BY <1>0, <2>1, <3>1 DEF SSE!TypeOK
    <3>2. CASE c # d
      <4>1. IdOf[d] # IdOf[c]
        BY <2>1, <2>3, <3>2
      <4>2. c \notin SSE!Range(newClients)
        BY SMTT(30), SMTT(60), <2>1, <3>2, QueuedAfterReceive DEF Range, SSE!Range
      <4> QED
        BY <1>0, <2>1, <4>1, <4>2 DEF SSE!Reachable, SSE!TypeOK
    <3> QED
      BY <3>1, <3>2
  <2> QED
    BY <1>7, <2>2, <2>3, <2>4, <2>5, EventsUnchanged DEF BrokerInv, SSE!RunNew, SSE!run
<1>8. CASE SSE!RunDead
  <2> DEFINE d == Head(deadClients)
  <2>1. /\ d \in Clients /\ IdOf[d] \in Ids /\ deadClients' = Tail(deadClients)
        /\ deadClients \in Seq(Clients) /\ deadClients # <<>>
        /\ clients' = [clients EXCEPT ![IdOf[d]] = NoClient]
        /\ closed' = closed \cup {d}
    BY <1>0, <1>8, Received DEF SSE!RunDead, SSE!TypeOK
  <2>2. SSE!TypeOK'
    BY SMTT(30), SMTT(60), <1>0, <1>8, <2>1, Received
    DEF SSE!RunDead, SSE!TypeOK, SSE!run
  <2>3. StreamsSound' /\ handler[d] = "done"
    BY SMTT(30), SMTT(60), <1>0, <1>8, <2>1, Received
    DEF SSE!RunDead, StreamsSound
  <2>4. SSE!NotCutOff'
    BY <1>0, <1>8, <2>1, <2>3 DEF SSE!RunDead, SSE!NotCutOff
  <2>5. SSE!Reachable'
    BY <1>0, <1>8, <2>1, <2>3 DEF SSE!RunDead, SSE!Reachable, SSE!TypeOK
  <2> QED
    BY <1>8, <2>2, <2>3, <2>4, <2>5, EventsUnchanged DEF BrokerInv, SSE!RunDead, SSE!run
<1>9. CASE SSE!RunMessage
  <2>1. /\ event' = Head(messages) /\ messages' = Tail(messages) /\ messages # <<>>
        /\ messages \in Seq(Nat \ {0}) /\ event \in Nat /\ published' = published
        /\ UNCHANGED <<got, channel>>
    BY <1>0, <1>9 DEF SSE!RunMessage, SSE!TypeOK
  <2>2. SSE!TypeOK'
    BY SMTT(30), SMTT(60), <1>0, <1>9, <2>1, Received
    DEF SSE!RunMessage, SSE!TypeOK, SSE!Entries
  <2>3. StreamsSound' /\ SSE!NotCutOff' /\ SSE!Reachable'
    BY <1>9, ClientsUnchanged DEF SSE!RunMessage
  <2>4. event' \in Nat /\ event < event'
    BY SMTT(30), SMTT(60), <1>0, <2>1, Received DEF MessagesAscend
  <2>5. MessagesAscend'
    BY SMTT(30), SMTT(60), <1>0, <2>1, Received DEF MessagesAscend
  <2>6. ASSUME NEW c \in Clients PROVE ChannelAscends(c)'
    <3>1. got[c] \in Nat /\ channel[c] \in Seq(Nat) /\ ChannelAscends(c)
      BY <1>0 DEF SSE!TypeOK
    <3>2. \A i \in 1..Len(channel[c]) : channel[c][i] \in Nat
      BY SMTT(30), SMTT(60), <3>1
    <3> QED
      BY SMTT(30), SMTT(60), <2>1, <2>4, <3>1, <3>2 DEF ChannelAscends
  <2> QED
    BY <2>2, <2>3, <2>5, <2>6 DEF BrokerInv
<1>10. CASE SSE!RunSend
  <2>1. PICK c \in todo :
          /\ todo' = todo \ {c}
          /\ channel' = IF c \notin closed /\ Len(channel[c]) < ChannelCap
                        THEN [channel EXCEPT ![c] = Append(@, event)] ELSE channel
    BY <1>10 DEF SSE!RunSend
  <2>2. c \in Clients /\ channel[c] \in Seq(Nat) /\ event \in Nat
    BY <1>0 DEF SSE!TypeOK
  <2>3. SSE!TypeOK'
    BY <1>0, <1>10, <2>1, <2>2, Sent DEF SSE!RunSend, SSE!TypeOK, SSE!queues
  <2>4. StreamsSound' /\ SSE!NotCutOff' /\ SSE!Reachable'
    BY <1>10, ClientsUnchanged DEF SSE!RunSend, SSE!queues
  <2>5. MessagesAscend'
    BY <1>0, <1>10 DEF SSE!RunSend, MessagesAscend, SSE!queues
  <2>6. ChannelAscends(c)'
    <3>1. CASE channel' = channel
      BY <1>0, <1>10, <2>1, <2>2, <3>1 DEF SSE!RunSend, ChannelAscends
    <3>2. CASE channel'[c] = Append(channel[c], event)
      BY <1>0, <1>10, <2>1, <2>2, <3>2, AscendsAfterSend DEF SSE!RunSend
    <3> QED
      BY <1>0, <2>1, <2>2, <3>1, <3>2 DEF SSE!TypeOK
  <2>7. ASSUME NEW d \in Clients, d # c PROVE ChannelAscends(d)'
    BY <1>0, <1>10, <2>1, <2>2, <2>7 DEF SSE!RunSend, SSE!TypeOK, ChannelAscends
  <2> QED
    BY <2>3, <2>4, <2>5, <2>6, <2>7 DEF BrokerInv
<1>11. CASE SSE!Publish
  <2>1. /\ published' = published + 1 /\ messages' = Append(messages, published + 1)
        /\ messages \in Seq(Nat \ {0}) /\ published \in Nat /\ event' = event
        /\ event \in Nat
    BY <1>0, <1>11 DEF SSE!Publish, SSE!TypeOK, SSE!run
  <2>2. SSE!TypeOK'
    BY SMTT(30), SMTT(60), <1>0, <1>11, <2>1, Sent
    DEF SSE!Publish, SSE!TypeOK, SSE!run
  <2>3. StreamsSound' /\ SSE!NotCutOff' /\ SSE!Reachable'
    BY <1>11, ClientsUnchanged DEF SSE!Publish
  <2>4. MessagesAscend'
    BY SMTT(30), SMTT(60), <1>0, <2>1, Sent DEF MessagesAscend
  <2>5. ASSUME NEW c \in Clients PROVE ChannelAscends(c)'
    BY <1>0, <1>11 DEF SSE!Publish, ChannelAscends, SSE!run
  <2> QED
    BY <2>2, <2>3, <2>4, <2>5 DEF BrokerInv
<1>12. CASE SSE!Join
  <2>1. SSE!TypeOK'
    BY <1>0, <1>12 DEF SSE!Join, SSE!TypeOK, SSE!queues, SSE!run
  <2> QED
    BY <1>12, <2>1, ClientsUnchanged, EventsUnchanged DEF BrokerInv, SSE!Join, SSE!queues, SSE!run
<1>13. CASE SSE!Leave
  <2>1. SSE!TypeOK'
    BY <1>0, <1>13 DEF SSE!Leave, SSE!TypeOK, SSE!queues, SSE!run
  <2> QED
    BY <1>13, <2>1, ClientsUnchanged, EventsUnchanged DEF BrokerInv, SSE!Leave, SSE!queues, SSE!run
<1>14. ASSUME NEW s \in Senders, SSE!Check(s) PROVE BrokerInv'
  <2>1. SSE!TypeOK'
    BY <1>0, <1>14 DEF SSE!Check, SSE!TypeOK, SSE!Entries, SSE!queues, SSE!run
  <2> QED
    BY <1>14, <2>1, ClientsUnchanged, EventsUnchanged DEF BrokerInv, SSE!Check, SSE!queues, SSE!run
<1>15. ASSUME NEW s \in Senders, SSE!Push(s) PROVE BrokerInv'
  <2>0. PICK c \in Clients : c = checked[s]
    BY <1>0, <1>15 DEF SSE!Push, SSE!TypeOK
  <2>1. /\ channel[c] \in Seq(Nat) /\ event \in Nat
        /\ channel' = IF c \notin closed /\ Len(channel[c]) < ChannelCap
                      THEN [channel EXCEPT ![c] = Append(@, 0)] ELSE channel
    BY <1>0, <1>15, <2>0 DEF SSE!Push, SSE!TypeOK
  <2>2. SSE!TypeOK'
    BY SMTT(30), SMTT(60), <1>0, <1>15, <2>1, Sent
    DEF SSE!Push, SSE!TypeOK, SSE!queues, SSE!run
  <2>3. StreamsSound' /\ SSE!NotCutOff' /\ SSE!Reachable'
    BY <1>15, ClientsUnchanged DEF SSE!Push, SSE!queues
  <2>4. MessagesAscend'
    BY <1>0, <1>15 DEF SSE!Push, MessagesAscend, SSE!queues, SSE!run
  <2>5. ChannelAscends(c)'
    <3>1. CASE channel' = channel
      BY <1>0, <1>15, <2>1, <3>1 DEF SSE!Push, ChannelAscends, SSE!run
    <3>2. CASE channel'[c] = Append(channel[c], 0)
      BY <1>0, <1>15, <2>1, <3>2, AscendsAfterSend DEF SSE!Push, SSE!run
    <3> QED
      BY <1>0, <2>1, <3>1, <3>2 DEF SSE!TypeOK
  <2>6. ASSUME NEW d \in Clients, d # c PROVE ChannelAscends(d)'
    BY SMTT(30), SMTT(60), <1>0, <1>15, <2>1, <2>6
    DEF SSE!Push, SSE!TypeOK, ChannelAscends, SSE!run
  <2> QED
    BY <2>2, <2>3, <2>4, <2>5, <2>6 DEF BrokerInv
<1>16. CASE UNCHANGED SSE!vars
  <2>1. SSE!TypeOK'
    BY <1>0, <1>16 DEF SSE!TypeOK, SSE!vars, SSE!queues, SSE!run
  <2> QED
    BY <1>16, <2>1, ClientsUnchanged, EventsUnchanged DEF BrokerInv, SSE!vars, SSE!queues, SSE!run
<1> QED
  BY <1>1, <1>2, <1>3, <1>4, <1>5, <1>6, <1>7, <1>8, <1>9, <1>10, <1>11, <1>12,
     <1>13, <1>14, <1>15, <1>16 DEF SSE!Next, SSE!Run, SSE!HandleConnection

\* BrokerInv is an invariant of the broker.
LEMMA BrokerInvariance == ASSUME SSE!BrokerAssumption PROVE SSE!Spec => []BrokerInv
BY BrokerInit, BrokerNext, PTL DEF SSE!Spec
-----------------------------------------------------------------------------
\* run closes the client of a handler only after that handler has left, whatever
\* IDs are shared: nobody is cut off by the end of another connection.
THEOREM NobodyCutOff == ASSUME SSE!BrokerAssumption PROVE SSE!Spec => []SSE!NotCutOff
<1>1. BrokerInv => SSE!NotCutOff
  BY DEF BrokerInv
<1> QED
  BY <1>1, BrokerInvariance, PTL

\* A subscribed client whose registration run has taken is found under its ID,
\* unless another client has used the ID.
THEOREM SubscribedIsFound == ASSUME SSE!BrokerAssumption PROVE SSE!Spec => []SSE!Reachable
<1>1. BrokerInv => SSE!Reachable
  BY DEF BrokerInv
<1> QED
  BY <1>1, BrokerInvariance, PTL

\* Handlers are handed the published events in the order of Publish and none of
\* them twice, although full channels drop some and others send in between.
THEOREM DeliveredInOrder == ASSUME SSE!BrokerAssumption PROVE SSE!Spec => SSE!InOrder
<1> DEFINE Step(c) == got'[c] >= got[c]
                /\ (Len(channel'[c]) < Len(channel[c]) /\ Head(channel[c]) # 0
                      => got'[c] > got[c])
<1>1. ASSUME BrokerInv, SSE!Next, NEW c \in Clients PROVE Step(c)
  <2>1. /\ SSE!TypeOK /\ ChannelAscends(c) /\ got[c] \in Nat
        /\ channel[c] \in Seq(Nat) /\ event \in Nat
    BY <1>1 DEF BrokerInv, SSE!TypeOK
  <2>2. CASE SSE!Receive(c)
    BY <2>1, <2>2, AscendsAfterReceive DEF SSE!Receive, SSE!TypeOK, SSE!run
  <2>3. ASSUME NEW d \in Clients \ {c}, SSE!Receive(d) PROVE Step(c)
    BY SMTT(30), SMTT(60), <2>1, <2>3 DEF SSE!Receive, SSE!TypeOK
  <2>a. Len(channel[c]) \in Nat
    BY <2>1, Sent
  <2>4. ASSUME got' = got, channel'[c] = channel[c] PROVE Step(c)
    BY SMTT(30), SMTT(60), <2>1, <2>4, <2>a
  <2>b. ASSUME got' = got, NEW e \in Nat, channel'[c] = Append(channel[c], e)
        PROVE  Step(c)
    <3>1. Len(channel'[c]) = Len(channel[c]) + 1
      BY SMTT(30), SMTT(60), <2>1, <2>b, Sent
    <3> QED
      BY SMTT(30), SMTT(60), <2>1, <2>a, <2>b, <3>1
  <2>5. CASE SSE!RunSend
    <3>1. got' = got /\ (channel'[c] = channel[c] \/ channel'[c] = Append(channel[c], event))
      BY <2>1, <2>5 DEF SSE!RunSend, SSE!TypeOK
    <3> QED
      BY <2>1, <2>4, <2>b, <3>1
  <2>6. ASSUME NEW s \in Senders, SSE!Push(s) PROVE Step(c)
    <3>1. got' = got /\ (channel'[c] = channel[c] \/ channel'[c] = Append(channel[c], 0))
      BY <2>1, <2>6 DEF SSE!Push, SSE!TypeOK
    <3> QED
      BY <2>4, <2>b, <3>1
  <2> QED
    BY <1>1, <2>2, <2>3, <2>4, <2>5, <2>6
       DEF SSE!Next, SSE!Run, SSE!HandleConnection, SSE!RunNew, SSE!RunDead, SSE!RunMessage,
           SSE!Publish, SSE!Join, SSE!Leave, SSE!Check, SSE!Count, SSE!Subscribe,
           SSE!Connected, SSE!SeesClosed, SSE!Unsubscribe
<1>2. BrokerInv /\ [SSE!Next]_SSE!vars => [\A c \in Clients : Step(c)]_SSE!vars
  BY <1>1
<1> QED
  BY <1>2, BrokerInvariance, PTL DEF SSE!Spec, SSE!InOrder
=============================================================================

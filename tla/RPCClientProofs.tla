-------------------------- MODULE RPCClientProofs --------------------------
(***************************************************************************)
(* Proofs about module RPCClient for every set of calls and pings and any  *)
(* number of request IDs.                                                  *)
(***************************************************************************)
EXTENDS RPCClient, TLAPS

\* The provers of a leaf that names none: most leaves are first-order.
USE ZenonT(20), SMTT(30), SMTT(60)

\* The parts of TypeOK, by the variables they are about.
TClient ==
  /\ mu \in Requests \cup {NoReq}
  /\ closed \in BOOLEAN /\ connOpen \in BOOLEAN
TTable ==
  reqID \in 0 .. MaxId /\ pending \in [Ids -> Requests \cup {NoReq}]
TCallers ==
  /\ pc \in [Requests -> {"start", "id", "store", "encode", "send", "write",
                          "fail", "unstore", "finish", "wait", "got",
                          "returned"}]
  /\ id \in [Requests -> 0 .. MaxId]
  /\ result \in [Requests -> {"none", "nil", "error", "cancelled"}]
TObject ==
  /\ error \in [Requests -> {"nil", "error"}]
  /\ reply \in [Requests -> Requests \cup {NoReq}]
  /\ done \in [Requests -> {"empty", "full"}]
TNetwork ==
  /\ wire \subseteq Frames /\ answers \subseteq Answered
  /\ rpc \in {"read", "lookup", "fill", "done", "close", "ended"}
  /\ frame \in Answered \cup {NoFrame} /\ call \in Requests \cup {NoReq}
TCloser ==
  /\ cpc \in {"idle", "mark", "conn", "range", "error", "done", "delete",
              "closed"}
  /\ unseen \subseteq Ids /\ seen \subseteq Ids
  /\ vid \in 0 .. MaxId /\ victim \in Requests \cup {NoReq}

\* The goroutine of Close has not closed the connection, and it visits entries.
Early  == cpc \in {"idle", "mark", "conn"}
Visits == cpc \in {"error", "done", "delete"}

\* Entry i is still ahead of Range.
Ahead(i) == Early \/ (cpc # "closed" /\ i \in unseen /\ i \notin seen)

\* closed and connOpen follow the steps of Close, and a request in conn.Write
\* has the mutex, which keeps Close from its first step.
CloseOrder ==
  /\ closed <=> cpc \notin {"idle", "mark"}
  /\ connOpen <=> Early
  /\ \A c \in Requests : pc[c] = "write" => mu = c /\ ~closed

\* An ID belongs to one request, which has it from NewId on.
IdsSound ==
  /\ \A c \in Requests : id[c] <= reqID
  /\ \A c, d \in Requests : id[c] = id[d] /\ id[c] # 0 => c = d
  /\ \A c \in Requests :
       pc[c] \in {"store", "encode", "send", "write", "fail", "unstore",
                  "finish"}
         => id[c] # 0
  /\ \A c \in Pings : pc[c] = "wait" => id[c] # 0
  /\ \A c \in Requests : pc[c] \in {"start", "id"} => id[c] = 0

\* A request that has been sent; only a Ping removes its entry after that.
Sent(c) == \/ pc[c] \in {"wait", "got", "returned"}
           \/ pc[c] = "unstore" /\ c \in Pings

\* A frame on the wire, in an answer or in the hand of receive has the ID of the
\* request it is about, which has been sent.
FramesSound ==
  /\ \A m \in wire : m.id = id[m.to] /\ Sent(m.to)
  /\ \A m \in answers : m.id = id[m.to] /\ Sent(m.to)
  /\ rpc \in {"lookup", "fill", "done"} =>
       frame \in Answered /\ frame.id = id[frame.to] /\ Sent(frame.to)
  /\ \A m \in answers : m.type = "pong" => m.to \in Pings
  /\ rpc \in {"lookup", "fill", "done"} =>
       (frame.type = "pong" => frame.to \in Pings)
  /\ rpc \in {"fill", "done"} => call \in Requests /\ call = frame.to

\* An entry of pending is the request with that ID, once it has stored itself.
PendingSound ==
  /\ \A i \in Ids : pending[i] # NoReq =>
       id[pending[i]] = i /\ pc[pending[i]] \notin {"start", "id", "store"}
  /\ Visits => vid \in Ids /\ vid \in seen /\ victim \in Requests
               /\ id[victim] = vid
               /\ pc[victim] \notin {"start", "id", "store"}
  /\ \A i \in seen : pending[i] = NoReq \/ (Visits /\ vid = i)
  /\ \A i \in seen \cup unseen : \A c \in Requests :
       id[c] = i => pc[c] # "store"
  /\ \A i \in seen \cup unseen : i <= reqID

\* A completed call has an error or its reply.
Settled(c) == error[c] = "error" \/ reply[c] = c
ResultSound ==
  /\ \A c \in Calls : done[c] = "full" \/ pc[c] = "got" => Settled(c)
  /\ rpc = "done" /\ call \in Calls => Settled(call)
  /\ cpc = "done" => error[victim] = "error"
  /\ \A c \in Calls : pc[c] \in {"unstore", "finish"} => error[c] = "error"

\* A request that waits will be completed: it has been, or handleFrame or Range
\* has it, or its entry is there and ahead of Range.
Expected(c) ==
  \/ done[c] = "full" \/ InHand(c)
  \/ cpc \in {"error", "done"} /\ victim = c
  \/ id[c] \in Ids /\ pending[id[c]] = c /\ Ahead(id[c])
WaitersExpected == \A c \in Requests : pc[c] = "wait" => Expected(c)

\* Until Close has closed the connection, nobody removes the entry of a request
\* that has not been sent.
UnsentStored ==
  \A c \in Requests : pc[c] \in {"encode", "send", "write"} /\ Early =>
    pending[id[c]] = c

\* Entries of requests that no longer remove them are ahead of Range, or are
\* the one it is at.
EntriesVisited ==
  \A i \in Ids : pending[i] # NoReq =>
    \/ pc[pending[i]] \in {"encode", "send", "fail", "unstore"}
    \/ Ahead(i) \/ (Visits /\ vid = i)

IInv ==
  /\ TClient /\ TTable /\ TCallers /\ TObject /\ TNetwork /\ TCloser
  /\ CloseOrder /\ IdsSound /\ FramesSound /\ PendingSound
  /\ ReplyToOwner /\ ResultSound /\ SuccessHasReply
  /\ WaitersExpected /\ UnsentStored /\ EntriesVisited
-----------------------------------------------------------------------------
USE ClientAssumption
DEF Requests, Ids, client, table, callers, object, network, recv, closer,
    Goto, Return, SetError, SendFailed, Complete, CloseGoto, Early, Visits,
    Ahead, Sent, Settled, Expected, InHand

\* The initial state satisfies IInv.
LEMMA InitInv == Init => IInv
<1> SUFFICES ASSUME Init PROVE IInv
  OBVIOUS
<1>1. TClient
  BY DEF Init, TClient
<1>8. TCallers
  <2>1. 0 \in 0 .. MaxId
    BY SMTT(30), SMTT(60)
  <2> QED  BY <2>1 DEF Init, TCallers
<1>7. TTable /\ TObject
  BY SMTT(30), SMTT(60) DEF Init, TTable, TObject
<1>2. TNetwork
  BY DEF Init, TNetwork
<1>3. TCloser /\ CloseOrder /\ IdsSound
  BY SMTT(30), SMTT(60) DEF Init, TCloser, CloseOrder, IdsSound
<1>4. FramesSound /\ PendingSound
  BY DEF Init, FramesSound, PendingSound
<1>5. ReplyToOwner /\ ResultSound /\ SuccessHasReply
  BY DEF Init, ReplyToOwner, ResultSound, SuccessHasReply
<1>6. WaitersExpected /\ UnsentStored /\ EntriesVisited
  BY DEF Init, WaitersExpected, UnsentStored, EntriesVisited
<1> QED  BY <1>1, <1>2, <1>3, <1>4, <1>5, <1>6, <1>7, <1>8 DEF IInv

\* Every step of a request, of the server, of receive and of Close preserves
\* IInv.  Under each action the first steps have the conjuncts that it
\* preserves by themselves, and the others are those that need each other.
LEMMA StepInv == IInv /\ [Next]_vars => IInv'
<1>0. SUFFICES ASSUME IInv, [Next]_vars PROVE IInv'
  OBVIOUS
<1>TClient. TClient  BY <1>0 DEF IInv
<1>TTable. TTable  BY <1>0 DEF IInv
<1>TCallers. TCallers  BY <1>0 DEF IInv
<1>TObject. TObject  BY <1>0 DEF IInv
<1>TNetwork. TNetwork  BY <1>0 DEF IInv
<1>TCloser. TCloser  BY <1>0 DEF IInv
<1>CloseOrder. CloseOrder  BY <1>0 DEF IInv
<1>IdsSound. IdsSound  BY <1>0 DEF IInv
<1>FramesSound. FramesSound  BY <1>0 DEF IInv
<1>PendingSound. PendingSound  BY <1>0 DEF IInv
<1>ReplyToOwner. ReplyToOwner  BY <1>0 DEF IInv
<1>ResultSound. ResultSound  BY <1>0 DEF IInv
<1>SuccessHasReply. SuccessHasReply  BY <1>0 DEF IInv
<1>WaitersExpected. WaitersExpected  BY <1>0 DEF IInv
<1>UnsentStored. UnsentStored  BY <1>0 DEF IInv
<1>EntriesVisited. EntriesVisited  BY <1>0 DEF IInv
<1>1. ASSUME NEW c \in Requests, Check(c) PROVE IInv'
  <2>1. ASSUME pc[c] = "start",
               ~closed,
               pc' = [pc EXCEPT ![c] = "id"],
               UNCHANGED <<mu, closed, connOpen, reqID, pending, id, result,
                           error, reply, done, wire, answers, rpc, frame, call,
                           cpc, unseen, seen, vid, victim>>
        PROVE  IInv'
    <3>1. (TClient /\ TTable /\ TCallers /\ TObject /\ TNetwork /\ TCloser)'
      BY SMTT(30), SMTT(60), <2>1, <1>TClient, <1>TTable, <1>TCallers,
         <1>TObject, <1>TNetwork, <1>TCloser
      DEF TClient, TTable, TCallers, TObject, TNetwork, TCloser
    <3>2. (CloseOrder /\ IdsSound /\ PendingSound /\ ReplyToOwner)'
      BY SMTT(30), SMTT(60), <2>1, <1>CloseOrder, <1>IdsSound, <1>PendingSound,
         <1>ReplyToOwner
      DEF CloseOrder, IdsSound, PendingSound, ReplyToOwner
    <3>3. (ResultSound /\ SuccessHasReply /\ WaitersExpected
           /\ UnsentStored /\ EntriesVisited)'
      BY SMTT(30), SMTT(60), <2>1, <1>ResultSound, <1>SuccessHasReply,
         <1>WaitersExpected, <1>UnsentStored, <1>EntriesVisited
      DEF ResultSound, SuccessHasReply, WaitersExpected, UnsentStored,
          EntriesVisited
    <3>4. FramesSound'
      BY SMTT(30), SMTT(60), <2>1, <1>FramesSound DEF FramesSound
    <3> QED  BY <3>1, <3>2, <3>3, <3>4 DEF IInv
  <2>2. ASSUME pc[c] = "start",
               c \in Calls,
               pc' = [pc EXCEPT ![c] = "wait"],
               error' = [error EXCEPT ![c] = "error"],
               done' = [done EXCEPT ![c] = "full"],
               UNCHANGED <<mu, closed, connOpen, reqID, pending, id, result,
                           reply, wire, answers, rpc, frame, call, cpc, unseen,
                           seen, vid, victim>>
        PROVE  IInv'
    <3>1. (TClient /\ TTable /\ TCallers /\ TObject /\ TNetwork /\ TCloser)'
      BY SMTT(30), SMTT(60), <2>2, <1>TClient, <1>TTable, <1>TCallers,
         <1>TObject, <1>TNetwork, <1>TCloser
      DEF TClient, TTable, TCallers, TObject, TNetwork, TCloser
    <3>2. (CloseOrder /\ IdsSound /\ PendingSound)'
      BY SMTT(30), SMTT(60), <2>2, <1>CloseOrder, <1>IdsSound, <1>PendingSound
      DEF CloseOrder, IdsSound, PendingSound
    <3>3. (ReplyToOwner /\ SuccessHasReply /\ UnsentStored
           /\ EntriesVisited)'
      BY SMTT(30), SMTT(60), <2>2, <1>ReplyToOwner, <1>SuccessHasReply,
         <1>UnsentStored, <1>EntriesVisited
      DEF ReplyToOwner, SuccessHasReply, UnsentStored, EntriesVisited
    <3>4. FramesSound'
      BY SMTT(30), SMTT(60), <2>2, <1>FramesSound DEF FramesSound
    <3>5. ResultSound'
      BY SMTT(30), SMTT(60), <2>2, <1>ResultSound, <1>TObject
      DEF ResultSound, TObject
    <3>6. WaitersExpected'
      BY SMTT(30), SMTT(60), <2>2, <1>WaitersExpected, <1>TObject
      DEF WaitersExpected, TObject
    <3> QED  BY <3>1, <3>2, <3>3, <3>4, <3>5, <3>6 DEF IInv
  <2>3. ASSUME pc[c] = "start",
               c \in Pings,
               pc' = [pc EXCEPT ![c] = "returned"],
               result' = [result EXCEPT ![c] = "error"],
               UNCHANGED <<mu, closed, connOpen, reqID, pending, id, error,
                           reply, done, wire, answers, rpc, frame, call, cpc,
                           unseen, seen, vid, victim>>
        PROVE  IInv'
    <3>1. (TClient /\ TTable /\ TCallers /\ TObject /\ TNetwork /\ TCloser)'
      BY SMTT(30), SMTT(60), <2>3, <1>TClient, <1>TTable, <1>TCallers,
         <1>TObject, <1>TNetwork, <1>TCloser
      DEF TClient, TTable, TCallers, TObject, TNetwork, TCloser
    <3>2. (CloseOrder /\ IdsSound /\ PendingSound /\ ReplyToOwner)'
      BY SMTT(30), SMTT(60), <2>3, <1>CloseOrder, <1>IdsSound, <1>PendingSound,
         <1>ReplyToOwner
      DEF CloseOrder, IdsSound, PendingSound, ReplyToOwner
    <3>3. (ResultSound /\ SuccessHasReply /\ WaitersExpected
           /\ UnsentStored /\ EntriesVisited)'
      BY SMTT(30), SMTT(60), <2>3, <1>ResultSound, <1>SuccessHasReply,
         <1>WaitersExpected, <1>UnsentStored, <1>EntriesVisited
      DEF ResultSound, SuccessHasReply, WaitersExpected, UnsentStored,
          EntriesVisited
    <3>4. FramesSound'
      BY SMTT(30), SMTT(60), <2>3, <1>FramesSound DEF FramesSound
    <3> QED  BY <3>1, <3>2, <3>3, <3>4 DEF IInv
  <2> QED  BY <1>1, <2>1, <2>2, <2>3 DEF Check
<1>2. ASSUME NEW c \in Requests, NewId(c) PROVE IInv'
  <2>1. (TClient /\ TTable /\ TObject /\ TNetwork /\ TCloser)'
    BY SMTT(30), SMTT(60), <1>2, <1>TClient, <1>TTable, <1>TObject,
       <1>TNetwork, <1>TCloser
    DEF TClient, TTable, TObject, TNetwork, TCloser, NewId
  <2>2. (CloseOrder /\ ReplyToOwner /\ ResultSound)'
    BY SMTT(30), SMTT(60), <1>2, <1>CloseOrder, <1>ReplyToOwner, <1>ResultSound
    DEF CloseOrder, ReplyToOwner, ResultSound, NewId
  <2>3. (SuccessHasReply /\ WaitersExpected /\ UnsentStored
         /\ EntriesVisited)'
    BY SMTT(30), SMTT(60), <1>2, <1>SuccessHasReply, <1>WaitersExpected,
       <1>UnsentStored, <1>EntriesVisited
    DEF SuccessHasReply, WaitersExpected, UnsentStored, EntriesVisited, NewId
  <2>4. FramesSound'
    BY SMTT(30), SMTT(60), <1>2, <1>FramesSound DEF FramesSound, NewId
  <2>5. TCallers'
    BY SMTT(30), SMTT(60), <1>2, <1>TCallers, <1>TTable
    DEF TCallers, TTable, NewId
  <2>6. IdsSound'
    BY SMTT(30), SMTT(60), <1>2, <1>IdsSound, <1>TCallers, <1>TTable
    DEF IdsSound, TCallers, TTable, NewId
  <2>7. PendingSound'
    BY SMTT(30), SMTT(60), <1>2, <1>PendingSound, <1>TCallers, <1>TTable,
       <1>TCloser, <1>IdsSound
    DEF PendingSound, TCallers, TTable, TCloser, IdsSound, NewId
  <2> QED  BY <2>1, <2>2, <2>3, <2>4, <2>5, <2>6, <2>7 DEF IInv
<1>3. ASSUME NEW c \in Requests, Store(c) PROVE IInv'
  <2>1. (TClient /\ TCallers /\ TObject /\ TNetwork /\ TCloser)'
    BY SMTT(30), SMTT(60), <1>3, <1>TClient, <1>TCallers, <1>TObject,
       <1>TNetwork, <1>TCloser
    DEF TClient, TCallers, TObject, TNetwork, TCloser, Store
  <2>2. (CloseOrder /\ IdsSound /\ ReplyToOwner /\ ResultSound
         /\ SuccessHasReply)'
    BY SMTT(30), SMTT(60), <1>3, <1>CloseOrder, <1>IdsSound, <1>ReplyToOwner,
       <1>ResultSound, <1>SuccessHasReply
    DEF CloseOrder, IdsSound, ReplyToOwner, ResultSound, SuccessHasReply, Store
  <2>3. FramesSound'
    BY SMTT(30), SMTT(60), <1>3, <1>FramesSound DEF FramesSound, Store
  <2>4. TTable'
    BY <1>3, <1>TTable, <1>TCallers, <1>IdsSound
    DEF TTable, TCallers, IdsSound, Store
  <2>5. PendingSound'
    BY SMTT(30), SMTT(60), <1>3, <1>PendingSound, <1>TCallers
    DEF PendingSound, TCallers, Store
  <2>6. WaitersExpected'
    BY SMTT(30), SMTT(60), <1>3, <1>WaitersExpected, <1>TCallers, <1>TTable,
       <1>IdsSound
    DEF WaitersExpected, TCallers, TTable, IdsSound, Store
  <2>7. UnsentStored'
    BY SMTT(30), SMTT(60), <1>3, <1>UnsentStored, <1>TCallers, <1>TTable,
       <1>IdsSound
    DEF UnsentStored, TCallers, TTable, IdsSound, Store
  <2>8. EntriesVisited'
    BY SMTT(30), SMTT(60), <1>3, <1>EntriesVisited, <1>TCallers
    DEF EntriesVisited, TCallers, Store
  <2> QED  BY <2>1, <2>2, <2>3, <2>4, <2>5, <2>6, <2>7, <2>8 DEF IInv
<1>4. ASSUME NEW c \in Requests, EncodeArgs(c) PROVE IInv'
  <2>1. (TClient /\ TTable /\ TCallers /\ TObject /\ TNetwork /\ TCloser)'
    BY SMTT(30), SMTT(60), <1>4, <1>TClient, <1>TTable, <1>TCallers,
       <1>TObject, <1>TNetwork, <1>TCloser
    DEF TClient, TTable, TCallers, TObject, TNetwork, TCloser, EncodeArgs
  <2>2. (CloseOrder /\ IdsSound /\ PendingSound /\ ReplyToOwner)'
    BY SMTT(30), SMTT(60), <1>4, <1>CloseOrder, <1>IdsSound, <1>PendingSound,
       <1>ReplyToOwner
    DEF CloseOrder, IdsSound, PendingSound, ReplyToOwner, EncodeArgs
  <2>3. (ResultSound /\ SuccessHasReply /\ WaitersExpected /\ UnsentStored
         /\ EntriesVisited)'
    BY SMTT(30), SMTT(60), <1>4, <1>ResultSound, <1>SuccessHasReply,
       <1>WaitersExpected, <1>UnsentStored, <1>EntriesVisited
    DEF ResultSound, SuccessHasReply, WaitersExpected, UnsentStored,
        EntriesVisited, EncodeArgs
  <2>4. FramesSound'
    BY SMTT(30), SMTT(60), <1>4, <1>FramesSound DEF FramesSound, EncodeArgs
  <2> QED  BY <2>1, <2>2, <2>3, <2>4 DEF IInv
<1>5. ASSUME NEW c \in Requests, Send(c) PROVE IInv'
  <2>1. ASSUME pc[c] = "send",
               closed,
               c \in Calls,
               pc' = [pc EXCEPT ![c] = "fail"],
               UNCHANGED <<mu, closed, connOpen, reqID, pending, id, result,
                           error, reply, done, wire, answers, rpc, frame, call,
                           cpc, unseen, seen, vid, victim>>
        PROVE  IInv'
    <3>1. (TClient /\ TTable /\ TCallers /\ TObject /\ TNetwork /\ TCloser)'
      BY SMTT(30), SMTT(60), <2>1, <1>TClient, <1>TTable, <1>TCallers,
         <1>TObject, <1>TNetwork, <1>TCloser
      DEF TClient, TTable, TCallers, TObject, TNetwork, TCloser
    <3>2. (CloseOrder /\ IdsSound /\ PendingSound /\ ReplyToOwner)'
      BY SMTT(30), SMTT(60), <2>1, <1>CloseOrder, <1>IdsSound, <1>PendingSound,
         <1>ReplyToOwner
      DEF CloseOrder, IdsSound, PendingSound, ReplyToOwner
    <3>3. (ResultSound /\ SuccessHasReply /\ WaitersExpected
           /\ UnsentStored /\ EntriesVisited)'
      BY SMTT(30), SMTT(60), <2>1, <1>ResultSound, <1>SuccessHasReply,
         <1>WaitersExpected, <1>UnsentStored, <1>EntriesVisited
      DEF ResultSound, SuccessHasReply, WaitersExpected, UnsentStored,
          EntriesVisited
    <3>4. FramesSound'
      BY SMTT(30), SMTT(60), <2>1, <1>FramesSound DEF FramesSound
    <3> QED  BY <3>1, <3>2, <3>3, <3>4 DEF IInv
  <2>2. ASSUME pc[c] = "send",
               closed,
               c \in Pings,
               pc' = [pc EXCEPT ![c] = "unstore"],
               UNCHANGED <<mu, closed, connOpen, reqID, pending, id, result,
                           error, reply, done, wire, answers, rpc, frame, call,
                           cpc, unseen, seen, vid, victim>>
        PROVE  IInv'
    <3>1. (TClient /\ TTable /\ TCallers /\ TObject /\ TNetwork /\ TCloser)'
      BY SMTT(30), SMTT(60), <2>2, <1>TClient, <1>TTable, <1>TCallers,
         <1>TObject, <1>TNetwork, <1>TCloser
      DEF TClient, TTable, TCallers, TObject, TNetwork, TCloser
    <3>2. (CloseOrder /\ IdsSound /\ PendingSound /\ ReplyToOwner)'
      BY SMTT(30), SMTT(60), <2>2, <1>CloseOrder, <1>IdsSound, <1>PendingSound,
         <1>ReplyToOwner
      DEF CloseOrder, IdsSound, PendingSound, ReplyToOwner
    <3>3. (ResultSound /\ SuccessHasReply /\ WaitersExpected
           /\ UnsentStored /\ EntriesVisited)'
      BY SMTT(30), SMTT(60), <2>2, <1>ResultSound, <1>SuccessHasReply,
         <1>WaitersExpected, <1>UnsentStored, <1>EntriesVisited
      DEF ResultSound, SuccessHasReply, WaitersExpected, UnsentStored,
          EntriesVisited
    <3>4. FramesSound'
      BY SMTT(30), SMTT(60), <2>2, <1>FramesSound DEF FramesSound
    <3> QED  BY <3>1, <3>2, <3>3, <3>4 DEF IInv
  <2>3. ASSUME pc[c] = "send",
               ~closed,
               mu = NoReq,
               pc' = [pc EXCEPT ![c] = "write"],
               mu' = c,
               UNCHANGED <<closed, connOpen, reqID, pending, id, result, error,
                           reply, done, wire, answers, rpc, frame, call, cpc,
                           unseen, seen, vid, victim>>
        PROVE  IInv'
    <3>1. (TClient /\ TTable /\ TCallers /\ TObject /\ TNetwork /\ TCloser)'
      BY SMTT(30), SMTT(60), <2>3, <1>TClient, <1>TTable, <1>TCallers,
         <1>TObject, <1>TNetwork, <1>TCloser
      DEF TClient, TTable, TCallers, TObject, TNetwork, TCloser
    <3>2. (CloseOrder /\ IdsSound /\ PendingSound /\ ReplyToOwner)'
      BY SMTT(30), SMTT(60), <2>3, <1>CloseOrder, <1>IdsSound, <1>PendingSound,
         <1>ReplyToOwner
      DEF CloseOrder, IdsSound, PendingSound, ReplyToOwner
    <3>3. (ResultSound /\ SuccessHasReply /\ WaitersExpected
           /\ UnsentStored)'
      BY SMTT(30), SMTT(60), <2>3, <1>ResultSound, <1>SuccessHasReply,
         <1>WaitersExpected, <1>UnsentStored
      DEF ResultSound, SuccessHasReply, WaitersExpected, UnsentStored
    <3>4. FramesSound'
      BY SMTT(30), SMTT(60), <2>3, <1>FramesSound DEF FramesSound
    <3>5. EntriesVisited'
      BY <2>3, <1>EntriesVisited, <1>TCallers, <1>CloseOrder
      DEF EntriesVisited, TCallers, CloseOrder
    <3> QED  BY <3>1, <3>2, <3>3, <3>4, <3>5 DEF IInv
  <2> QED  BY <1>5, <2>1, <2>2, <2>3 DEF Send
<1>6. ASSUME NEW c \in Requests, Write(c) PROVE IInv'
  <2>1. ASSUME pc[c] = "write",
               connOpen,
               pc' = [pc EXCEPT ![c] = "wait"],
               mu' = NoReq,
               wire' = wire \cup {[id |-> id[c], to |-> c]},
               UNCHANGED <<closed, connOpen, reqID, pending, id, result, error,
                           reply, done, answers, rpc, frame, call, cpc, unseen,
                           seen, vid, victim>>
        PROVE  IInv'
    <3>1. (TClient /\ TTable /\ TCallers /\ TObject /\ TCloser)'
      BY <2>1, <1>TClient, <1>TTable, <1>TCallers, <1>TObject, <1>TCloser
      DEF TClient, TTable, TCallers, TObject, TCloser
    <3>2. (IdsSound /\ PendingSound /\ ReplyToOwner)'
      BY SMTT(30), SMTT(60), <2>1, <1>IdsSound, <1>PendingSound, <1>ReplyToOwner
      DEF IdsSound, PendingSound, ReplyToOwner
    <3>3. (ResultSound /\ SuccessHasReply /\ UnsentStored
           /\ EntriesVisited)'
      BY SMTT(30), SMTT(60), <2>1, <1>ResultSound, <1>SuccessHasReply,
         <1>UnsentStored, <1>EntriesVisited
      DEF ResultSound, SuccessHasReply, UnsentStored, EntriesVisited
    <3>4. TNetwork'
      BY SMTT(30), SMTT(60), <2>1, <1>TNetwork, <1>TCallers, <1>IdsSound
      DEF TNetwork, Frames, Answered, NoFrame, TCallers, IdsSound
    <3>5. CloseOrder'
      BY <2>1, <1>CloseOrder, <1>TCallers DEF CloseOrder, TCallers
    <3>6. FramesSound'
      BY SMTT(30), SMTT(60), <2>1, <1>FramesSound, <1>TCallers
      DEF FramesSound, Answered, TCallers
    <3>7. WaitersExpected'
      BY SMTT(30), SMTT(60), <2>1, <1>WaitersExpected, <1>TCallers,
         <1>CloseOrder, <1>UnsentStored, <1>IdsSound
      DEF WaitersExpected, TCallers, CloseOrder, UnsentStored, IdsSound
    <3> QED  BY <3>1, <3>2, <3>3, <3>4, <3>5, <3>6, <3>7 DEF IInv
  <2>2. ASSUME pc[c] = "write",
               c \in Calls,
               pc' = [pc EXCEPT ![c] = "fail"],
               mu' = NoReq,
               UNCHANGED <<closed, connOpen, reqID, pending, id, result, error,
                           reply, done, wire, answers, rpc, frame, call, cpc,
                           unseen, seen, vid, victim>>
        PROVE  IInv'
    <3>1. (TClient /\ TTable /\ TCallers /\ TObject /\ TNetwork /\ TCloser)'
      BY SMTT(30), SMTT(60), <2>2, <1>TClient, <1>TTable, <1>TCallers,
         <1>TObject, <1>TNetwork, <1>TCloser
      DEF TClient, TTable, TCallers, TObject, TNetwork, TCloser
    <3>2. (IdsSound /\ PendingSound /\ ReplyToOwner /\ ResultSound)'
      BY SMTT(30), SMTT(60), <2>2, <1>IdsSound, <1>PendingSound,
         <1>ReplyToOwner, <1>ResultSound
      DEF IdsSound, PendingSound, ReplyToOwner, ResultSound
    <3>3. (SuccessHasReply /\ WaitersExpected /\ UnsentStored
           /\ EntriesVisited)'
      BY SMTT(30), SMTT(60), <2>2, <1>SuccessHasReply, <1>WaitersExpected,
         <1>UnsentStored, <1>EntriesVisited
      DEF SuccessHasReply, WaitersExpected, UnsentStored, EntriesVisited
    <3>4. FramesSound'
      BY SMTT(30), SMTT(60), <2>2, <1>FramesSound DEF FramesSound
    <3>5. CloseOrder'
      BY <2>2, <1>CloseOrder, <1>TCallers DEF CloseOrder, TCallers
    <3> QED  BY <3>1, <3>2, <3>3, <3>4, <3>5 DEF IInv
  <2>3. ASSUME pc[c] = "write",
               c \in Pings,
               pc' = [pc EXCEPT ![c] = "unstore"],
               mu' = NoReq,
               UNCHANGED <<closed, connOpen, reqID, pending, id, result, error,
                           reply, done, wire, answers, rpc, frame, call, cpc,
                           unseen, seen, vid, victim>>
        PROVE  IInv'
    <3>1. (TClient /\ TTable /\ TCallers /\ TObject /\ TNetwork /\ TCloser)'
      BY SMTT(30), SMTT(60), <2>3, <1>TClient, <1>TTable, <1>TCallers,
         <1>TObject, <1>TNetwork, <1>TCloser
      DEF TClient, TTable, TCallers, TObject, TNetwork, TCloser
    <3>2. (IdsSound /\ PendingSound /\ ReplyToOwner /\ ResultSound)'
      BY SMTT(30), SMTT(60), <2>3, <1>IdsSound, <1>PendingSound,
         <1>ReplyToOwner, <1>ResultSound
      DEF IdsSound, PendingSound, ReplyToOwner, ResultSound
    <3>3. (SuccessHasReply /\ WaitersExpected /\ UnsentStored
           /\ EntriesVisited)'
      BY SMTT(30), SMTT(60), <2>3, <1>SuccessHasReply, <1>WaitersExpected,
         <1>UnsentStored, <1>EntriesVisited
      DEF SuccessHasReply, WaitersExpected, UnsentStored, EntriesVisited
    <3>4. FramesSound'
      BY SMTT(30), SMTT(60), <2>3, <1>FramesSound DEF FramesSound
    <3>5. CloseOrder'
      BY <2>3, <1>CloseOrder, <1>TCallers DEF CloseOrder, TCallers
    <3> QED  BY <3>1, <3>2, <3>3, <3>4, <3>5 DEF IInv
  <2> QED  BY <1>6, <2>1, <2>2, <2>3 DEF Write
<1>7. ASSUME NEW c \in Requests, Fail(c) PROVE IInv'
  <2>1. (TClient /\ TTable /\ TCallers /\ TObject /\ TNetwork /\ TCloser)'
    BY SMTT(30), SMTT(60), <1>7, <1>TClient, <1>TTable, <1>TCallers,
       <1>TObject, <1>TNetwork, <1>TCloser
    DEF TClient, TTable, TCallers, TObject, TNetwork, TCloser, Fail
  <2>2. (CloseOrder /\ IdsSound /\ PendingSound /\ ReplyToOwner)'
    BY SMTT(30), SMTT(60), <1>7, <1>CloseOrder, <1>IdsSound, <1>PendingSound,
       <1>ReplyToOwner
    DEF CloseOrder, IdsSound, PendingSound, ReplyToOwner, Fail
  <2>3. (SuccessHasReply /\ WaitersExpected /\ UnsentStored
         /\ EntriesVisited)'
    BY SMTT(30), SMTT(60), <1>7, <1>SuccessHasReply, <1>WaitersExpected,
       <1>UnsentStored, <1>EntriesVisited
    DEF SuccessHasReply, WaitersExpected, UnsentStored, EntriesVisited, Fail
  <2>4. FramesSound'
    BY SMTT(30), SMTT(60), <1>7, <1>FramesSound DEF FramesSound, Fail
  <2>5. ResultSound'
    BY SMTT(30), SMTT(60), <1>7, <1>ResultSound, <1>TObject
    DEF ResultSound, TObject, Fail
  <2> QED  BY <2>1, <2>2, <2>3, <2>4, <2>5 DEF IInv
<1>8. ASSUME NEW c \in Requests, Unstore(c) PROVE IInv'
  <2>1. ASSUME pc[c] = "unstore",
               c \in Calls,
               pc' = [pc EXCEPT ![c] = "finish"],
               pending' = [pending EXCEPT ![id[c]] = NoReq],
               UNCHANGED <<mu, closed, connOpen, reqID, id, result, error,
                           reply, done, wire, answers, rpc, frame, call, cpc,
                           unseen, seen, vid, victim>>
        PROVE  IInv'
    <3>1. (TClient /\ TCallers /\ TObject /\ TNetwork /\ TCloser)'
      BY SMTT(30), SMTT(60), <2>1, <1>TClient, <1>TCallers, <1>TObject,
         <1>TNetwork, <1>TCloser
      DEF TClient, TCallers, TObject, TNetwork, TCloser
    <3>2. (CloseOrder /\ IdsSound /\ PendingSound)'
      BY SMTT(30), SMTT(60), <2>1, <1>CloseOrder, <1>IdsSound, <1>PendingSound
      DEF CloseOrder, IdsSound, PendingSound
    <3>3. (ReplyToOwner /\ ResultSound /\ SuccessHasReply)'
      BY SMTT(30), SMTT(60), <2>1, <1>ReplyToOwner, <1>ResultSound,
         <1>SuccessHasReply
      DEF ReplyToOwner, ResultSound, SuccessHasReply
    <3>4. FramesSound'
      BY SMTT(30), SMTT(60), <2>1, <1>FramesSound DEF FramesSound
    <3>5. TTable'
      BY <2>1, <1>TTable, <1>TCallers, <1>IdsSound
      DEF TTable, TCallers, IdsSound
    <3>6. WaitersExpected'
      BY SMTT(30), SMTT(60), <2>1, <1>WaitersExpected, <1>TCallers, <1>TTable,
         <1>IdsSound
      DEF WaitersExpected, TCallers, TTable, IdsSound
    <3>7. UnsentStored'
      BY SMTT(30), SMTT(60), <2>1, <1>UnsentStored, <1>TCallers, <1>TTable,
         <1>IdsSound
      DEF UnsentStored, TCallers, TTable, IdsSound
    <3>8. EntriesVisited'
      BY SMTT(30), SMTT(60), <2>1, <1>EntriesVisited, <1>TTable, <1>PendingSound
      DEF EntriesVisited, TTable, PendingSound
    <3> QED  BY <3>1, <3>2, <3>3, <3>4, <3>5, <3>6, <3>7, <3>8 DEF IInv
  <2>2. ASSUME pc[c] = "unstore",
               c \in Pings,
               pc' = [pc EXCEPT ![c] = "returned"],
               result' = [result EXCEPT ![c] = "error"],
               pending' = [pending EXCEPT ![id[c]] = NoReq],
               UNCHANGED <<mu, closed, connOpen, reqID, id, error, reply, done,
                           wire, answers, rpc, frame, call, cpc, unseen, seen,
                           vid, victim>>
        PROVE  IInv'
    <3>1. (TClient /\ TCallers /\ TObject /\ TNetwork /\ TCloser)'
      BY SMTT(30), SMTT(60), <2>2, <1>TClient, <1>TCallers, <1>TObject,
         <1>TNetwork, <1>TCloser
      DEF TClient, TCallers, TObject, TNetwork, TCloser
    <3>2. (CloseOrder /\ IdsSound /\ PendingSound)'
      BY SMTT(30), SMTT(60), <2>2, <1>CloseOrder, <1>IdsSound, <1>PendingSound
      DEF CloseOrder, IdsSound, PendingSound
    <3>3. (ReplyToOwner /\ ResultSound /\ SuccessHasReply)'
      BY SMTT(30), SMTT(60), <2>2, <1>ReplyToOwner, <1>ResultSound,
         <1>SuccessHasReply
      DEF ReplyToOwner, ResultSound, SuccessHasReply
    <3>4. FramesSound'
      BY SMTT(30), SMTT(60), <2>2, <1>FramesSound DEF FramesSound
    <3>5. TTable'
      BY <2>2, <1>TTable, <1>TCallers, <1>IdsSound
      DEF TTable, TCallers, IdsSound
    <3>6. WaitersExpected'
      BY SMTT(30), SMTT(60), <2>2, <1>WaitersExpected, <1>TCallers, <1>TTable,
         <1>IdsSound
      DEF WaitersExpected, TCallers, TTable, IdsSound
    <3>7. UnsentStored'
      BY SMTT(30), SMTT(60), <2>2, <1>UnsentStored, <1>TCallers, <1>TTable,
         <1>IdsSound
      DEF UnsentStored, TCallers, TTable, IdsSound
    <3>8. EntriesVisited'
      BY SMTT(30), SMTT(60), <2>2, <1>EntriesVisited, <1>TTable, <1>PendingSound
      DEF EntriesVisited, TTable, PendingSound
    <3> QED  BY <3>1, <3>2, <3>3, <3>4, <3>5, <3>6, <3>7, <3>8 DEF IInv
  <2> QED  BY <1>8, <2>1, <2>2 DEF Unstore
<1>9. ASSUME NEW c \in Requests, Finish(c) PROVE IInv'
  <2>1. (TClient /\ TTable /\ TCallers /\ TObject /\ TNetwork /\ TCloser)'
    BY SMTT(30), SMTT(60), <1>9, <1>TClient, <1>TTable, <1>TCallers,
       <1>TObject, <1>TNetwork, <1>TCloser
    DEF TClient, TTable, TCallers, TObject, TNetwork, TCloser, Finish
  <2>2. (CloseOrder /\ IdsSound /\ PendingSound /\ ReplyToOwner)'
    BY SMTT(30), SMTT(60), <1>9, <1>CloseOrder, <1>IdsSound, <1>PendingSound,
       <1>ReplyToOwner
    DEF CloseOrder, IdsSound, PendingSound, ReplyToOwner, Finish
  <2>3. (ResultSound /\ SuccessHasReply /\ UnsentStored /\ EntriesVisited)'
    BY SMTT(30), SMTT(60), <1>9, <1>ResultSound, <1>SuccessHasReply,
       <1>UnsentStored, <1>EntriesVisited
    DEF ResultSound, SuccessHasReply, UnsentStored, EntriesVisited, Finish
  <2>4. FramesSound'
    BY SMTT(30), SMTT(60), <1>9, <1>FramesSound DEF FramesSound, Finish
  <2>5. WaitersExpected'
    BY SMTT(30), SMTT(60), <1>9, <1>WaitersExpected, <1>TObject
    DEF WaitersExpected, TObject, Finish
  <2> QED  BY <2>1, <2>2, <2>3, <2>4, <2>5 DEF IInv
<1>10. ASSUME NEW c \in Requests, Receive(c) PROVE IInv'
  <2>1. (TClient /\ TTable /\ TCallers /\ TObject /\ TNetwork /\ TCloser)'
    BY SMTT(30), SMTT(60), <1>10, <1>TClient, <1>TTable, <1>TCallers,
       <1>TObject, <1>TNetwork, <1>TCloser
    DEF TClient, TTable, TCallers, TObject, TNetwork, TCloser, Receive
  <2>2. (CloseOrder /\ IdsSound /\ PendingSound /\ ReplyToOwner)'
    BY SMTT(30), SMTT(60), <1>10, <1>CloseOrder, <1>IdsSound, <1>PendingSound,
       <1>ReplyToOwner
    DEF CloseOrder, IdsSound, PendingSound, ReplyToOwner, Receive
  <2>3. (ResultSound /\ SuccessHasReply /\ UnsentStored /\ EntriesVisited)'
    BY SMTT(30), SMTT(60), <1>10, <1>ResultSound, <1>SuccessHasReply,
       <1>UnsentStored, <1>EntriesVisited
    DEF ResultSound, SuccessHasReply, UnsentStored, EntriesVisited, Receive
  <2>4. FramesSound'
    BY SMTT(30), SMTT(60), <1>10, <1>FramesSound DEF FramesSound, Receive
  <2>5. WaitersExpected'
    BY SMTT(30), SMTT(60), <1>10, <1>WaitersExpected, <1>TCallers
    DEF WaitersExpected, TCallers, Receive
  <2> QED  BY <2>1, <2>2, <2>3, <2>4, <2>5 DEF IInv
<1>11. ASSUME NEW c \in Requests, Cancel(c) PROVE IInv'
  <2>1. ASSUME pc[c] = "wait",
               c \in Calls,
               pc' = [pc EXCEPT ![c] = "returned"],
               result' = [result EXCEPT ![c] = "cancelled"],
               UNCHANGED <<mu, closed, connOpen, reqID, pending, id, error,
                           reply, done, wire, answers, rpc, frame, call, cpc,
                           unseen, seen, vid, victim>>
        PROVE  IInv'
    <3>1. (TClient /\ TTable /\ TCallers /\ TObject /\ TNetwork /\ TCloser)'
      BY SMTT(30), SMTT(60), <2>1, <1>TClient, <1>TTable, <1>TCallers,
         <1>TObject, <1>TNetwork, <1>TCloser
      DEF TClient, TTable, TCallers, TObject, TNetwork, TCloser
    <3>2. (CloseOrder /\ IdsSound /\ PendingSound /\ ReplyToOwner)'
      BY SMTT(30), SMTT(60), <2>1, <1>CloseOrder, <1>IdsSound, <1>PendingSound,
         <1>ReplyToOwner
      DEF CloseOrder, IdsSound, PendingSound, ReplyToOwner
    <3>3. (ResultSound /\ SuccessHasReply /\ WaitersExpected
           /\ UnsentStored /\ EntriesVisited)'
      BY SMTT(30), SMTT(60), <2>1, <1>ResultSound, <1>SuccessHasReply,
         <1>WaitersExpected, <1>UnsentStored, <1>EntriesVisited
      DEF ResultSound, SuccessHasReply, WaitersExpected, UnsentStored,
          EntriesVisited
    <3>4. FramesSound'
      BY SMTT(30), SMTT(60), <2>1, <1>FramesSound DEF FramesSound
    <3> QED  BY <3>1, <3>2, <3>3, <3>4 DEF IInv
  <2>2. ASSUME pc[c] = "wait",
               c \in Pings,
               pc' = [pc EXCEPT ![c] = "unstore"],
               UNCHANGED <<mu, closed, connOpen, reqID, pending, id, result,
                           error, reply, done, wire, answers, rpc, frame, call,
                           cpc, unseen, seen, vid, victim>>
        PROVE  IInv'
    <3>1. (TClient /\ TTable /\ TCallers /\ TObject /\ TNetwork /\ TCloser)'
      BY SMTT(30), SMTT(60), <2>2, <1>TClient, <1>TTable, <1>TCallers,
         <1>TObject, <1>TNetwork, <1>TCloser
      DEF TClient, TTable, TCallers, TObject, TNetwork, TCloser
    <3>2. (CloseOrder /\ IdsSound /\ PendingSound /\ ReplyToOwner)'
      BY SMTT(30), SMTT(60), <2>2, <1>CloseOrder, <1>IdsSound, <1>PendingSound,
         <1>ReplyToOwner
      DEF CloseOrder, IdsSound, PendingSound, ReplyToOwner
    <3>3. (ResultSound /\ SuccessHasReply /\ WaitersExpected
           /\ UnsentStored /\ EntriesVisited)'
      BY SMTT(30), SMTT(60), <2>2, <1>ResultSound, <1>SuccessHasReply,
         <1>WaitersExpected, <1>UnsentStored, <1>EntriesVisited
      DEF ResultSound, SuccessHasReply, WaitersExpected, UnsentStored,
          EntriesVisited
    <3>4. FramesSound'
      BY SMTT(30), SMTT(60), <2>2, <1>FramesSound DEF FramesSound
    <3> QED  BY <3>1, <3>2, <3>3, <3>4 DEF IInv
  <2> QED  BY <1>11, <2>1, <2>2 DEF Cancel
<1>12. ASSUME NEW c \in Requests, ReturnError(c) PROVE IInv'
  <2>1. (TClient /\ TTable /\ TObject /\ TNetwork /\ TCloser)'
    BY SMTT(30), SMTT(60), <1>12, <1>TClient, <1>TTable, <1>TObject,
       <1>TNetwork, <1>TCloser
    DEF TClient, TTable, TObject, TNetwork, TCloser, ReturnError
  <2>2. (CloseOrder /\ IdsSound /\ PendingSound /\ ReplyToOwner)'
    BY SMTT(30), SMTT(60), <1>12, <1>CloseOrder, <1>IdsSound, <1>PendingSound,
       <1>ReplyToOwner
    DEF CloseOrder, IdsSound, PendingSound, ReplyToOwner, ReturnError
  <2>3. (ResultSound /\ WaitersExpected /\ UnsentStored /\ EntriesVisited)'
    BY SMTT(30), SMTT(60), <1>12, <1>ResultSound, <1>WaitersExpected,
       <1>UnsentStored, <1>EntriesVisited
    DEF ResultSound, WaitersExpected, UnsentStored, EntriesVisited, ReturnError
  <2>4. FramesSound'
    BY SMTT(30), SMTT(60), <1>12, <1>FramesSound DEF FramesSound, ReturnError
  <2>5. TCallers'
    BY <1>12, <1>TCallers, <1>TObject DEF TCallers, TObject, ReturnError
  <2>6. SuccessHasReply'
    BY <1>12, <1>SuccessHasReply, <1>TCallers, <1>ResultSound
    DEF SuccessHasReply, TCallers, ResultSound, ReturnError
  <2> QED  BY <2>1, <2>2, <2>3, <2>4, <2>5, <2>6 DEF IInv
<1>13. ASSUME NEW m \in wire, Answer(m) PROVE IInv'
  <2>1. (TClient /\ TTable /\ TCallers /\ TObject /\ TNetwork /\ TCloser)'
    BY SMTT(30), SMTT(60), <1>13, <1>TClient, <1>TTable, <1>TCallers,
       <1>TObject, <1>TNetwork, <1>TCloser
    DEF TClient, TTable, TCallers, TObject, TNetwork, Frames, Answered,
        NoFrame, TCloser, Answer
  <2>2. (CloseOrder /\ IdsSound /\ PendingSound /\ ReplyToOwner)'
    BY SMTT(30), SMTT(60), <1>13, <1>CloseOrder, <1>IdsSound, <1>PendingSound,
       <1>ReplyToOwner
    DEF CloseOrder, IdsSound, PendingSound, ReplyToOwner, Answer
  <2>3. (ResultSound /\ SuccessHasReply /\ WaitersExpected /\ UnsentStored
         /\ EntriesVisited)'
    BY <1>13, <1>ResultSound, <1>SuccessHasReply, <1>WaitersExpected,
       <1>UnsentStored, <1>EntriesVisited
    DEF ResultSound, SuccessHasReply, WaitersExpected, UnsentStored,
        EntriesVisited, Answer
  <2>4. FramesSound'
    <3>1. PICK type \in IF m.to \in Calls THEN {"response", "error"}
                                          ELSE {"pong"} :
            answers' = answers \cup {[id |-> m.id, to |-> m.to, type |-> type]}
      BY <1>13 DEF Answer
    <3>2. /\ wire' \subseteq wire /\ m \in wire /\ m \in Frames
          /\ UNCHANGED <<rpc, frame, call, id, pc>>
      BY <1>13, <1>TNetwork DEF Answer, TNetwork
    <3>3. m.id = id[m.to] /\ Sent(m.to) /\ m.to \in Requests
      BY <3>2, <1>FramesSound DEF FramesSound, Frames
    <3>4. type = "pong" => m.to \in Pings
      BY <3>1, <3>3
    <3> QED  BY SMTT(30), SMTT(60), <3>1, <3>2, <3>3, <3>4, <1>FramesSound
  DEF FramesSound
  <2> QED  BY <2>1, <2>2, <2>3, <2>4 DEF IInv
<1>14. CASE ReadFrame
  <2>1. (TClient /\ TTable /\ TCallers /\ TObject /\ TNetwork /\ TCloser)'
    BY SMTT(30), SMTT(60), <1>14, <1>TClient, <1>TTable, <1>TCallers,
       <1>TObject, <1>TNetwork, <1>TCloser
    DEF TClient, TTable, TCallers, TObject, TNetwork, Frames, Answered,
        NoFrame, TCloser, ReadFrame
  <2>2. (CloseOrder /\ IdsSound /\ PendingSound /\ ReplyToOwner)'
    BY SMTT(30), SMTT(60), <1>14, <1>CloseOrder, <1>IdsSound, <1>PendingSound,
       <1>ReplyToOwner
    DEF CloseOrder, IdsSound, PendingSound, ReplyToOwner, ReadFrame
  <2>3. (ResultSound /\ SuccessHasReply /\ WaitersExpected /\ UnsentStored
         /\ EntriesVisited)'
    BY <1>14, <1>ResultSound, <1>SuccessHasReply, <1>WaitersExpected,
       <1>UnsentStored, <1>EntriesVisited
    DEF ResultSound, SuccessHasReply, WaitersExpected, UnsentStored,
        EntriesVisited, ReadFrame
  <2>4. FramesSound'
    BY <1>14, <1>FramesSound, <1>TNetwork
    DEF FramesSound, Answered, TNetwork, Frames, NoFrame, ReadFrame
  <2> QED  BY <2>1, <2>2, <2>3, <2>4 DEF IInv
<1>15. CASE ReadFails
  <2>1. (TClient /\ TTable /\ TCallers /\ TObject /\ TNetwork /\ TCloser)'
    BY SMTT(30), SMTT(60), <1>15, <1>TClient, <1>TTable, <1>TCallers,
       <1>TObject, <1>TNetwork, <1>TCloser
    DEF TClient, TTable, TCallers, TObject, TNetwork, Frames, Answered,
        NoFrame, TCloser, ReadFails
  <2>2. (CloseOrder /\ IdsSound /\ PendingSound /\ ReplyToOwner)'
    BY SMTT(30), SMTT(60), <1>15, <1>CloseOrder, <1>IdsSound, <1>PendingSound,
       <1>ReplyToOwner
    DEF CloseOrder, IdsSound, PendingSound, ReplyToOwner, ReadFails
  <2>3. (ResultSound /\ SuccessHasReply /\ WaitersExpected /\ UnsentStored
         /\ EntriesVisited)'
    BY <1>15, <1>ResultSound, <1>SuccessHasReply, <1>WaitersExpected,
       <1>UnsentStored, <1>EntriesVisited
    DEF ResultSound, SuccessHasReply, WaitersExpected, UnsentStored,
        EntriesVisited, ReadFails
  <2>4. FramesSound'
    BY <1>15, <1>FramesSound DEF FramesSound, ReadFails
  <2> QED  BY <2>1, <2>2, <2>3, <2>4 DEF IInv
<1>16. CASE LoadAndDelete
  <2>1. (TClient /\ TCallers /\ TObject /\ TCloser)'
    BY <1>16, <1>TClient, <1>TCallers, <1>TObject, <1>TCloser
    DEF TClient, TCallers, TObject, TCloser, LoadAndDelete
  <2>2. (CloseOrder /\ IdsSound /\ PendingSound /\ ReplyToOwner)'
    BY SMTT(30), SMTT(60), <1>16, <1>CloseOrder, <1>IdsSound, <1>PendingSound,
       <1>ReplyToOwner
    DEF CloseOrder, IdsSound, PendingSound, ReplyToOwner, LoadAndDelete
  <2>3. (ResultSound /\ SuccessHasReply /\ WaitersExpected
         /\ EntriesVisited)'
    BY SMTT(30), SMTT(60), <1>16, <1>ResultSound, <1>SuccessHasReply,
       <1>WaitersExpected, <1>EntriesVisited
    DEF ResultSound, SuccessHasReply, WaitersExpected, EntriesVisited,
        LoadAndDelete
  <2>4. TTable'
    BY <1>16, <1>TTable, <1>FramesSound, <1>TNetwork
    DEF TTable, FramesSound, Answered, TNetwork, Frames, NoFrame, LoadAndDelete
  <2>5. TNetwork'
    BY <1>16, <1>TNetwork, <1>TTable, <1>FramesSound
    DEF TNetwork, Frames, Answered, NoFrame, TTable, FramesSound, LoadAndDelete
  <2>6. FramesSound'
    BY SMTT(30), SMTT(60), <1>16, <1>FramesSound, <1>TCallers, <1>TNetwork,
       <1>TTable, <1>IdsSound, <1>PendingSound
    DEF FramesSound, Answered, TCallers, TNetwork, Frames, NoFrame, TTable,
        IdsSound, PendingSound, LoadAndDelete
  <2>7. UnsentStored'
      <3> SUFFICES ASSUME NEW c \in Requests, Early,
                          pc[c] \in {"encode", "send", "write"}
                   PROVE  pending'[id[c]] = c
        BY <1>16 DEF UnsentStored, LoadAndDelete
      <3>1. frame.to \in Requests /\ frame.id = id[frame.to] /\ Sent(frame.to)
        BY <1>16, <1>FramesSound DEF FramesSound, Answered, LoadAndDelete
      <3>2. frame.id # id[c]
        BY <3>1, <1>IdsSound DEF IdsSound
      <3>3. pending[id[c]] = c /\ id[c] \in Ids
        BY SMTT(30), SMTT(60), <1>UnsentStored, <1>IdsSound, <1>TCallers
        DEF UnsentStored, IdsSound, TCallers
      <3> QED  BY <3>2, <3>3, <1>16, <1>TTable DEF LoadAndDelete, TTable
  <2> QED  BY <2>1, <2>2, <2>3, <2>4, <2>5, <2>6, <2>7 DEF IInv
<1>17. CASE Fill
  <2>1. (TClient /\ TTable /\ TCallers /\ TNetwork /\ TCloser)'
    BY SMTT(30), SMTT(60), <1>17, <1>TClient, <1>TTable, <1>TCallers,
       <1>TNetwork, <1>TCloser
    DEF TClient, TTable, TCallers, TNetwork, Frames, Answered, NoFrame,
        TCloser, Fill
  <2>2. (CloseOrder /\ IdsSound /\ PendingSound)'
    BY SMTT(30), SMTT(60), <1>17, <1>CloseOrder, <1>IdsSound, <1>PendingSound
    DEF CloseOrder, IdsSound, PendingSound, Fill
  <2>3. (WaitersExpected /\ UnsentStored /\ EntriesVisited)'
    BY <1>17, <1>WaitersExpected, <1>UnsentStored, <1>EntriesVisited
    DEF WaitersExpected, UnsentStored, EntriesVisited, Fill
  <2>4. FramesSound'
    BY <1>17, <1>FramesSound DEF FramesSound, Fill
  <2>5. TObject'
    BY SMTT(30), SMTT(60), <1>17, <1>TObject, <1>FramesSound, <1>TNetwork
    DEF TObject, FramesSound, Answered, TNetwork, Frames, NoFrame, Fill
  <2>6. ReplyToOwner'
    BY <1>17, <1>ReplyToOwner, <1>TObject, <1>FramesSound
    DEF ReplyToOwner, TObject, FramesSound, Answered, Fill
  <2>7. ResultSound'
    BY SMTT(30), SMTT(60), <1>17, <1>ResultSound, <1>TObject, <1>TCallers,
       <1>FramesSound, <1>PendingSound, <1>TNetwork
    DEF ResultSound, TObject, TCallers, FramesSound, Answered, PendingSound,
        TNetwork, Frames, NoFrame, Fill
  <2>8. SuccessHasReply'
    BY SMTT(30), SMTT(60), <1>17, <1>SuccessHasReply, <1>TObject,
       <1>ReplyToOwner, <1>FramesSound, <1>TNetwork
    DEF SuccessHasReply, TObject, ReplyToOwner, FramesSound, Answered,
        TNetwork, Frames, NoFrame, Fill
  <2> QED  BY <2>1, <2>2, <2>3, <2>4, <2>5, <2>6, <2>7, <2>8 DEF IInv
<1>18. CASE Deliver
  <2>1. (TClient /\ TTable /\ TCallers /\ TNetwork /\ TCloser)'
    BY SMTT(30), SMTT(60), <1>18, <1>TClient, <1>TTable, <1>TCallers,
       <1>TNetwork, <1>TCloser
    DEF TClient, TTable, TCallers, TNetwork, Frames, Answered, NoFrame,
        TCloser, Deliver
  <2>2. (CloseOrder /\ IdsSound /\ PendingSound /\ ReplyToOwner)'
    BY SMTT(30), SMTT(60), <1>18, <1>CloseOrder, <1>IdsSound, <1>PendingSound,
       <1>ReplyToOwner
    DEF CloseOrder, IdsSound, PendingSound, ReplyToOwner, Deliver
  <2>3. (ResultSound /\ SuccessHasReply /\ UnsentStored /\ EntriesVisited)'
    BY SMTT(30), SMTT(60), <1>18, <1>ResultSound, <1>SuccessHasReply,
       <1>UnsentStored, <1>EntriesVisited
    DEF ResultSound, SuccessHasReply, UnsentStored, EntriesVisited, Deliver
  <2>4. FramesSound'
    BY <1>18, <1>FramesSound DEF FramesSound, Deliver
  <2>5. TObject'
    BY <1>18, <1>TObject, <1>FramesSound, <1>TNetwork
    DEF TObject, FramesSound, Answered, TNetwork, Frames, NoFrame, Deliver
  <2>6. WaitersExpected'
    BY <1>18, <1>WaitersExpected, <1>TObject
    DEF WaitersExpected, TObject, Deliver
  <2> QED  BY <2>1, <2>2, <2>3, <2>4, <2>5, <2>6 DEF IInv
<1>19. CASE ReceiveEnds
  <2>1. (TClient /\ TTable /\ TCallers /\ TObject /\ TNetwork /\ TCloser)'
    BY SMTT(30), SMTT(60), <1>19, <1>TClient, <1>TTable, <1>TCallers,
       <1>TObject, <1>TNetwork, <1>TCloser
    DEF TClient, TTable, TCallers, TObject, TNetwork, Frames, Answered,
        NoFrame, TCloser, ReceiveEnds
  <2>2. (CloseOrder /\ IdsSound /\ PendingSound /\ ReplyToOwner)'
    BY SMTT(30), SMTT(60), <1>19, <1>CloseOrder, <1>IdsSound, <1>PendingSound,
       <1>ReplyToOwner
    DEF CloseOrder, IdsSound, PendingSound, ReplyToOwner, ReceiveEnds
  <2>3. (ResultSound /\ SuccessHasReply /\ WaitersExpected /\ UnsentStored
         /\ EntriesVisited)'
    BY <1>19, <1>ResultSound, <1>SuccessHasReply, <1>WaitersExpected,
       <1>UnsentStored, <1>EntriesVisited
    DEF ResultSound, SuccessHasReply, WaitersExpected, UnsentStored,
        EntriesVisited, ReceiveEnds
  <2>4. FramesSound'
    BY <1>19, <1>FramesSound DEF FramesSound, ReceiveEnds
  <2> QED  BY <2>1, <2>2, <2>3, <2>4 DEF IInv
<1>20. CASE StartClose
  <2>1. (TClient /\ TTable /\ TCallers /\ TObject /\ TNetwork /\ TCloser)'
    BY SMTT(30), SMTT(60), <1>20, <1>TClient, <1>TTable, <1>TCallers,
       <1>TObject, <1>TNetwork, <1>TCloser
    DEF TClient, TTable, TCallers, TObject, TNetwork, TCloser, StartClose
  <2>2. (CloseOrder /\ IdsSound /\ PendingSound /\ ReplyToOwner)'
    BY SMTT(30), SMTT(60), <1>20, <1>CloseOrder, <1>IdsSound, <1>PendingSound,
       <1>ReplyToOwner
    DEF CloseOrder, IdsSound, PendingSound, ReplyToOwner, StartClose
  <2>3. (ResultSound /\ SuccessHasReply /\ WaitersExpected /\ UnsentStored
         /\ EntriesVisited)'
    BY <1>20, <1>ResultSound, <1>SuccessHasReply, <1>WaitersExpected,
       <1>UnsentStored, <1>EntriesVisited
    DEF ResultSound, SuccessHasReply, WaitersExpected, UnsentStored,
        EntriesVisited, StartClose
  <2>4. FramesSound'
    BY <1>20, <1>FramesSound DEF FramesSound, StartClose
  <2> QED  BY <2>1, <2>2, <2>3, <2>4 DEF IInv
<1>21. CASE Mark
  <2>1. (TClient /\ TTable /\ TCallers /\ TObject /\ TNetwork /\ TCloser)'
    BY SMTT(30), SMTT(60), <1>21, <1>TClient, <1>TTable, <1>TCallers,
       <1>TObject, <1>TNetwork, <1>TCloser
    DEF TClient, TTable, TCallers, TObject, TNetwork, TCloser, Mark
  <2>2. (CloseOrder /\ IdsSound /\ PendingSound /\ ReplyToOwner)'
    BY SMTT(30), SMTT(60), <1>21, <1>CloseOrder, <1>IdsSound, <1>PendingSound,
       <1>ReplyToOwner
    DEF CloseOrder, IdsSound, PendingSound, ReplyToOwner, Mark
  <2>3. (ResultSound /\ SuccessHasReply /\ WaitersExpected /\ UnsentStored
         /\ EntriesVisited)'
    BY <1>21, <1>ResultSound, <1>SuccessHasReply, <1>WaitersExpected,
       <1>UnsentStored, <1>EntriesVisited
    DEF ResultSound, SuccessHasReply, WaitersExpected, UnsentStored,
        EntriesVisited, Mark
  <2>4. FramesSound'
    BY <1>21, <1>FramesSound DEF FramesSound, Mark
  <2> QED  BY <2>1, <2>2, <2>3, <2>4 DEF IInv
<1>22. CASE CloseConn
  <2>1. ASSUME cpc = "conn",
               cpc' = "range",
               connOpen' = FALSE,
               unseen' \in SUBSET Ids,
               \A i \in Ids : i \in unseen' <=> pending[i] # NoReq,
               UNCHANGED <<mu, closed, reqID, pending, pc, id, result, error,
                           reply, done, wire, answers, rpc, frame, call, seen,
                           vid, victim>>
        PROVE  IInv'
    <3>1. (TTable /\ TCallers /\ TObject /\ TNetwork /\ TCloser)'
      BY <2>1, <1>TTable, <1>TCallers, <1>TObject, <1>TNetwork, <1>TCloser
      DEF TTable, TCallers, TObject, TNetwork, TCloser
    <3>2. (CloseOrder /\ IdsSound /\ ReplyToOwner)'
      BY <2>1, <1>CloseOrder, <1>IdsSound, <1>ReplyToOwner
      DEF CloseOrder, IdsSound, ReplyToOwner
    <3>3. (ResultSound /\ SuccessHasReply /\ UnsentStored)'
      BY <2>1, <1>ResultSound, <1>SuccessHasReply, <1>UnsentStored
      DEF ResultSound, SuccessHasReply, UnsentStored
    <3>4. FramesSound'
      BY <2>1, <1>FramesSound DEF FramesSound
    <3>5. TClient'
      BY <2>1, <1>TClient DEF TClient
    <3>6. PendingSound'
      BY SMTT(30), SMTT(60), <2>1, <1>PendingSound, <1>TCallers, <1>TTable,
         <1>TCloser, <1>IdsSound
      DEF PendingSound, TCallers, TTable, TCloser, IdsSound
    <3>7. WaitersExpected'
      BY SMTT(30), SMTT(60), <2>1, <1>WaitersExpected, <1>TObject, <1>PendingSound
      DEF WaitersExpected, TObject, PendingSound
    <3>8. EntriesVisited'
      BY <2>1, <1>EntriesVisited, <1>TTable, <1>PendingSound
      DEF EntriesVisited, TTable, PendingSound
    <3> QED  BY <3>1, <3>2, <3>3, <3>4, <3>5, <3>6, <3>7, <3>8
             DEF IInv
  <2> QED  BY <1>22, <2>1 DEF CloseConn
<1>23. ASSUME NEW i \in Ids, RangeNext(i) PROVE IInv'
  <2>1. (TClient /\ TTable /\ TCallers /\ TObject /\ TNetwork)'
    BY SMTT(30), SMTT(60), <1>23, <1>TClient, <1>TTable, <1>TCallers,
       <1>TObject, <1>TNetwork
    DEF TClient, TTable, TCallers, TObject, TNetwork, RangeNext
  <2>2. (CloseOrder /\ IdsSound /\ ReplyToOwner /\ ResultSound)'
    BY <1>23, <1>CloseOrder, <1>IdsSound, <1>ReplyToOwner, <1>ResultSound
    DEF CloseOrder, IdsSound, ReplyToOwner, ResultSound, RangeNext
  <2>3. (SuccessHasReply /\ WaitersExpected /\ UnsentStored
         /\ EntriesVisited)'
    BY <1>23, <1>SuccessHasReply, <1>WaitersExpected, <1>UnsentStored,
       <1>EntriesVisited
    DEF SuccessHasReply, WaitersExpected, UnsentStored, EntriesVisited,
        RangeNext
  <2>4. FramesSound'
    BY <1>23, <1>FramesSound DEF FramesSound, RangeNext
  <2>5. TCloser'
    BY SMTT(30), SMTT(60), <1>23, <1>TCloser, <1>TTable
    DEF TCloser, TTable, RangeNext
  <2>6. PendingSound'
    BY SMTT(30), SMTT(60), <1>23, <1>PendingSound, <1>TCallers, <1>TTable,
       <1>IdsSound
    DEF PendingSound, TCallers, TTable, IdsSound, RangeNext
  <2> QED  BY <2>1, <2>2, <2>3, <2>4, <2>5, <2>6 DEF IInv
<1>24. CASE RangeError
  <2>1. (TClient /\ TTable /\ TCallers /\ TNetwork /\ TCloser)'
    BY SMTT(30), SMTT(60), <1>24, <1>TClient, <1>TTable, <1>TCallers,
       <1>TNetwork, <1>TCloser
    DEF TClient, TTable, TCallers, TNetwork, TCloser, RangeError
  <2>2. (CloseOrder /\ IdsSound /\ PendingSound /\ ReplyToOwner)'
    BY SMTT(30), SMTT(60), <1>24, <1>CloseOrder, <1>IdsSound, <1>PendingSound,
       <1>ReplyToOwner
    DEF CloseOrder, IdsSound, PendingSound, ReplyToOwner, RangeError
  <2>3. (SuccessHasReply /\ WaitersExpected /\ UnsentStored
         /\ EntriesVisited)'
    BY <1>24, <1>SuccessHasReply, <1>WaitersExpected, <1>UnsentStored,
       <1>EntriesVisited
    DEF SuccessHasReply, WaitersExpected, UnsentStored, EntriesVisited,
        RangeError
  <2>4. FramesSound'
    BY <1>24, <1>FramesSound DEF FramesSound, RangeError
  <2>5. TObject'
    BY <1>24, <1>TObject, <1>PendingSound
    DEF TObject, PendingSound, RangeError
  <2>6. ResultSound'
    BY <1>24, <1>ResultSound, <1>TObject, <1>TCallers, <1>PendingSound
    DEF ResultSound, TObject, TCallers, PendingSound, RangeError
  <2> QED  BY <2>1, <2>2, <2>3, <2>4, <2>5, <2>6 DEF IInv
<1>25. CASE RangeDone
  <2>1. (TClient /\ TTable /\ TCallers /\ TNetwork /\ TCloser)'
    BY SMTT(30), SMTT(60), <1>25, <1>TClient, <1>TTable, <1>TCallers,
       <1>TNetwork, <1>TCloser
    DEF TClient, TTable, TCallers, TNetwork, TCloser, RangeDone
  <2>2. (CloseOrder /\ IdsSound /\ PendingSound /\ ReplyToOwner)'
    BY SMTT(30), SMTT(60), <1>25, <1>CloseOrder, <1>IdsSound, <1>PendingSound,
       <1>ReplyToOwner
    DEF CloseOrder, IdsSound, PendingSound, ReplyToOwner, RangeDone
  <2>3. (ResultSound /\ SuccessHasReply /\ UnsentStored /\ EntriesVisited)'
    BY SMTT(30), SMTT(60), <1>25, <1>ResultSound, <1>SuccessHasReply,
       <1>UnsentStored, <1>EntriesVisited
    DEF ResultSound, SuccessHasReply, UnsentStored, EntriesVisited, RangeDone
  <2>4. FramesSound'
    BY <1>25, <1>FramesSound DEF FramesSound, RangeDone
  <2>5. TObject'
    BY <1>25, <1>TObject, <1>PendingSound
    DEF TObject, PendingSound, RangeDone
  <2>6. WaitersExpected'
    BY <1>25, <1>WaitersExpected, <1>TObject
    DEF WaitersExpected, TObject, RangeDone
  <2> QED  BY <2>1, <2>2, <2>3, <2>4, <2>5, <2>6 DEF IInv
<1>26. CASE RangeDelete
  <2>1. (TClient /\ TCallers /\ TObject /\ TNetwork /\ TCloser)'
    BY SMTT(30), SMTT(60), <1>26, <1>TClient, <1>TCallers, <1>TObject,
       <1>TNetwork, <1>TCloser
    DEF TClient, TCallers, TObject, TNetwork, TCloser, RangeDelete
  <2>2. (CloseOrder /\ IdsSound /\ ReplyToOwner)'
    BY <1>26, <1>CloseOrder, <1>IdsSound, <1>ReplyToOwner
    DEF CloseOrder, IdsSound, ReplyToOwner, RangeDelete
  <2>3. (ResultSound /\ SuccessHasReply /\ UnsentStored)'
    BY <1>26, <1>ResultSound, <1>SuccessHasReply, <1>UnsentStored
    DEF ResultSound, SuccessHasReply, UnsentStored, RangeDelete
  <2>4. FramesSound'
    BY <1>26, <1>FramesSound DEF FramesSound, RangeDelete
  <2>5. TTable'
    BY <1>26, <1>TTable, <1>PendingSound, <1>TCloser
    DEF TTable, PendingSound, TCloser, RangeDelete
  <2>6. PendingSound'
    BY SMTT(30), SMTT(60), <1>26, <1>PendingSound, <1>TCallers, <1>TTable
    DEF PendingSound, TCallers, TTable, RangeDelete
  <2>7. WaitersExpected'
    BY SMTT(30), SMTT(60), <1>26, <1>WaitersExpected, <1>TObject, <1>PendingSound
    DEF WaitersExpected, TObject, PendingSound, RangeDelete
  <2>8. EntriesVisited'
    BY <1>26, <1>EntriesVisited, <1>TTable
    DEF EntriesVisited, TTable, RangeDelete
  <2> QED  BY <2>1, <2>2, <2>3, <2>4, <2>5, <2>6, <2>7, <2>8 DEF IInv
<1>27. CASE RangeEnd
  <2>1. (TClient /\ TTable /\ TCallers /\ TObject /\ TNetwork /\ TCloser)'
    BY SMTT(30), SMTT(60), <1>27, <1>TClient, <1>TTable, <1>TCallers,
       <1>TObject, <1>TNetwork, <1>TCloser
    DEF TClient, TTable, TCallers, TObject, TNetwork, TCloser, RangeEnd
  <2>2. (CloseOrder /\ IdsSound /\ PendingSound /\ ReplyToOwner)'
    BY SMTT(30), SMTT(60), <1>27, <1>CloseOrder, <1>IdsSound, <1>PendingSound,
       <1>ReplyToOwner
    DEF CloseOrder, IdsSound, PendingSound, ReplyToOwner, RangeEnd
  <2>3. (ResultSound /\ SuccessHasReply /\ WaitersExpected /\ UnsentStored
         /\ EntriesVisited)'
    BY SMTT(30), SMTT(60), <1>27, <1>ResultSound, <1>SuccessHasReply,
       <1>WaitersExpected, <1>UnsentStored, <1>EntriesVisited
    DEF ResultSound, SuccessHasReply, WaitersExpected, UnsentStored,
        EntriesVisited, RangeEnd
  <2>4. FramesSound'
    BY <1>27, <1>FramesSound DEF FramesSound, RangeEnd
  <2> QED  BY <2>1, <2>2, <2>3, <2>4 DEF IInv
<1>28. CASE UNCHANGED vars
  <2>1. TClient'  BY <1>28, <1>TClient DEF vars, TClient
  <2>2. TTable'  BY <1>28, <1>TTable DEF vars, TTable
  <2>3. TCallers'  BY <1>28, <1>TCallers DEF vars, TCallers
  <2>4. TObject'  BY <1>28, <1>TObject DEF vars, TObject
  <2>5. TNetwork'  BY <1>28, <1>TNetwork DEF vars, TNetwork
  <2>6. TCloser'  BY <1>28, <1>TCloser DEF vars, TCloser
  <2>7. CloseOrder'  BY <1>28, <1>CloseOrder DEF vars, CloseOrder
  <2>8. IdsSound'  BY <1>28, <1>IdsSound DEF vars, IdsSound
  <2>9. FramesSound'  BY <1>28, <1>FramesSound DEF vars, FramesSound
  <2>10. PendingSound'  BY <1>28, <1>PendingSound
                        DEF vars, PendingSound
  <2>11. ReplyToOwner'  BY <1>28, <1>ReplyToOwner
                        DEF vars, ReplyToOwner
  <2>12. ResultSound'  BY <1>28, <1>ResultSound DEF vars, ResultSound
  <2>13. SuccessHasReply'  BY <1>28, <1>SuccessHasReply
                           DEF vars, SuccessHasReply
  <2>14. WaitersExpected'  BY <1>28, <1>WaitersExpected
                           DEF vars, WaitersExpected
  <2>15. UnsentStored'  BY <1>28, <1>UnsentStored
                        DEF vars, UnsentStored
  <2>16. EntriesVisited'  BY <1>28, <1>EntriesVisited DEF vars, EntriesVisited
  <2> QED  BY <2>1, <2>2, <2>3, <2>4, <2>5, <2>6, <2>7, <2>8, <2>9, <2>10,
              <2>11, <2>12, <2>13, <2>14, <2>15, <2>16 DEF IInv
<1> QED  BY <1>0, <1>1, <1>2, <1>3, <1>4, <1>5, <1>6, <1>7, <1>8, <1>9, <1>10,
            <1>11, <1>12, <1>13, <1>14, <1>15, <1>16, <1>17, <1>18, <1>19,
            <1>20, <1>21, <1>22, <1>23, <1>24, <1>25, <1>26, <1>27, <1>28
         DEF Next, Proceed, ReceiveStep, CloseStep

\* IInv holds in every reachable state.
LEMMA Invariance == Spec => []IInv
BY InitInv, StepInv, PTL DEF Spec

\* Every variable of the client keeps its type, for any number of requests.
THEOREM TypeCorrect == Spec => []TypeOK
<1>1. IInv => TypeOK
  BY DEF IInv, TypeOK, TClient, TTable, TCallers, TObject, TNetwork, TCloser
<1> QED  BY <1>1, Invariance, PTL

\* Close completes every request that waits, however Go, Ping, receive and Range
\* interleave: when it has finished nobody waits without a completion.
THEOREM CloseOrphansNobody == Spec => []NoOrphan
<1>1. IInv => NoOrphan
  BY DEF IInv, WaitersExpected, NoOrphan
<1> QED  BY <1>1, Invariance, PTL

\* Close leaves entries in pending only for requests that still remove them.
THEOREM CloseDrainsPending == Spec => []PendingDrained
<1>1. IInv => PendingDrained
  BY DEF IInv, EntriesVisited, PendingDrained
<1> QED  BY <1>1, Invariance, PTL

\* A payload reaches only the Reply of the call that asked for it.
THEOREM RepliesToOwners == Spec => []ReplyToOwner
<1>1. IInv => ReplyToOwner  BY DEF IInv
<1> QED  BY <1>1, Invariance, PTL

\* A Call that returns nil has its reply.
THEOREM SuccessesHaveReplies == Spec => []SuccessHasReply
<1>1. IInv => SuccessHasReply  BY DEF IInv
<1> QED  BY <1>1, Invariance, PTL

\* No request is overwritten in pending: Store finds the slot of its ID free.
THEOREM EntriesNeverOverwritten == Spec => NeverOverwritten
<1> DEFINE Kept == \A i \in Ids : pending[i] # NoReq =>
                                    pending'[i] \in {pending[i], NoReq}
<1>1. ASSUME IInv, Next PROVE Kept
  <2>1. ASSUME NEW c \in Requests, Store(c) PROVE Kept
    <3>1. id[c] \in Ids
      BY SMTT(30), SMTT(60), <1>1, <2>1
      DEF IInv, TTable, TCallers, IdsSound, Store
    <3>2. pending[id[c]] = NoReq
      <4> SUFFICES ASSUME pending[id[c]] # NoReq PROVE FALSE
        OBVIOUS
      <4>1. pending[id[c]] \in Requests
        BY <1>1, <3>1 DEF IInv, TTable, TCallers
      <4>2. id[pending[id[c]]] = id[c] /\ pc[pending[id[c]]] # "store"
        BY <1>1, <3>1 DEF IInv, PendingSound
      <4>3. pending[id[c]] = c
        BY SMTT(30), SMTT(60), <1>1, <3>1, <4>1, <4>2 DEF IInv, IdsSound
      <4> QED  BY <2>1, <4>2, <4>3 DEF Store
    <3> QED  BY <1>1, <2>1, <3>1, <3>2
             DEF IInv, TTable, TCallers, Store
  <2>2. ASSUME NEW c \in Requests, Unstore(c) PROVE Kept
    BY <1>1, <2>2 DEF IInv, TTable, TCallers, Unstore
  <2>3. CASE LoadAndDelete
    BY <1>1, <2>3 DEF IInv, TTable, TCallers, LoadAndDelete
  <2>4. CASE RangeDelete
    BY <1>1, <2>4 DEF IInv, TTable, TCallers, RangeDelete
  <2>5. CASE UNCHANGED pending
    BY <2>5
  <2> HIDE DEF Kept
  <2> QED
    BY ZenonT(60), <1>1, <2>1, <2>2, <2>3, <2>4, <2>5
    DEF Next, Proceed, ReceiveStep, CloseStep, Check, NewId, EncodeArgs, Send,
        Write, Fail, Finish, Receive, Cancel, ReturnError, Answer, ReadFrame,
        ReadFails, Fill, Deliver, ReceiveEnds, StartClose, Mark, CloseConn,
        RangeNext, RangeError, RangeDone, RangeEnd
<1>2. IInv /\ [Next]_vars => [Kept]_vars
  BY <1>1
<1> QED  BY <1>2, Invariance, PTL DEF Spec, NeverOverwritten
=============================================================================

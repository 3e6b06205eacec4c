----------------------------- MODULE RPCClient -----------------------------
(***************************************************************************)
(* The RPC client of core/rpc/client/client.go on one connection.          *)
(*                                                                         *)
(* Every request is a goroutine in Call or in Ping; receive is a goroutine *)
(* of its own; Close is run once, by a user or by receive.  pending is a   *)
(* sync.Map; the fields of a Call are shared without a lock.  Errors are   *)
(* told apart from nil only, payloads by the request they answer.          *)
(***************************************************************************)
EXTENDS Naturals

CONSTANTS Calls, Pings,  \* requests made through Call and through Ping
          NoReq,         \* nil
          MaxId          \* bound: request IDs used, 2^32 - 1 before reqID wraps

Requests == Calls \cup Pings
Ids      == 1 .. MaxId

ASSUME ClientAssumption ==
  /\ Calls \cap Pings = {} /\ NoReq \notin Requests
  /\ MaxId \in Nat

VARIABLES
  mu, closed, connOpen, \* Client.mu: the request in conn.Write that holds it;
                        \* Client.closed; the connection is not closed yet
  reqID, pending,       \* Client.reqID; Client.pending: ID -> request or NoReq
  pc, id, result,       \* per request: where its goroutine is, requestID, and
                        \* what Call or Ping returned
  error, reply, done,   \* the Call object: Error, whose payload Reply holds,
                        \* and the Done channel, of capacity one
  wire, answers,        \* requests on their way to the server; its answers
  rpc, frame, call,     \* receive and handleFrame: where, the frame, the call
  cpc, unseen, seen, vid, victim
                        \* Close: where; IDs that Range has to visit, those it
                        \* has visited, the key and value it is at

client  == <<mu, closed, connOpen>>
table   == <<reqID, pending>>
callers == <<pc, id, result>>
object  == <<error, reply, done>>
network == <<wire, answers>>
recv    == <<rpc, frame, call>>
closer  == <<cpc, unseen, seen, vid, victim>>
vars    == <<client, table, callers, object, network, recv, closer>>

NoFrame == [id |-> 0, to |-> NoReq, type |-> "none"]

Init ==
  /\ mu = NoReq /\ closed = FALSE /\ connOpen = TRUE
  /\ reqID = 0 /\ pending = [i \in Ids |-> NoReq]
  /\ pc = [c \in Requests |-> "start"] /\ id = [c \in Requests |-> 0]
  /\ result = [c \in Requests |-> "none"]
  /\ error = [c \in Requests |-> "nil"] /\ reply = [c \in Requests |-> NoReq]
  /\ done = [c \in Requests |-> "empty"]
  /\ wire = {} /\ answers = {}
  /\ rpc = "read" /\ frame = NoFrame /\ call = NoReq
  /\ cpc = "idle" /\ unseen = {} /\ seen = {} /\ vid = 0 /\ victim = NoReq
-----------------------------------------------------------------------------
(* Go, send, Call and Ping, run by request c.                              *)

Goto(c, label) == pc' = [pc EXCEPT ![c] = label]
Return(c, r)   == Goto(c, "returned") /\ result' = [result EXCEPT ![c] = r]
SetError(c)    == error' = [error EXCEPT ![c] = "error"]

\* done: a send that is dropped when the channel is full.
Complete(c) == done' = [done EXCEPT ![c] = "full"]

\* The first look at c.closed, under the mutex.
Check(c) ==
  /\ pc[c] = "start" /\ mu = NoReq
  /\ \/ ~closed /\ Goto(c, "id") /\ UNCHANGED <<error, done, result>>
     \/ /\ closed /\ c \in Calls /\ SetError(c) /\ Complete(c)
        /\ Goto(c, "wait") /\ UNCHANGED result
     \/ closed /\ c \in Pings /\ Return(c, "error") /\ UNCHANGED <<error, done>>
  /\ UNCHANGED <<client, table, id, reply, network, recv, closer>>

\* Mutant: two requests can draw the same ID.
NewId_Repeats(c) ==
  /\ pc[c] = "id" /\ reqID < MaxId
  /\ id' = [id EXCEPT ![c] = reqID + 1] /\ Goto(c, "store")
  /\ UNCHANGED <<client, table, result, object, network, recv, closer>>

\* requestID := c.reqID.Add(1)
NewId(c) ==
  /\ pc[c] = "id" /\ reqID < MaxId
  /\ reqID' = reqID + 1 /\ id' = [id EXCEPT ![c] = reqID + 1]
  /\ Goto(c, "store")
  /\ UNCHANGED <<client, pending, result, object, network, recv, closer>>

Store(c) ==
  /\ pc[c] = "store"
  /\ pending' = [pending EXCEPT ![id[c]] = c]
  /\ Goto(c, IF c \in Calls THEN "encode" ELSE "send")
  /\ UNCHANGED <<client, reqID, id, result, object, network, recv, closer>>

\* codec.Encode succeeds or fails.
EncodeArgs(c) ==
  /\ pc[c] = "encode" /\ \E label \in {"send", "fail"} : Goto(c, label)
  /\ UNCHANGED <<client, table, id, result, object, network, recv, closer>>

SendFailed(c) == Goto(c, IF c \in Calls THEN "fail" ELSE "unstore")

\* send: the mutex is taken and closed is looked at again.
Send(c) ==
  /\ pc[c] = "send" /\ mu = NoReq
  /\ \/ closed /\ SendFailed(c) /\ UNCHANGED mu
     \/ ~closed /\ Goto(c, "write") /\ mu' = c
  /\ UNCHANGED <<closed, connOpen, table, id, result, object, network, recv,
                 closer>>

\* conn.Write returns, with or without an error, and the mutex is released.  That
\* the frame is on the wire and that Write has returned are one step: an answer
\* handled in between finds the same call in pending as one handled behind it,
\* and handleFrame does not take the mutex.
Write(c) ==
  /\ pc[c] = "write" /\ mu' = NoReq
  /\ \/ /\ connOpen /\ Goto(c, "wait")
        /\ wire' = wire \cup {[id |-> id[c], to |-> c]}
     \/ SendFailed(c) /\ UNCHANGED wire
  /\ UNCHANGED <<closed, connOpen, table, id, result, object, answers, recv,
                 closer>>

\* Mutant: the error is not recorded.
Fail_NoError(c) ==
  /\ pc[c] = "fail" /\ Goto(c, "unstore")
  /\ UNCHANGED <<client, table, id, result, object, network, recv, closer>>

\* call.Error = err, then pending.Delete, then call.done()
Fail(c) ==
  /\ pc[c] = "fail" /\ SetError(c) /\ Goto(c, "unstore")
  /\ UNCHANGED <<client, table, id, result, reply, done, network, recv, closer>>

\* pending.Delete(requestID), after a failed send or a Ping's timeout.
Unstore(c) ==
  /\ pc[c] = "unstore"
  /\ pending' = [pending EXCEPT ![id[c]] = NoReq]
  /\ \/ c \in Calls /\ Goto(c, "finish") /\ UNCHANGED result
     \/ c \in Pings /\ Return(c, "error")
  /\ UNCHANGED <<client, reqID, id, object, network, recv, closer>>

Finish(c) ==
  /\ pc[c] = "finish" /\ Complete(c) /\ Goto(c, "wait")
  /\ UNCHANGED <<client, table, id, result, error, reply, network, recv, closer>>

\* The select: a value from Done, or the context is done.  A cancelled Call
\* leaves its entry in pending.
Receive(c) ==
  /\ pc[c] = "wait" /\ done[c] = "full"
  /\ done' = [done EXCEPT ![c] = "empty"] /\ Goto(c, "got")
  /\ UNCHANGED <<client, table, id, result, error, reply, network, recv, closer>>

Cancel(c) ==
  /\ pc[c] = "wait"
  /\ \/ c \in Calls /\ Return(c, "cancelled")
     \/ c \in Pings /\ Goto(c, "unstore") /\ UNCHANGED result
  /\ UNCHANGED <<client, table, id, object, network, recv, closer>>

\* return call.Error
ReturnError(c) ==
  /\ pc[c] = "got" /\ Return(c, error[c])
  /\ UNCHANGED <<client, table, id, object, network, recv, closer>>
-----------------------------------------------------------------------------
(* The server, as core/rpc/server/server.go answers: a request with a      *)
(* response or an error, a ping with a pong.                               *)

Answer(m) ==
  /\ m \in wire /\ wire' = wire \ {m}
  /\ \E type \in IF m.to \in Calls THEN {"response", "error"} ELSE {"pong"} :
       answers' = answers \cup {[id |-> m.id, to |-> m.to, type |-> type]}
  /\ UNCHANGED <<client, table, callers, object, recv, closer>>
-----------------------------------------------------------------------------
(* receive and handleFrame.                                                *)

ReadFrame ==
  /\ rpc = "read" /\ connOpen
  /\ \E m \in answers : frame' = m /\ answers' = answers \ {m}
  /\ rpc' = "lookup"
  /\ UNCHANGED <<client, table, callers, object, wire, call, closer>>

\* The connection is closed or breaks, or the bytes are no frame: c.Close().
ReadFails ==
  /\ rpc = "read" /\ rpc' = "close"
  /\ UNCHANGED <<client, table, callers, object, network, frame, call, closer>>

\* pending.LoadAndDelete
LoadAndDelete ==
  /\ rpc = "lookup"
  /\ call' = pending[frame.id]
  /\ pending' = [pending EXCEPT ![frame.id] = NoReq]
  /\ IF pending[frame.id] = NoReq THEN rpc' = "read" /\ frame' = NoFrame
                                 ELSE rpc' = "fill" /\ UNCHANGED frame
  /\ UNCHANGED <<client, reqID, callers, object, network, closer>>

\* The switch on the frame's type; decoding the payload may fail.
Fill ==
  /\ rpc = "fill" /\ rpc' = "done"
  /\ \/ /\ frame.type = "response" /\ UNCHANGED error
        /\ reply' = [reply EXCEPT ![call] = frame.to]
     \/ frame.type \in {"response", "error"} /\ SetError(call) /\ UNCHANGED reply
     \/ frame.type = "pong" /\ UNCHANGED <<error, reply>>
  /\ UNCHANGED <<client, table, callers, done, network, frame, call, closer>>

\* Mutant: call.done() is missing.
Deliver_Forgets ==
  /\ rpc = "done" /\ rpc' = "read" /\ frame' = NoFrame /\ call' = NoReq
  /\ UNCHANGED <<client, table, callers, object, network, closer>>

Deliver ==
  /\ rpc = "done" /\ Complete(call) /\ rpc' = "read"
  /\ frame' = NoFrame /\ call' = NoReq
  /\ UNCHANGED <<client, table, callers, error, reply, network, closer>>

\* closeOnce.Do returns when the one execution of Close has finished.
ReceiveEnds ==
  /\ rpc = "close" /\ cpc = "closed" /\ rpc' = "ended"
  /\ UNCHANGED <<client, table, callers, object, network, frame, call, closer>>
-----------------------------------------------------------------------------
(* Close, started by a user at any time or by receive.                     *)

CloseGoto(label) == cpc' = label

StartClose ==
  /\ cpc = "idle" /\ CloseGoto("mark")
  /\ UNCHANGED <<client, table, callers, object, network, recv, unseen, seen,
                 vid, victim>>

Mark ==
  /\ cpc = "mark" /\ mu = NoReq /\ closed' = TRUE /\ CloseGoto("conn")
  /\ UNCHANGED <<mu, connOpen, table, callers, object, network, recv, unseen, seen,
                 vid, victim>>

\* Mutant: the pending calls are not failed.
CloseConn_NoRange ==
  /\ cpc = "conn" /\ connOpen' = FALSE /\ CloseGoto("closed")
  /\ UNCHANGED <<mu, closed, table, callers, object, network, recv, unseen, seen,
                 vid, victim>>

CloseConn ==
  /\ cpc = "conn" /\ connOpen' = FALSE /\ CloseGoto("range")
  /\ unseen' = {i \in Ids : pending[i] # NoReq}
  /\ UNCHANGED <<mu, closed, table, callers, object, network, recv, seen, vid,
                 victim>>

\* sync.Map.Range visits every key that is present throughout, and may or may
\* not visit one stored meanwhile.
RangeNext(i) ==
  /\ cpc = "range" /\ i \notin seen /\ pending[i] # NoReq
  /\ vid' = i /\ victim' = pending[i] /\ seen' = seen \cup {i}
  /\ CloseGoto("error")
  /\ UNCHANGED <<client, table, callers, object, network, recv, unseen>>

RangeError ==
  /\ cpc = "error" /\ SetError(victim) /\ CloseGoto("done")
  /\ UNCHANGED <<client, table, callers, reply, done, network, recv, unseen,
                 seen, vid, victim>>

\* Mutant: call.done() is missing.
RangeDone_Forgets ==
  /\ cpc = "done" /\ CloseGoto("delete")
  /\ UNCHANGED <<client, table, callers, object, network, recv, unseen, seen,
                 vid, victim>>

RangeDone ==
  /\ cpc = "done" /\ Complete(victim) /\ CloseGoto("delete")
  /\ UNCHANGED <<client, table, callers, error, reply, network, recv, unseen,
                 seen, vid, victim>>

\* Mutant: the entry is not deleted.
RangeDelete_Forgets ==
  /\ cpc = "delete" /\ CloseGoto("range") /\ vid' = 0 /\ victim' = NoReq
  /\ UNCHANGED <<client, table, callers, object, network, recv, unseen, seen>>

RangeDelete ==
  /\ cpc = "delete" /\ pending' = [pending EXCEPT ![vid] = NoReq]
  /\ CloseGoto("range") /\ vid' = 0 /\ victim' = NoReq
  /\ UNCHANGED <<client, reqID, callers, object, network, recv, unseen, seen>>

RangeEnd ==
  /\ cpc = "range" /\ \A i \in unseen : i \in seen \/ pending[i] = NoReq
  /\ CloseGoto("closed")
  /\ UNCHANGED <<client, table, callers, object, network, recv, unseen, seen,
                 vid, victim>>
-----------------------------------------------------------------------------
Begun(c) == pc[c] # "start"

\* What a request does by itself once it has begun, conn.Write apart.
Proceed(c) ==
  \/ NewId(c) \/ Store(c) \/ EncodeArgs(c) \/ Send(c) \/ Fail(c) \/ Unstore(c)
  \/ Finish(c) \/ Receive(c) \/ ReturnError(c)

ReceiveStep ==
  ReadFrame \/ LoadAndDelete \/ Fill \/ Deliver \/ ReceiveEnds

CloseStep ==
  \/ Mark \/ CloseConn \/ RangeError \/ RangeDone \/ RangeDelete \/ RangeEnd
  \/ \E i \in Ids : RangeNext(i)

Next ==
  \/ \E c \in Requests : Check(c) \/ Proceed(c) \/ Write(c) \/ Cancel(c)
  \/ \E m \in wire : Answer(m)
  \/ ReceiveStep \/ ReadFails
  \/ StartClose \/ CloseStep

Spec == Init /\ [][Next]_vars

\* Goroutines that can run do run, and a goroutine that waits for the mutex
\* gets it (Go's mutexes do not starve a waiter); a read of a closed connection
\* fails, and receive then calls Close.  The server, the network, contexts and
\* users owe nothing: a conn.Write, which has no deadline, may never return.
FairSpec ==
  /\ Spec
  /\ \A c \in Requests : WF_vars(Proceed(c)) /\ SF_vars(Send(c))
  /\ WF_vars(ReceiveStep) /\ WF_vars(~connOpen /\ ReadFails)
  /\ WF_vars(CloseStep) /\ SF_vars(Mark)
  /\ WF_vars(rpc = "close" /\ StartClose)

\* With a network that takes what is written, or fails, every Write returns.
LiveSpec == FairSpec /\ \A c \in Requests : WF_vars(Write(c))
-----------------------------------------------------------------------------
Frames == [id : Ids, to : Requests]
Answered == [id : Ids, to : Requests, type : {"response", "error", "pong"}]

TypeOK ==
  /\ mu \in Requests \cup {NoReq}
  /\ closed \in BOOLEAN /\ connOpen \in BOOLEAN
  /\ reqID \in 0 .. MaxId /\ pending \in [Ids -> Requests \cup {NoReq}]
  /\ pc \in [Requests -> {"start", "id", "store", "encode", "send", "write",
                          "fail", "unstore", "finish", "wait", "got",
                          "returned"}]
  /\ id \in [Requests -> 0 .. MaxId]
  /\ result \in [Requests -> {"none", "nil", "error", "cancelled"}]
  /\ error \in [Requests -> {"nil", "error"}]
  /\ reply \in [Requests -> Requests \cup {NoReq}]
  /\ done \in [Requests -> {"empty", "full"}]
  /\ wire \subseteq Frames /\ answers \subseteq Answered
  /\ rpc \in {"read", "lookup", "fill", "done", "close", "ended"}
  /\ frame \in Answered \cup {NoFrame} /\ call \in Requests \cup {NoReq}
  /\ cpc \in {"idle", "mark", "conn", "range", "error", "done", "delete",
              "closed"}
  /\ unseen \subseteq Ids /\ seen \subseteq Ids
  /\ vid \in 0 .. MaxId /\ victim \in Requests \cup {NoReq}

\* handleFrame holds c between LoadAndDelete and done.
InHand(c) == rpc \in {"fill", "done"} /\ call = c

\* No call is orphaned by Close: once Close has finished, every request that
\* still waits has its completion in the Done channel or about to be put there
\* by handleFrame, however Go, receive and Range interleaved.
NoOrphan ==
  cpc = "closed" => \A c \in Requests :
                      pc[c] = "wait" => done[c] = "full" \/ InHand(c)

\* Close leaves no entry in pending but those of requests that slipped past the
\* first look at c.closed and are about to find the client closed.
PendingDrained ==
  cpc = "closed" => \A i \in Ids : pending[i] # NoReq =>
    pc[pending[i]] \in {"encode", "send", "fail", "unstore"}

\* A payload is only ever decoded into the Reply of the call that asked for it.
ReplyToOwner == \A c \in Requests : reply[c] \in {NoReq, c}

\* When Call returns nil, its own reply has been decoded: neither a failing send
\* nor Close can make a call succeed without a reply.
SuccessHasReply == \A c \in Calls : result[c] = "nil" => reply[c] = c

\* A request registered under an ID is never overwritten by another.
NeverOverwritten ==
  [][\A i \in Ids : pending[i] # NoReq =>
                      pending'[i] \in {pending[i], NoReq}]_vars

\* Once Close has begun, or the connection broke, every request that has begun
\* returns, whatever the server answers.
CloseReleasesCallers ==
  \A c \in Requests :
    Begun(c) /\ (cpc # "idle" \/ rpc = "close") ~> pc[c] = "returned"

\* "Close closes the client connection": a Close that has begun closes it, and
\* returns, whatever the peer does.
CloseReturns == cpc # "idle" ~> cpc = "closed"

\* A request whose answer has come in returns.
AnsweredReturns ==
  \A c \in Requests : (\E m \in answers : m.to = c) ~> pc[c] = "returned"
=============================================================================

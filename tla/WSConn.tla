------------------------------- MODULE WSConn -------------------------------
(***************************************************************************)
(* A WebSocket connection: core/websocket/conn.go.  One goroutine reads    *)
(* (and answers pings), others write and one may close.  A frame goes out  *)
(* as first byte, length bytes and payload, through one bufio.Writer,      *)
(* which spills when a frame does not fit and keeps its first error; of an *)
(* outgoing payload only the length counts, and its piece is on the wire   *)
(* when its last byte is.  The peer is well-behaved: it fragments          *)
(* messages, with control frames in between.  The network may fail.        *)
(***************************************************************************)
EXTENDS Naturals, Sequences

CONSTANTS Writers,         \* goroutines that call WriteMessage
          Lens,            \* payload lengths they write
          Payloads,        \* what the peer sends in a frame
          Byte, XorByte,   \* the bytes of payloads, and ^ on them
          Key,             \* the peer's masking key
          MaxMessageSize,  \* Conn.maxMessageSize
          BufSize,         \* the bytes that bufio.Writer holds
          MaxFrames,       \* bound on the frames of the peer
          MaxWrites        \* bound on the calls of each writer

\* n is a length in Go, an int of 64 bits.
IsLen(n) == n \in Nat /\ (n \div 65536) \div 65536 <= 2147483647

ASSUME WSConnAssumption ==
  /\ Writers \intersect {"reader", "closer", "free"} = {}
  /\ \A n \in Lens : IsLen(n)
  /\ \A p \in Payloads : p \in Seq(Byte) /\ IsLen(Len(p))
  /\ Key \in [1 .. 4 -> Byte] /\ XorByte \in [Byte -> [Byte -> Byte]]
  /\ \A a, k \in Byte : XorByte[XorByte[a][k]][k] = a
  /\ {MaxMessageSize, BufSize, MaxFrames, MaxWrites} \subseteq Nat

Procs == Writers \union {"reader", "closer"}

VARIABLES
  phase,             \* "http" until Upgrade, then "open"
  in, nin, peerOp,   \* frames of the peer: under way, how many, open message
  said, saying,      \* messages the peer has sent, and the one it has begun
  op, fragments, got,\* ReadMessage: its message so far, messages returned
  reading,           \* "run" until ReadMessage returns an error
  wpc, frame, nw,    \* WriteFrame of each process: where it is, what, how often
  writeMu, buf, werr,\* the lock, bufio.Writer and whether it has failed
  wire,              \* the bytes on their way
  closed, sock       \* Conn.closed, the socket: open, failed or closed here

peer == <<in, nin, peerOp, said, saying>>
read == <<op, fragments, got, reading>>
out  == <<wpc, frame, nw, writeMu, buf, werr, wire>>
vars == <<phase, peer, read, out, closed, sock>>

Nil == [op |-> "none", n |-> 0]
Init ==
  /\ phase = "http" /\ in = <<>> /\ nin = 0 /\ peerOp = "none" /\ said = <<>>
  /\ saying = <<>>
  /\ op = "none" /\ fragments = <<>> /\ got = <<>> /\ reading = "run"
  /\ wpc = [p \in Procs |-> "idle"] /\ frame = [p \in Procs |-> Nil]
  /\ nw = [w \in Writers |-> 0] /\ writeMu = "free" /\ buf = <<>> /\ werr = FALSE
  /\ wire = <<>> /\ closed = FALSE /\ sock = "open"
-----------------------------------------------------------------------------
(* Lengths and masks.                                                      *)

\* binary.BigEndian: the bytes of a word, and words of the bytes from the i-th.
High(n) == (n \div 256) % 256
Low(n)  == n % 256

Uint16(s, i) == 256 * s[i] + s[i + 1]
Uint64(s, i) ==
  65536 * (65536 * (65536 * Uint16(s, i) + Uint16(s, i + 2)) + Uint16(s, i + 4))
    + Uint16(s, i + 6)

\* WriteFrame's length: one byte, 126 and two, or 127 and eight.
LenBytes(n) ==
  LET a == n \div 65536  b == a \div 65536  c == b \div 65536 IN
  IF n < 126 THEN <<n>> ELSE IF n < 65536 THEN <<126, High(n), Low(n)>>
  ELSE <<127, High(c), Low(c), High(b), Low(b), High(a), Low(a), High(n), Low(n)>>

\* readFrame's length, and how many bytes it takes it from.
PayloadLen(bytes) ==
  IF bytes[1] < 126 THEN bytes[1] ELSE IF bytes[1] = 126 THEN Uint16(bytes, 2)
  ELSE Uint64(bytes, 2)
LenSize(first) == IF first < 126 THEN 1 ELSE IF first = 126 THEN 3 ELSE 9

Mask(payload) == [i \in DOMAIN payload |-> XorByte[payload[i]][Key[((i - 1) % 4) + 1]]]
-----------------------------------------------------------------------------
(* The peer.                                                               *)

\* It may send frames right behind its upgrade request.  A frame remembers what
\* the peer had said before it.
PeerSends ==
  /\ sock = "open" /\ nin < MaxFrames /\ nin' = nin + 1
  /\ \E o \in {"text", "cont", "ping", "pong", "close"}, fin \in BOOLEAN,
        payload \in Payloads :
       /\ o = "text" => peerOp = "none"
       /\ o = "cont" => peerOp # "none"
       /\ o \in {"ping", "pong", "close"} => fin
       /\ in' = Append(in, [fin |-> fin, op |-> o, len |-> LenBytes(Len(payload)),
                            body |-> Mask(payload),
                            before |-> [said |-> said, saying |-> saying, op |-> peerOp]])
       /\ IF o \notin {"text", "cont"} THEN UNCHANGED <<peerOp, said, saying>>
          ELSE IF fin
          THEN /\ peerOp' = "none" /\ said' = Append(said, saying \o payload)
               /\ saying' = <<>>
          ELSE peerOp' = "text" /\ saying' = saying \o payload /\ UNCHANGED said
  /\ UNCHANGED <<phase, read, out, closed, sock>>

\* The peer, or the network, resets the connection.
Reset ==
  /\ phase = "open" /\ sock = "open" /\ sock' = "failed"
  /\ UNCHANGED <<phase, peer, read, out, closed>>

\* Upgrade: the headers are read from the reader that the connection keeps.
\* A request that does not ask for an upgrade, or has no key, is refused.
Upgrade ==
  /\ phase = "http"
  /\ \E asks, hasKey \in BOOLEAN :
       phase' = IF asks /\ hasKey THEN "open" ELSE "refused"
  /\ UNCHANGED <<peer, read, out, closed, sock>>
-----------------------------------------------------------------------------
(* ReadMessage and readFrame.                                              *)

Reading == phase = "open" /\ reading = "run" /\ wpc["reader"] = "idle"

\* The read fails on a socket that is not open, or the closed flag is seen at
\* the start.
ReadFails ==
  /\ Reading /\ (sock # "open" \/ (closed /\ op = "none"))
  /\ reading' = "eof"
  /\ UNCHANGED <<phase, peer, op, fragments, got, out, closed, sock>>

\* readFrame refuses a frame by its length, whatever its opcode.
TooLarge(f) == PayloadLen(f.len) > MaxMessageSize

ReadTooLarge ==
  /\ Reading /\ in # <<>> /\ TooLarge(Head(in))
  /\ in' = Tail(in) /\ reading' = "error"
  /\ UNCHANGED <<phase, nin, peerOp, said, saying, op, fragments, got, out, closed, sock>>

\* It returns any other; what bufio.Reader holds also after conn.Close.
Frame(ops) == Reading /\ in # <<>> /\ ~TooLarge(Head(in)) /\ Head(in).op \in ops

Payload(f) == IF PayloadLen(f.len) > 0 THEN Mask(f.body) ELSE <<>>

\* Mutant: every message frame starts a new message.
Collect_Restarts(o, payload) ==
  fragments' = payload /\ op' = "text"

\* The payload joins the fragments of the message.
Collect(o, payload) ==
  IF o = "text" THEN fragments' = fragments \o payload /\ op' = "text"
  ELSE fragments' = fragments \o payload /\ UNCHANGED op

\* A frame of a message; the last one returns it, and the next call starts anew.
ReadData ==
  /\ Frame({"text", "cont"})
  /\ LET f == Head(in) IN
       IF f.fin
       THEN /\ got' = Append(got, IF f.op = "text" THEN Payload(f)
                                  ELSE fragments \o Payload(f))
            /\ op' = "none" /\ fragments' = <<>>
       ELSE Collect(f.op, Payload(f)) /\ UNCHANGED got
  /\ in' = Tail(in)
  /\ UNCHANGED <<phase, nin, peerOp, said, saying, reading, out, closed, sock>>

\* A ping is answered by WriteFrame from this goroutine.
ReadPing ==
  /\ Frame({"ping"})
  /\ in' = Tail(in)
  /\ frame' = [frame EXCEPT !["reader"] = [op |-> "pong", n |-> PayloadLen(Head(in).len)]]
  /\ wpc' = [wpc EXCEPT !["reader"] = "check"]
  /\ UNCHANGED <<phase, nin, peerOp, said, saying, read, nw, writeMu, buf, werr, wire,
                 closed, sock>>

ReadPong ==
  /\ Frame({"pong"})
  /\ in' = Tail(in)
  /\ UNCHANGED <<phase, nin, peerOp, said, saying, read, out, closed, sock>>

\* Close, behind closeOnce: the flag, then WriteFrame of the close frame
SetClosed ==
  /\ closed' = TRUE
  /\ frame' = [frame EXCEPT !["closer"] = [op |-> "close", n |-> 0]]
  /\ wpc' = [wpc EXCEPT !["closer"] = "check"]

\* Close is called by the hub, or by the reader for a close frame.
Close ==
  /\ phase = "open" /\ wpc["closer"] = "idle" /\ SetClosed
  /\ UNCHANGED <<phase, peer, read, nw, writeMu, buf, werr, wire, sock>>

ReadClose ==
  /\ Frame({"close"})
  /\ in' = Tail(in) /\ reading' = "eof"
  /\ IF wpc["closer"] = "idle" THEN SetClosed ELSE UNCHANGED <<closed, frame, wpc>>
  /\ UNCHANGED <<phase, nin, peerOp, said, saying, op, fragments, got, nw, writeMu,
                 buf, werr, wire, sock>>

\* ... and then conn.Close.
CloseSock ==
  /\ wpc["closer"] = "returned" /\ sock # "closed" /\ sock' = "closed"
  /\ UNCHANGED <<phase, peer, read, out, closed>>
-----------------------------------------------------------------------------
(* WriteFrame.                                                             *)

WriteMessage(w) ==
  /\ phase = "open" /\ wpc[w] = "idle" /\ nw[w] < MaxWrites
  /\ \E n \in Lens : frame' = [frame EXCEPT ![w] = [op |-> "text", n |-> n]]
  /\ wpc' = [wpc EXCEPT ![w] = "check"] /\ nw' = [nw EXCEPT ![w] = @ + 1]
  /\ UNCHANGED <<phase, peer, read, writeMu, buf, werr, wire, closed, sock>>

\* WriteFrame returns; an error ends ReadMessage, and Close goes on.
Return(p, ok) ==
  /\ wpc' = [wpc EXCEPT ![p] = IF p = "closer" THEN "returned" ELSE "idle"]
  /\ reading' = IF p = "reader" /\ ~ok THEN "error" ELSE reading

CheckClosed(p) ==
  /\ wpc[p] = "check"
  /\ IF closed THEN Return(p, FALSE)
     ELSE wpc' = [wpc EXCEPT ![p] = "lock"] /\ UNCHANGED reading
  /\ UNCHANGED <<phase, peer, op, fragments, got, frame, nw, writeMu, buf, werr, wire,
                 closed, sock>>

\* Mutant: WriteFrame without the mutex.
Lock_None(p) ==
  /\ wpc[p] = "lock" /\ writeMu' = "free"
  /\ wpc' = [wpc EXCEPT ![p] = "head"]
  /\ UNCHANGED <<phase, peer, read, frame, nw, buf, werr, wire, closed, sock>>

Lock(p) ==
  /\ wpc[p] = "lock" /\ writeMu = "free" /\ writeMu' = p
  /\ wpc' = [wpc EXCEPT ![p] = "head"]
  /\ UNCHANGED <<phase, peer, read, frame, nw, buf, werr, wire, closed, sock>>

\* The deferred Unlock, and WriteFrame returns the writer's error.
Fails(p) ==
  /\ werr' = TRUE /\ buf' = <<>> /\ writeMu' = "free" /\ Return(p, FALSE)

\* A write on a socket that is not open: up to k pieces had gone out before it
\* failed, and the writer keeps the error.
Broken(p, k) ==
  /\ sock # "open" /\ Fails(p)
  /\ \E n \in 0 .. k : wire' = wire \o SubSeq(buf, 1, n)

\* First byte and length: WriteByte returns an error that came before, and the
\* buffer, which Flush has emptied, holds both.
WriteHead(p) ==
  /\ wpc[p] = "head"
  /\ IF werr THEN Fails(p)
     ELSE /\ wpc' = [wpc EXCEPT ![p] = "body"] /\ UNCHANGED <<writeMu, werr, reading>>
          /\ buf' = buf \o << <<"first", frame[p].op>>, <<"len", LenBytes(frame[p].n)>> >>
  /\ UNCHANGED <<phase, peer, op, fragments, got, frame, nw, wire, closed, sock>>

\* What is left of the buffer behind the head, and a payload that fits there.
Room(n) == BufSize - (1 + Len(LenBytes(n)))
Fits(n) == n <= Room(n)

\* The payload: bufio.Writer keeps what fits.  Otherwise it fills and writes the
\* buffer, and then keeps the rest, or writes that too when it is larger than
\* the buffer.
WriteBody(p) ==
  LET n == frame[p].n  payload == <<"payload", n>> IN
  /\ wpc[p] = "body"
  /\ \/ /\ Fits(n) /\ buf' = Append(buf, payload) /\ UNCHANGED wire
        /\ wpc' = [wpc EXCEPT ![p] = "flush"] /\ UNCHANGED <<writeMu, werr, reading>>
     \/ /\ ~Fits(n) /\ sock = "open" /\ wpc' = [wpc EXCEPT ![p] = "flush"]
        /\ IF n - Room(n) > BufSize
           THEN buf' = <<>> /\ wire' = wire \o Append(buf, payload)
           ELSE buf' = <<payload>> /\ wire' = wire \o buf
        /\ UNCHANGED <<writeMu, werr, reading>>
     \/ /\ ~Fits(n) /\ Broken(p, 2)
  /\ UNCHANGED <<phase, peer, op, fragments, got, frame, nw, closed, sock>>

\* Mutant: an error returns without unlocking.
Flush_KeepsLock(p) ==
  /\ wpc[p] = "flush"
  /\ IF sock = "open" \/ buf = <<>>
     THEN /\ wire' = wire \o buf /\ buf' = <<>> /\ writeMu' = "free"
          /\ Return(p, TRUE) /\ UNCHANGED werr
     ELSE /\ werr' = TRUE /\ buf' = <<>> /\ Return(p, FALSE)
          /\ UNCHANGED <<wire, writeMu>>
  /\ UNCHANGED <<phase, peer, op, fragments, got, frame, nw, closed, sock>>

\* Flush writes what the buffer holds; the deferred Unlock follows either way.
Flush(p) ==
  /\ wpc[p] = "flush"
  /\ \/ /\ sock = "open" \/ buf = <<>>
        /\ wire' = wire \o buf /\ buf' = <<>> /\ writeMu' = "free"
        /\ Return(p, TRUE) /\ UNCHANGED werr
     \/ buf # <<>> /\ Broken(p, Len(buf) - 1)
  /\ UNCHANGED <<phase, peer, op, fragments, got, frame, nw, closed, sock>>
-----------------------------------------------------------------------------
WriteFrame(p) == CheckClosed(p) \/ Lock(p) \/ WriteHead(p) \/ WriteBody(p) \/ Flush(p)
ReadMessage == ReadFails \/ ReadTooLarge \/ ReadData \/ ReadPing \/ ReadPong \/ ReadClose
Next == \/ PeerSends \/ Reset \/ Upgrade \/ ReadMessage \/ Close \/ CloseSock
        \/ \E w \in Writers : WriteMessage(w)
        \/ \E p \in Procs : WriteFrame(p)
Spec == Init /\ [][Next]_vars

\* A write returns when the buffer takes it all, or the socket is not open; a
\* peer that does not read may keep any other waiting.
Returns(p) ==
  \/ CheckClosed(p) \/ Lock(p) \/ WriteHead(p)
  \/ (Fits(frame[p].n) \/ sock # "open") /\ WriteBody(p)
  \/ sock # "open" /\ Flush(p)

\* The goroutines run, and a sync.Mutex does not pass one over for ever.
FairSpec ==
  /\ Spec /\ WF_vars(ReadMessage) /\ WF_vars(CloseSock)
  /\ SF_vars(Lock("reader")) /\ \A p \in Procs : WF_vars(Returns(p))
-----------------------------------------------------------------------------
\* What a peer that parses the bytes sees: whole frames, not mixed with each
\* other, whose length bytes say how long the payload is.  A frame that is not
\* whole can only be the last: WriteFrame is at it, with the mutex held, or the
\* writer has failed and writes nothing more.
FramesWhole ==
  /\ \A i \in 1 .. Len(wire) \div 3 :
       LET b == 3 * (i - 1) IN
       /\ wire[b + 1][1] = "first" /\ wire[b + 2][1] = "len"
       /\ LenSize(wire[b + 2][2][1]) = Len(wire[b + 2][2])
       /\ wire[b + 3] = <<"payload", PayloadLen(wire[b + 2][2])>>
  /\ Len(wire) % 3 # 0 => werr \/ writeMu # "free"

\* ReadMessage returns the peer's messages, in order and put together from their
\* fragments, whatever control frames come in between; also the first ones,
\* which may arrive together with the upgrade request.
MessagesIntact ==
  Len(got) <= Len(said) /\ \A i \in 1 .. Len(got) : got[i] = said[i]

\* A connection whose Close was called is closed, and its reader ends, also when
\* the peer has stopped reading and a write waits for it with the mutex held.
CloseEnds == closed ~> (sock = "closed" /\ (reading # "run" \/ phase # "open"))
=============================================================================

---------------------------- MODULE WSConnProofs ----------------------------
(***************************************************************************)
(* Proofs about module WSConn for every set of writers, all lengths and    *)
(* payloads, and every order of the peer's frames.                         *)
(***************************************************************************)
EXTENDS WSConn, TLAPS

\* The provers of a leaf that names none: most leaves are first-order.
USE ZenonT(20), SMTT(30), SMTT(60)

\* WriteFrame of process p, as the bytes it puts into the buffer.
FirstOf(p) == <<"first", frame[p].op>>
LenOf(p)   == <<"len", LenBytes(frame[p].n)>>
RestOf(p)  == <<"payload", frame[p].n>>
HeadOf(p)  == << FirstOf(p), LenOf(p) >>
FrameOf(p) == Append(HeadOf(p), RestOf(p))

\* Whoever is between Lock and Unlock holds the mutex, and the buffer holds what
\* it has written and not spilled, and nothing else; after an error nobody gets
\* past the first byte.  Close sets the flag before its
\* WriteFrame looks at it, so that never gets as far as the mutex.
WritersSound ==
  /\ wpc \in [Procs -> {"idle", "check", "lock", "head", "body", "flush", "returned"}]
  /\ frame \in [Procs -> [op : {"none", "text", "pong", "close"}, n : Nat]]
  /\ \A p \in Procs :
       /\ IsLen(frame[p].n)
       /\ p # "closer" => frame[p].op # "close"
       /\ wpc[p] \in {"head", "body", "flush"} <=> writeMu = p
       /\ wpc[p] = "head" => buf = <<>>
       /\ wpc[p] = "body" => buf = HeadOf(p)
       /\ wpc[p] = "flush" => buf \in {FrameOf(p), <<RestOf(p)>>, <<>>}
       /\ wpc[p] \in {"body", "flush"} => ~werr
  /\ werr \in BOOLEAN /\ writeMu \in Procs \union {"free"} /\ (writeMu = "free" => buf = <<>>)
  /\ closed \in BOOLEAN /\ (wpc["closer"] # "idle" => closed)
  /\ wpc["closer"] \in {"idle", "check", "returned"}

\* A whole frame behind position b, and not the one Close builds.
IsFrame(s, b) ==
  LET n == s[b + 3][2] IN
  /\ s[b + 1] \in {"first"} \X {"none", "text", "pong"} /\ IsLen(n)
  /\ s[b + 2] = <<"len", LenBytes(n)>> /\ s[b + 3] = <<"payload", n>>

Token == ({"first"} \X {"none", "text", "pong", "close"})
           \union ({"len"} \X Seq(Nat)) \union ({"payload"} \X Nat)

\* k whole frames begin the sequence.
Whole(s, k) ==
  /\ s \in Seq(Token) /\ k \in Nat /\ 3 * k <= Len(s)
  /\ \A i \in 1 .. k : IsFrame(s, 3 * (i - 1))

\* The head of p's frame has been spilled, and the rest waits for Flush.
Spilled(p) == wpc[p] = "flush" /\ buf = <<RestOf(p)>>

\* The bytes on their way are whole frames, one after the other.  Behind them
\* is the head that somebody has spilled, or what an error has left.
WireSound ==
  \E k \in Nat :
    /\ Whole(wire, k) /\ Len(wire) <= 3 * k + 2
    /\ \A p \in Procs :
         Spilled(p) => /\ Len(wire) = 3 * k + 2 /\ wire[3 * k + 1] = FirstOf(p)
                       /\ wire[3 * k + 2] = LenOf(p)
    /\ ~werr /\ (\A p \in Procs : ~Spilled(p)) => Len(wire) = 3 * k

\* What the peer has said, with frame f, and before the i-th frame under way.
History == [said : Seq(Seq(Byte)), saying : Seq(Byte), op : {"none", "text"}]
Frames == [fin : BOOLEAN, op : {"text", "cont", "ping", "pong", "close"},
           len : Seq(Nat), body : Seq(Byte), before : History]

Now == [said |-> said, saying |-> saying, op |-> peerOp]
Before(i) == IF i <= Len(in) THEN in[i].before ELSE Now
After(f) ==
  LET h == f.before IN
  IF f.op \notin {"text", "cont"} THEN h
  ELSE IF f.fin THEN [said   |-> Append(h.said, h.saying \o Payload(f)),
                      saying |-> <<>>, op |-> "none"]
  ELSE [said |-> h.said, saying |-> h.saying \o Payload(f), op |-> "text"]

Prefix(s, t) == Len(s) <= Len(t) /\ \A i \in 1 .. Len(s) : s[i] = t[i]

\* A frame as a well-behaved peer sends it: a new message only when none is
\* open, and the rest of one only when it is.
FrameSound(f) ==
  /\ IsLen(PayloadLen(f.len)) /\ Payload(f) \in Seq(Byte)
  /\ f.before \in History /\ f.fin \in BOOLEAN
  /\ f.op \in {"text", "cont", "ping", "pong", "close"}
  /\ f.op = "text" => f.before.op = "none" /\ f.before.saying = <<>>
  /\ f.op = "cont" => f.before.op = "text"

\* The frames under way tell the story from where the reader is to where the
\* peer is, without a gap.
PeerSound ==
  /\ in \in Seq(Frames)
  /\ Now \in History /\ (peerOp = "none" => saying = <<>>)
  /\ \A i \in 1 .. Len(in) : /\ FrameSound(in[i]) /\ After(in[i]) = Before(i + 1)
                             /\ Prefix(in[i].before.said, said)

\* While ReadMessage runs, it has what the peer had said before the next frame.
ReaderSound ==
  /\ got \in Seq(Seq(Byte)) /\ fragments \in Seq(Byte) /\ op \in {"none", "text"}
  /\ reading = "run" => /\ got = Before(1).said /\ fragments = Before(1).saying
                        /\ op = Before(1).op
  /\ Prefix(got, said)

ConnInv == WritersSound /\ WireSound /\ PeerSound /\ ReaderSound
-----------------------------------------------------------------------------
(* Sequences.                                                              *)

\* A sequence without its first element.
LEMMA Received ==
  ASSUME NEW S, NEW s \in Seq(S), s # <<>>
  PROVE  /\ Head(s) \in S /\ Tail(s) \in Seq(S)
         /\ Len(s) \in Nat /\ Len(s) # 0 /\ Len(Tail(s)) = Len(s) - 1
         /\ Head(s) = s[1]
         /\ \A i \in 1..Len(Tail(s)) : Tail(s)[i] = s[i + 1]
BY SMTT(30), SMTT(60)

\* One element behind a sequence.
LEMMA Sent ==
  ASSUME NEW S, NEW s \in Seq(S), NEW e \in S
  PROVE  /\ Append(s, e) \in Seq(S)
         /\ Len(s) \in Nat /\ Len(Append(s, e)) = Len(s) + 1
         /\ Append(s, e)[Len(s) + 1] = e
         /\ \A i \in 1..Len(s) : Append(s, e)[i] = s[i]
BY SMTT(30), SMTT(60)

\* Two sequences, one behind the other.
LEMMA Joined ==
  ASSUME NEW S, NEW s \in Seq(S), NEW t \in Seq(S)
  PROVE  /\ s \o t \in Seq(S) /\ Len(s \o t) = Len(s) + Len(t)
         /\ \A i \in 1 .. Len(s) : (s \o t)[i] = s[i]
         /\ \A i \in 1 .. Len(t) : (s \o t)[Len(s) + i] = t[i]
BY SMTT(30), SMTT(60)

\* Nothing in front of a sequence.
LEMMA JoinedEmpty ==
  ASSUME NEW S, NEW t \in Seq(S)
  PROVE  <<>> \o t = t
<1>1. <<>> \in Seq(S) /\ Len(<<>>) = 0
  BY SMTT(30), SMTT(60)
<1>2. <<>> \o t \in Seq(S) /\ Len(<<>> \o t) = Len(t)
  BY SMTT(30), SMTT(60), <1>1, Joined
<1>3. \A i \in 1 .. Len(t) : (<<>> \o t)[i] = t[i]
  BY SMTT(30), SMTT(60), <1>1, Joined
<1> QED
  BY SMTT(30), SMTT(60), <1>2, <1>3

\* What bufio.Writer holds behind the head and behind the payload.
LEMMA Pieces ==
  ASSUME NEW S, NEW a \in S, NEW b \in S, NEW c \in S
  PROVE  /\ <<a, b>> \in Seq(S) /\ Append(<<a, b>>, c) = <<a, b, c>>
         /\ <<a, b, c>> \in Seq(S) /\ Len(<<a, b, c>>) = 3
<1> DEFINE u == <<a, b>>
           v == <<a, b, c>>
<1>0. u \in Seq(S)
  BY SMTT(30), SMTT(60)
<1>1. Len(u) = 2 /\ u[1] = a /\ u[2] = b
  BY SMTT(30), SMTT(60)
<1>2. v \in Seq(S) /\ Len(v) = 3 /\ v[1] = a /\ v[2] = b /\ v[3] = c
  BY SMTT(30), SMTT(60)
<1> HIDE DEF u, v
<1>3. /\ Append(u, c) \in Seq(S) /\ Len(Append(u, c)) = Len(u) + 1
      /\ Append(u, c)[Len(u) + 1] = c
      /\ \A i \in 1 .. Len(u) : Append(u, c)[i] = u[i]
  BY SMTT(30), SMTT(60), <1>0, Sent
<1>4. Len(Append(u, c)) = 3 /\ \A i \in 1 .. 3 : Append(u, c)[i] = v[i]
  BY SMTT(30), SMTT(60), <1>1, <1>2, <1>3
<1>5. Append(u, c) = v
  BY SMTT(30), SMTT(60), <1>2, <1>3, <1>4
<1> QED
  BY SMTT(30), SMTT(60), <1>0, <1>2, <1>5 DEF u, v
-----------------------------------------------------------------------------
(* Lengths and masks.                                                      *)

\* What binary.BigEndian.PutUint16 keeps of a number.
Word(n) == n % 65536

\* Two bytes hold a number up to 65535.
LEMMA TwoBytes ==
  ASSUME NEW n \in Nat
  PROVE  /\ High(n) \in Nat /\ Low(n) \in Nat
         /\ 256 * High(n) + Low(n) = Word(n)
<1> DEFINE h == n \div 256
           l == n % 256
           q == h \div 256
           r == h % 256
<1>1. h \in Nat /\ l \in Nat /\ l < 256 /\ n = 256 * h + l
  BY SMTT(30), SMTT(60)
<1>2. q \in Nat /\ r \in Nat /\ r < 256 /\ h = 256 * q + r
  BY SMTT(30), SMTT(60), <1>1
<1> HIDE DEF h, l, q, r
<1>3. n = 65536 * q + (256 * r + l) /\ 256 * r + l < 65536
  BY SMTT(30), SMTT(60), <1>1, <1>2
<1>4. \A i, j \in Nat : j < 65536 => (65536 * i + j) % 65536 = j
  BY SMTT(30), SMTT(60)
<1> DEFINE e == 256 * r + l
<1>5. n = 65536 * q + e /\ q \in Nat /\ e \in Nat /\ e < 65536
  BY SMTT(30), SMTT(60), <1>1, <1>2, <1>3
<1> HIDE DEF e
<1>6. n % 65536 = e
  BY SMTT(30), SMTT(60), <1>4, <1>5
<1> QED
  BY SMTT(30), SMTT(60), <1>1, <1>2, <1>6 DEF e, h, l, r, Word, High, Low

\* Eight bytes hold the length of anything.
LEMMA FourWords ==
  ASSUME NEW n \in Nat, IsLen(n)
  PROVE  LET a == n \div 65536  b == a \div 65536  c == b \div 65536 IN
         /\ a \in Nat /\ b \in Nat /\ c \in Nat
         /\ n = 65536 * (65536 * (65536 * Word(c) + Word(b)) + Word(a)) + Word(n)
<1> DEFINE a == n \div 65536
           b == a \div 65536
           c == b \div 65536
<1>1. a \in Nat /\ n = 65536 * a + Word(n)
  BY SMTT(30), SMTT(60) DEF Word
<1>2. b \in Nat /\ a = 65536 * b + Word(a)
  BY SMTT(30), SMTT(60), <1>1 DEF Word
<1>3. c \in Nat /\ b = 65536 * c + Word(b) /\ c <= 32767
  BY SMTT(30), SMTT(60), <1>2 DEF IsLen, Word
<1>4. Word(c) = c
  BY SMTT(30), SMTT(60), <1>3 DEF Word
<1> HIDE DEF a, b, c
<1>5. n = 65536 * (65536 * (65536 * Word(c) + Word(b)) + Word(a)) + Word(n)
  BY SMTT(30), SMTT(60), <1>1, <1>2, <1>3, <1>4
<1> QED
  BY SMTT(30), SMTT(60), <1>1, <1>2, <1>3, <1>5 DEF a, b, c

\* readFrame takes from the bytes that WriteFrame writes for a length as many as
\* were written, and the same length.
LEMMA LengthReadBack ==
  ASSUME NEW n, IsLen(n)
  PROVE  /\ LenBytes(n) \in Seq(Nat) /\ PayloadLen(LenBytes(n)) = n
         /\ LenSize(LenBytes(n)[1]) = Len(LenBytes(n))
<1>1. n \in Nat
  BY SMTT(30), SMTT(60) DEF IsLen
<1>2. CASE n < 126
  BY SMTT(30), SMTT(60), <1>1, <1>2 DEF LenBytes, PayloadLen, LenSize
<1>3. CASE n >= 126 /\ n < 65536
  <2>1. Word(n) = n
    BY SMTT(30), SMTT(60), <1>1, <1>3 DEF Word
  <2>2. High(n) \in Nat /\ Low(n) \in Nat /\ 256 * High(n) + Low(n) = n
    BY SMTT(30), SMTT(60), <1>1, <2>1, TwoBytes
  <2>3. LenBytes(n) = <<126, High(n), Low(n)>>
    BY SMTT(30), SMTT(60), <1>1, <1>3 DEF LenBytes
  <2> QED
    BY SMTT(30), SMTT(60), <1>1, <2>2, <2>3 DEF PayloadLen, LenSize, Uint16
<1>4. CASE n >= 65536
  <2> DEFINE a == n \div 65536
             b == a \div 65536
             c == b \div 65536
             s == LenBytes(n)
  <2>1. /\ a \in Nat /\ b \in Nat /\ c \in Nat
        /\ n = 65536 * (65536 * (65536 * Word(c) + Word(b)) + Word(a)) + Word(n)
    BY SMTT(30), SMTT(60), <1>1, FourWords
  <2>2. s = <<127, High(c), Low(c), High(b), Low(b),
              High(a), Low(a), High(n), Low(n)>>
    BY SMTT(30), SMTT(60), <1>1, <1>4 DEF LenBytes
  <2> HIDE DEF a, b, c, s
  <2>3. /\ High(a) \in Nat /\ Low(a) \in Nat /\ High(b) \in Nat /\ Low(b) \in Nat
        /\ High(c) \in Nat /\ Low(c) \in Nat /\ High(n) \in Nat /\ Low(n) \in Nat
    BY SMTT(30), SMTT(60), <1>1, <2>1, TwoBytes
  <2>4. s \in Seq(Nat) /\ Len(s) = 9 /\ s[1] = 127
    BY SMTT(30), SMTT(60), <2>2, <2>3
  <2>5. /\ Uint16(s, 2) = Word(c) /\ Uint16(s, 4) = Word(b)
        /\ Uint16(s, 6) = Word(a) /\ Uint16(s, 8) = Word(n)
    BY SMTT(30), SMTT(60), <1>1, <2>1, <2>2, TwoBytes DEF Uint16
  <2>6. PayloadLen(s) = n
    BY SMTT(30), SMTT(60), <2>1, <2>4, <2>5 DEF PayloadLen, Uint64
  <2> QED
    BY SMTT(30), SMTT(60), <2>4, <2>6 DEF s, LenSize
<1> QED
  BY SMTT(30), SMTT(60), <1>1, <1>2, <1>3, <1>4

\* Masking a payload twice with the peer's key gives the payload.
LEMMA Unmasked ==
  ASSUME NEW p \in Seq(Byte)
  PROVE  /\ Mask(p) \in Seq(Byte) /\ Len(Mask(p)) = Len(p)
         /\ Mask(Mask(p)) = p
<1> DEFINE k(i) == Key[((i - 1) % 4) + 1]
<1>1. \A i \in 1 .. Len(p) : ((i - 1) % 4) + 1 \in 1 .. 4
  <2>1. \A i \in Nat : (i % 4) + 1 \in 1 .. 4
    BY SMTT(30), SMTT(60)
  <2> TAKE i \in 1 .. Len(p)
  <2>2. i - 1 \in Nat
    BY SMTT(30), SMTT(60)
  <2> QED
    BY <2>1, <2>2
<1>2. \A i \in 1 .. Len(p) : k(i) \in Byte
  <2>1. Key \in [1 .. 4 -> Byte]
    BY WSConnAssumption
  <2> QED
    BY <1>1, <2>1
<1>3. DOMAIN p = 1 .. Len(p) /\ \A i \in 1 .. Len(p) : p[i] \in Byte
  BY SMTT(30), SMTT(60)
<1> HIDE DEF k
<1>4. Mask(p) = [i \in 1 .. Len(p) |-> XorByte[p[i]][k(i)]]
  BY <1>3 DEF Mask, k
<1>5. \A i \in 1 .. Len(p) : /\ XorByte[p[i]][k(i)] \in Byte
                             /\ XorByte[XorByte[p[i]][k(i)]][k(i)] = p[i]
  BY SMTT(30), SMTT(60), <1>2, <1>3, WSConnAssumption
<1>6. Mask(p) \in Seq(Byte) /\ Len(Mask(p)) = Len(p)
  BY SMTT(30), SMTT(60), <1>4, <1>5
<1>7. Mask(Mask(p)) = [i \in 1 .. Len(p) |-> XorByte[XorByte[p[i]][k(i)]][k(i)]]
  BY <1>4 DEF Mask, k
<1>8. p = [i \in 1 .. Len(p) |-> p[i]]
  BY SMTT(30), SMTT(60), <1>3
<1> QED
  BY <1>5, <1>6, <1>7, <1>8
-----------------------------------------------------------------------------
(* WriteFrame.                                                             *)

\* Who can hold the mutex.
LEMMA ProcsApart ==
  /\ "free" \notin Procs /\ {"reader", "closer"} \subseteq Procs
         /\ Writers \subseteq Procs /\ "reader" # "closer"
         /\ \A w \in Writers : w # "reader" /\ w # "closer"
BY WSConnAssumption DEF Procs

\* A call of WriteFrame begins: it may not be the close frame of anyone but
\* Close, which has set the flag.
LEMMA Begins ==
  ASSUME WritersSound,
         NEW p \in Procs, wpc[p] = "idle",
         NEW f \in [op : {"text", "pong", "close"}, n : Nat], IsLen(f.n),
         p # "closer" => f.op # "close",
         wpc' = [wpc EXCEPT ![p] = "check"], frame' = [frame EXCEPT ![p] = f],
         closed' \in BOOLEAN, closed \/ p = "closer" => closed',
         UNCHANGED <<writeMu, buf, werr>>
  PROVE  WritersSound'
<1>1. wpc' \in [Procs -> {"idle", "check", "lock", "head", "body", "flush", "returned"}]
  BY DEF WritersSound
<1>2. frame' \in [Procs -> [op : {"none", "text", "pong", "close"}, n : Nat]]
  BY DEF WritersSound
<1>3. ASSUME NEW q \in Procs
      PROVE  /\ IsLen(frame'[q].n)
             /\ q # "closer" => frame'[q].op # "close"
             /\ wpc'[q] \in {"head", "body", "flush"} <=> writeMu' = q
             /\ wpc'[q] = "head" => buf' = <<>>
             /\ wpc'[q] = "body" => buf' = HeadOf(q)'
             /\ wpc'[q] = "flush" => buf' \in {FrameOf(q)', <<RestOf(q)'>>, <<>>}
             /\ wpc'[q] \in {"body", "flush"} => ~werr'
  <2>1. CASE q = p
    BY <2>1 DEF WritersSound
  <2>2. CASE q # p
    BY <2>2 DEF WritersSound, HeadOf, FrameOf, FirstOf, LenOf, RestOf
  <2> QED
    BY <2>1, <2>2
<1>4. "closer" \in Procs
  BY ProcsApart
<1>5. /\ writeMu' \in Procs \union {"free"} /\ (writeMu' = "free" => buf' = <<>>)
      /\ werr' \in BOOLEAN
      /\ wpc'["closer"] # "idle" => closed'
      /\ wpc'["closer"] \in {"idle", "check", "returned"}
  BY <1>4 DEF WritersSound
<1> QED
  BY <1>1, <1>2, <1>3, <1>5 DEF WritersSound

\* The steps that leave WriteFrame alone.
LEMMA WritersKept ==
  ASSUME WritersSound, UNCHANGED <<wpc, frame, writeMu, buf, werr, closed>>
  PROVE  WritersSound'
BY DEF WritersSound, HeadOf, FrameOf, FirstOf, LenOf, RestOf

\* So for the bytes on their way, when nobody begins or ends to wait for Flush.
LEMMA WireKept ==
  ASSUME WireSound, UNCHANGED <<wire, werr>>,
         \A p \in Procs : /\ wpc'[p] = "flush" <=> wpc[p] = "flush"
                          /\ wpc[p] = "flush" => frame'[p] = frame[p] /\ buf' = buf
  PROVE  WireSound'
<1>1. \A p \in Procs : /\ Spilled(p)' <=> Spilled(p)
                       /\ Spilled(p) => FirstOf(p)' = FirstOf(p) /\ LenOf(p)' = LenOf(p)
  BY DEF Spilled, FirstOf, LenOf, RestOf
<1> QED
  BY <1>1 DEF WireSound, Whole, IsFrame

\* A call of WriteFrame begins.
LEMMA WireKeptBegin ==
  ASSUME WritersSound, WireSound, NEW p \in Procs, wpc[p] = "idle", NEW f,
         wpc' = [wpc EXCEPT ![p] = "check"], frame' = [frame EXCEPT ![p] = f],
         UNCHANGED <<wire, werr, buf>>
  PROVE  WireSound'
<1>1. ASSUME NEW q \in Procs
      PROVE  /\ wpc'[q] = "flush" <=> wpc[q] = "flush"
             /\ wpc[q] = "flush" => frame'[q] = frame[q] /\ buf' = buf
  <2>1. CASE q = p
    BY <2>1 DEF WritersSound
  <2>2. CASE q # p
    BY <2>2 DEF WritersSound
  <2> QED
    BY <2>1, <2>2
<1> QED
  BY <1>1, WireKept

\* The flag is read before the mutex is taken.
LEMMA ChecksFlag ==
  ASSUME WritersSound, WireSound, NEW p \in Procs, CheckClosed(p)
  PROVE  WritersSound' /\ WireSound'
<1> DEFINE to == IF closed THEN IF p = "closer" THEN "returned" ELSE "idle" ELSE "lock"
<1>1. wpc[p] = "check" /\ wpc' = [wpc EXCEPT ![p] = to]
  BY DEF CheckClosed, Return
<1>2. UNCHANGED <<frame, writeMu, buf, werr, wire, closed>>
  BY DEF CheckClosed
<1>3. "closer" \in Procs
  BY ProcsApart
<1>4. ASSUME NEW q \in Procs
      PROVE  /\ wpc'[q] \in {"head", "body", "flush"} <=> wpc[q] \in {"head", "body", "flush"}
             /\ wpc'[q] \in {"head", "body", "flush"} => wpc'[q] = wpc[q]
  BY <1>1 DEF WritersSound
<1>5. /\ wpc'["closer"] # "idle" => closed
      /\ wpc'["closer"] \in {"idle", "check", "returned"}
  BY <1>1, <1>3 DEF WritersSound
<1>6. wpc' \in [Procs -> {"idle", "check", "lock", "head", "body", "flush", "returned"}]
  BY <1>1 DEF WritersSound
<1>7. WritersSound'
  BY <1>2, <1>4, <1>5, <1>6 DEF WritersSound, HeadOf, FrameOf, FirstOf, LenOf, RestOf
<1>8. WireSound'
  BY <1>2, <1>4, WireKept
<1> QED
  BY <1>7, <1>8

\* What a process has to write are three pieces of a frame.
LEMMA PiecesOf ==
  ASSUME WritersSound, NEW p \in Procs
  PROVE  LET n == frame[p].n
             a == <<"first", frame[p].op>>
             b == <<"len", LenBytes(n)>>
             c == <<"payload", n>>
         IN  /\ n \in Nat /\ IsLen(n) /\ a \in Token /\ b \in Token /\ c \in Token
             /\ HeadOf(p) = <<a, b>> /\ HeadOf(p) \in Seq(Token)
             /\ FrameOf(p) = <<a, b, c>> /\ FrameOf(p) \in Seq(Token)
             /\ FirstOf(p) = a /\ LenOf(p) = b /\ RestOf(p) = c
<1> DEFINE n == frame[p].n
           a == <<"first", frame[p].op>>
           b == <<"len", LenBytes(n)>>
           c == <<"payload", n>>
<1>1. frame[p].op \in {"none", "text", "pong", "close"} /\ n \in Nat /\ IsLen(n)
  BY DEF WritersSound
<1>2. LenBytes(n) \in Seq(Nat)
  BY <1>1, LengthReadBack
<1>3. a \in Token /\ b \in Token /\ c \in Token
  BY <1>1, <1>2 DEF Token
<1>4. /\ HeadOf(p) = <<a, b>> /\ FrameOf(p) = Append(HeadOf(p), c)
      /\ FirstOf(p) = a /\ LenOf(p) = b /\ RestOf(p) = c
  BY DEF HeadOf, FrameOf, FirstOf, LenOf, RestOf
<1> HIDE DEF a, b, c, n
<1>5. <<a, b>> \in Seq(Token) /\ Append(<<a, b>>, c) = <<a, b, c>> /\ <<a, b, c>> \in Seq(Token)
  BY <1>3, Pieces
<1> QED
  BY <1>1, <1>3, <1>4, <1>5 DEF a, b, c, n

\* Whoever is between Lock and Unlock is alone there.
LEMMA Alone ==
  ASSUME WritersSound, NEW p \in Procs, wpc[p] \in {"head", "body", "flush"}
  PROVE  /\ p # "closer" /\ writeMu = p
         /\ \A q \in Procs \ {p} : wpc[q] \notin {"head", "body", "flush"}
BY ProcsApart DEF WritersSound

\* A process takes the mutex.
LEMMA TakesLock ==
  ASSUME WritersSound, WireSound, NEW p \in Procs, Lock(p)
  PROVE  WritersSound' /\ WireSound'
<1>1. "closer" \in Procs /\ "free" \notin Procs
  BY ProcsApart
<1>2. /\ wpc[p] = "lock" /\ writeMu = "free" /\ writeMu' = p
      /\ wpc' = [wpc EXCEPT ![p] = "head"] /\ UNCHANGED <<frame, buf, werr, wire, closed>>
  BY DEF Lock
<1>3. \A q \in Procs : /\ HeadOf(q)' = HeadOf(q) /\ FrameOf(q)' = FrameOf(q)
                       /\ RestOf(q)' = RestOf(q)
  BY <1>2 DEF HeadOf, FrameOf, FirstOf, LenOf, RestOf
<1>4. \A q \in Procs : wpc[q] \notin {"head", "body", "flush"}
  BY <1>1, <1>2 DEF WritersSound
<1>5. \A q \in Procs : wpc'[q] = IF q = p THEN "head" ELSE wpc[q]
  BY <1>2 DEF WritersSound
<1>6. WritersSound'
  BY <1>1, <1>2, <1>3, <1>4, <1>5 DEF WritersSound
<1>7. WireSound'
  BY <1>2, <1>4, <1>5, WireKept
<1> QED
  BY <1>6, <1>7

\* The holder of the mutex moves on to label to, with or without an error.
LEMMA Moves ==
  ASSUME WritersSound, NEW p \in Procs, wpc[p] \in {"head", "body", "flush"},
         NEW to \in {"idle", "body", "flush"}, wpc' = [wpc EXCEPT ![p] = to],
         UNCHANGED <<frame, closed>>, werr' \in BOOLEAN,
         to = "idle" => writeMu' = "free" /\ buf' = <<>>,
         to # "idle" => writeMu' = writeMu /\ ~werr',
         to = "body" => buf' = HeadOf(p),
         to = "flush" => buf' \in {FrameOf(p), <<RestOf(p)>>, <<>>}
  PROVE  WritersSound' /\ \A q \in Procs \ {p} : wpc'[q] \notin {"head", "body", "flush"}
<1>1. /\ "closer" \in Procs /\ "free" \notin Procs /\ p # "closer" /\ writeMu = p
      /\ \A q \in Procs \ {p} : wpc[q] \notin {"head", "body", "flush"}
  BY ProcsApart, Alone
<1>2. \A q \in Procs : wpc'[q] = IF q = p THEN to ELSE wpc[q]
  BY DEF WritersSound
<1>3. \A q \in Procs : /\ HeadOf(q)' = HeadOf(q) /\ FrameOf(q)' = FrameOf(q)
                       /\ RestOf(q)' = RestOf(q)
  BY DEF HeadOf, FrameOf, FirstOf, LenOf, RestOf
<1>4. wpc' \in [Procs -> {"idle", "check", "lock", "head", "body", "flush", "returned"}]
  BY DEF WritersSound
<1>5. ASSUME NEW q \in Procs
      PROVE  /\ wpc'[q] \in {"head", "body", "flush"} <=> writeMu' = q
             /\ wpc'[q] = "head" => buf' = <<>>
             /\ wpc'[q] = "body" => buf' = HeadOf(q)'
             /\ wpc'[q] = "flush" => buf' \in {FrameOf(q)', <<RestOf(q)'>>, <<>>}
             /\ wpc'[q] \in {"body", "flush"} => ~werr'
  <2>1. CASE q = p
    BY <1>1, <1>2, <1>3, <2>1
  <2>2. CASE q # p
    BY <1>1, <1>2, <2>2
  <2> QED
    BY <2>1, <2>2
<1>6. writeMu' \in Procs \union {"free"} /\ (writeMu' = "free" => buf' = <<>>)
  BY <1>1
<1>7. UNCHANGED <<frame, closed, wpc["closer"]>>
  BY <1>1, <1>2
<1>8. WritersSound'
  BY <1>4, <1>5, <1>6, <1>7 DEF WritersSound
<1> QED
  BY <1>1, <1>2, <1>8

\* First byte and length go into the empty buffer, or an old error comes back.
LEMMA WritesHead ==
  ASSUME WritersSound, WireSound, NEW p \in Procs, WriteHead(p)
  PROVE  WritersSound' /\ WireSound'
<1>1. wpc[p] = "head" /\ UNCHANGED <<frame, wire, closed>>
  BY DEF WriteHead
<1>2. /\ p # "closer" /\ werr \in BOOLEAN
      /\ \A q \in Procs : wpc[q] \notin {"body", "flush"}
  BY <1>1, Alone DEF WritersSound
<1>3. CASE werr
  <2>1. /\ werr' = TRUE /\ buf' = <<>> /\ writeMu' = "free"
        /\ wpc' = [wpc EXCEPT ![p] = "idle"]
    BY <1>2, <1>3 DEF WriteHead, Fails, Return
  <2>2. WritersSound' /\ \A q \in Procs \ {p} : wpc'[q] \notin {"head", "body", "flush"}
    BY <1>1, <2>1, Moves
  <2>3. wpc'[p] = "idle"
    BY <2>1 DEF WritersSound
  <2> QED
    BY <1>1, <1>2, <1>3, <2>1, <2>2, <2>3, WireKept
<1>4. CASE ~werr
  <2>1. /\ UNCHANGED <<writeMu, werr>> /\ wpc' = [wpc EXCEPT ![p] = "body"]
        /\ buf' = buf \o HeadOf(p)
    BY <1>4 DEF WriteHead, HeadOf, FirstOf, LenOf
  <2>2. buf = <<>> /\ HeadOf(p) \in Seq(Token)
    BY <1>1, PiecesOf DEF WritersSound
  <2>3. buf' = HeadOf(p)
    BY <2>1, <2>2, JoinedEmpty
  <2>4. WritersSound' /\ \A q \in Procs \ {p} : wpc'[q] \notin {"head", "body", "flush"}
    BY <1>1, <1>2, <1>4, <2>1, <2>3, Moves
  <2>5. wpc'[p] = "body"
    BY <2>1 DEF WritersSound
  <2> QED
    BY <1>1, <1>2, <2>1, <2>4, <2>5, WireKept
<1> QED
  BY <1>3, <1>4

\* Whole frames stay where they are when bytes follow.
LEMMA WholeStays ==
  ASSUME NEW s, NEW k, Whole(s, k), NEW t \in Seq(Token)
  PROVE  /\ Whole(s \o t, k) /\ Len(s \o t) = Len(s) + Len(t)
         /\ \A i \in 1 .. Len(s) : (s \o t)[i] = s[i]
         /\ \A i \in 1 .. Len(t) : (s \o t)[Len(s) + i] = t[i]
<1> DEFINE u == s \o t
<1>1. s \in Seq(Token) /\ k \in Nat /\ 3 * k <= Len(s)
  BY DEF Whole
<1>2. /\ u \in Seq(Token) /\ Len(u) = Len(s) + Len(t)
      /\ \A i \in 1 .. Len(s) : u[i] = s[i]
      /\ \A i \in 1 .. Len(t) : u[Len(s) + i] = t[i]
  BY <1>1, Joined
<1> HIDE DEF u
<1>3. 3 * k <= Len(u)
  BY SMTT(30), SMTT(60), <1>1, <1>2
<1>4. ASSUME NEW i \in 1 .. k PROVE IsFrame(u, 3 * (i - 1))
  <2>1. IsFrame(s, 3 * (i - 1))
    BY DEF Whole
  <2>2. {3 * (i - 1) + 1, 3 * (i - 1) + 2, 3 * (i - 1) + 3} \subseteq 1 .. Len(s)
    BY SMTT(30), SMTT(60), <1>1
  <2>3. /\ u[3 * (i - 1) + 1] = s[3 * (i - 1) + 1]
        /\ u[3 * (i - 1) + 2] = s[3 * (i - 1) + 2]
        /\ u[3 * (i - 1) + 3] = s[3 * (i - 1) + 3]
    BY <1>2, <2>2
  <2> QED
    BY <2>1, <2>3 DEF IsFrame
<1>5. Whole(u, k)
  BY <1>1, <1>2, <1>3, <1>4 DEF Whole
<1> QED
  BY <1>2, <1>5 DEF u

\* One more whole frame.
LEMMA WholeNext ==
  ASSUME NEW s, NEW k, Whole(s, k), Len(s) = 3 * k + 3, IsFrame(s, 3 * k)
  PROVE  Whole(s, k + 1) /\ Len(s) = 3 * (k + 1)
<1>1. s \in Seq(Token) /\ k \in Nat
  BY DEF Whole
<1>2. k + 1 \in Nat /\ Len(s) = 3 * (k + 1) /\ 3 * (k + 1) <= Len(s)
  BY SMTT(30), SMTT(60), <1>1
<1>3. ASSUME NEW i \in 1 .. k + 1 PROVE IsFrame(s, 3 * (i - 1))
  <2>1. CASE i \in 1 .. k
    BY <2>1 DEF Whole
  <2>2. CASE i = k + 1
    <3>1. 3 * (i - 1) = 3 * k
      BY SMTT(30), SMTT(60), <1>1, <2>2
    <3> QED
      BY <3>1
  <2> QED
    BY SMTT(30), SMTT(60), <1>1, <2>1, <2>2
<1> QED
  BY <1>1, <1>2, <1>3 DEF Whole

\* What p writes is a whole frame, wherever it comes to lie.
LEMMA FrameLies ==
  ASSUME WritersSound, NEW p \in Procs, p # "closer", NEW s, NEW b,
         s[b + 1] = FirstOf(p), s[b + 2] = LenOf(p), s[b + 3] = RestOf(p)
  PROVE  IsFrame(s, b)
<1>1. frame[p].op \in {"none", "text", "pong"} /\ IsLen(frame[p].n)
  BY DEF WritersSound
<1>2. RestOf(p)[2] = frame[p].n
  BY DEF RestOf
<1> QED
  BY <1>1, <1>2 DEF IsFrame, FirstOf, LenOf, RestOf

\* Where the wire ends while p writes: behind whole frames, or behind p's head.
LEMMA WireEnds ==
  ASSUME WritersSound, WireSound, NEW p \in Procs, wpc[p] \in {"body", "flush"}
  PROVE  \E k \in Nat :
           /\ Whole(wire, k)
           /\ IF Spilled(p)
              THEN /\ Len(wire) = 3 * k + 2 /\ wire[3 * k + 1] = FirstOf(p)
                   /\ wire[3 * k + 2] = LenOf(p)
              ELSE Len(wire) = 3 * k
<1>1. \A q \in Procs \ {p} : ~Spilled(q)
  BY Alone DEF Spilled
<1>2. ~werr
  BY DEF WritersSound
<1> QED
  BY <1>1, <1>2 DEF WireSound

\* A failed write leaves at most two pieces of a frame behind the whole ones.
LEMMA Breaks ==
  ASSUME WritersSound, WireSound, NEW p \in Procs, NEW m,
         \/ wpc[p] = "body" /\ m = 2
         \/ wpc[p] = "flush" /\ buf # <<>> /\ m = Len(buf) - 1,
         Broken(p, m), UNCHANGED <<frame, closed>>
  PROVE  WritersSound' /\ WireSound'
<1>1. p # "closer"
  BY Alone
<1>2. /\ werr' = TRUE /\ buf' = <<>> /\ writeMu' = "free"
      /\ wpc' = [wpc EXCEPT ![p] = "idle"]
  BY <1>1 DEF Broken, Fails, Return
<1>3. WritersSound' /\ \A q \in Procs \ {p} : wpc'[q] \notin {"head", "body", "flush"}
  BY <1>2, Moves
<1>4. \A q \in Procs : ~Spilled(q)'
  BY <1>2, <1>3 DEF Spilled, WritersSound
<1>5. PICK n \in 0 .. m : wire' = wire \o SubSeq(buf, 1, n)
  BY DEF Broken
<1>6. PICK k \in Nat :
        /\ Whole(wire, k)
        /\ IF Spilled(p) THEN Len(wire) = 3 * k + 2 ELSE Len(wire) = 3 * k
  BY WireEnds
<1>7. /\ FirstOf(p) \in Token /\ LenOf(p) \in Token /\ RestOf(p) \in Token
      /\ HeadOf(p) = <<FirstOf(p), LenOf(p)>>
      /\ FrameOf(p) = <<FirstOf(p), LenOf(p), RestOf(p)>>
  BY PiecesOf
<1>8. /\ buf \in Seq(Token) /\ m \in 0 .. 2 /\ m <= Len(buf)
      /\ Spilled(p) => m = 0
  <2>1. CASE wpc[p] = "body"
    <3>1. buf = <<FirstOf(p), LenOf(p)>> /\ m = 2 /\ ~Spilled(p)
      BY <1>7, <2>1 DEF WritersSound, Spilled
    <3> QED
      BY SMTT(30), SMTT(60), <1>7, <3>1
  <2>2. CASE wpc[p] = "flush" /\ buf = FrameOf(p)
    <3>1. buf = <<FirstOf(p), LenOf(p), RestOf(p)>> /\ m = Len(buf) - 1
      BY <1>7, <2>2
    <3>2. Spilled(p) => buf = <<RestOf(p)>>
      BY DEF Spilled
    <3> QED
      BY SMTT(30), SMTT(60), <1>7, <3>1, <3>2
  <2>3. CASE wpc[p] = "flush" /\ buf = <<RestOf(p)>>
    BY SMTT(30), SMTT(60), <1>7, <2>3
  <2> QED
    BY <2>1, <2>2, <2>3 DEF WritersSound
<1>9. SubSeq(buf, 1, n) \in Seq(Token) /\ Len(SubSeq(buf, 1, n)) = n
  BY SMTT(30), SMTT(60), <1>8
<1>10. Whole(wire', k) /\ Len(wire') = Len(wire) + n
  BY <1>5, <1>6, <1>9, WholeStays
<1>11. Len(wire') <= 3 * k + 2
  BY SMTT(30), SMTT(60), <1>6, <1>8, <1>10
<1>12. WireSound'
  BY <1>2, <1>4, <1>10, <1>11 DEF WireSound
<1> QED
  BY <1>3, <1>12

\* A frame that goes out behind whole frames, at once or in two parts.
LEMMA GoesOut ==
  ASSUME WritersSound, WireSound, NEW p \in Procs, wpc[p] \in {"body", "flush"},
         WritersSound', werr' = werr, \A q \in Procs : ~Spilled(q)',
         \/ wire' = wire \o FrameOf(p) /\ ~Spilled(p)
         \/ wire' = wire \o <<RestOf(p)>> /\ Spilled(p)
         \/ wire' = wire /\ ~Spilled(p)
  PROVE  WireSound'
<1>1. PICK k \in Nat :
        /\ Whole(wire, k)
        /\ IF Spilled(p)
           THEN /\ Len(wire) = 3 * k + 2 /\ wire[3 * k + 1] = FirstOf(p)
                /\ wire[3 * k + 2] = LenOf(p)
           ELSE Len(wire) = 3 * k
  BY WireEnds
<1>2. /\ FirstOf(p) \in Token /\ LenOf(p) \in Token /\ RestOf(p) \in Token
      /\ FrameOf(p) = <<FirstOf(p), LenOf(p), RestOf(p)>> /\ FrameOf(p) \in Seq(Token)
  BY PiecesOf
<1>3. p # "closer"
  BY Alone
<1>4. CASE wire' = wire /\ ~Spilled(p)
  <2>1. Whole(wire', k) /\ Len(wire') = 3 * k
    BY <1>1, <1>4
  <2>2. Len(wire') <= 3 * k + 2
    BY SMTT(30), SMTT(60), <2>1
  <2> QED
    BY <2>1, <2>2 DEF WireSound
<1>5. ASSUME Whole(wire', k), Len(wire') = 3 * k + 3, wire'[3 * k + 1] = FirstOf(p),
             wire'[3 * k + 2] = LenOf(p), wire'[3 * k + 3] = RestOf(p)
      PROVE  WireSound'
  <2>1. Whole(wire', k + 1) /\ Len(wire') = 3 * (k + 1)
    BY <1>3, <1>5, FrameLies, WholeNext
  <2>2. k + 1 \in Nat /\ Len(wire') <= 3 * (k + 1) + 2
    BY SMTT(30), SMTT(60), <2>1
  <2> QED
    BY <2>1, <2>2 DEF WireSound
<1>6. CASE wire' = wire \o FrameOf(p) /\ ~Spilled(p)
  <2>1. Len(FrameOf(p)) = 3 /\ FrameOf(p)[1] = FirstOf(p) /\ FrameOf(p)[2] = LenOf(p)
        /\ FrameOf(p)[3] = RestOf(p)
    BY <1>2
  <2>2. /\ Whole(wire', k) /\ Len(wire') = Len(wire) + Len(FrameOf(p))
        /\ \A i \in 1 .. Len(FrameOf(p)) : wire'[Len(wire) + i] = FrameOf(p)[i]
    BY <1>1, <1>2, <1>6, WholeStays
  <2>3. /\ Len(wire') = 3 * k + 3 /\ wire'[3 * k + 1] = FirstOf(p)
        /\ wire'[3 * k + 2] = LenOf(p) /\ wire'[3 * k + 3] = RestOf(p)
    BY SMTT(30), SMTT(60), <1>1, <1>6, <2>1, <2>2
  <2> QED
    BY <1>5, <2>2, <2>3
<1>7. CASE wire' = wire \o <<RestOf(p)>> /\ Spilled(p)
  <2>1. <<RestOf(p)>> \in Seq(Token) /\ Len(<<RestOf(p)>>) = 1 /\ <<RestOf(p)>>[1] = RestOf(p)
    BY SMTT(30), SMTT(60), <1>2
  <2>2. /\ Whole(wire', k) /\ Len(wire') = Len(wire) + 1
        /\ \A i \in 1 .. Len(wire) : wire'[i] = wire[i]
        /\ \A i \in 1 .. 1 : wire'[Len(wire) + i] = <<RestOf(p)>>[i]
    BY <1>1, <1>7, <2>1, WholeStays
  <2>3. Len(wire) = 3 * k + 2 /\ wire[3 * k + 1] = FirstOf(p) /\ wire[3 * k + 2] = LenOf(p)
    BY <1>1, <1>7
  <2> HIDE DEF RestOf
  <2>4. /\ Len(wire') = 3 * k + 3 /\ wire'[3 * k + 1] = FirstOf(p)
        /\ wire'[3 * k + 2] = LenOf(p) /\ wire'[3 * k + 3] = RestOf(p)
    BY SMTT(30), SMTT(60), <2>1, <2>2, <2>3
  <2> QED
    BY <1>5, <2>2, <2>4
<1> QED
  BY <1>4, <1>6, <1>7

\* The payload joins the head in the buffer, or spills.
LEMMA WritesBody ==
  ASSUME WritersSound, WireSound, NEW p \in Procs, WriteBody(p)
  PROVE  WritersSound' /\ WireSound'
<1>1. /\ wpc[p] = "body" /\ UNCHANGED <<frame, closed>> /\ buf = HeadOf(p) /\ ~werr
      /\ werr \in BOOLEAN
  BY DEF WriteBody, WritersSound
<1>2. CASE Broken(p, 2)
  BY <1>1, <1>2, Breaks
<1>3. ASSUME wpc' = [wpc EXCEPT ![p] = "flush"], UNCHANGED <<writeMu, werr>>,
             buf' \in {FrameOf(p), <<RestOf(p)>>, <<>>}
      PROVE  /\ WritersSound' /\ wpc'[p] = "flush"
             /\ \A q \in Procs \ {p} : ~Spilled(q)'
  <2>1. WritersSound' /\ \A q \in Procs \ {p} : wpc'[q] \notin {"head", "body", "flush"}
    BY <1>1, <1>3, Moves
  <2>2. wpc'[p] = "flush"
    BY <1>3 DEF WritersSound
  <2> QED
    BY <2>1, <2>2 DEF Spilled
<1>4. /\ FirstOf(p) \in Token /\ LenOf(p) \in Token /\ RestOf(p) \in Token
      /\ HeadOf(p) = <<FirstOf(p), LenOf(p)>> /\ HeadOf(p) \in Seq(Token)
      /\ FrameOf(p) = <<FirstOf(p), LenOf(p), RestOf(p)>>
      /\ FrameOf(p) = Append(HeadOf(p), RestOf(p))
  BY PiecesOf DEF FrameOf
<1>5. FrameOf(p) # <<RestOf(p)>> /\ <<>> # <<RestOf(p)>>
  BY SMTT(30), SMTT(60), <1>4
<1>6. RestOf(p)' = RestOf(p) /\ FirstOf(p)' = FirstOf(p) /\ LenOf(p)' = LenOf(p)
  BY <1>1 DEF RestOf, FirstOf, LenOf
<1>7. ~Spilled(p)
  BY <1>1 DEF Spilled
<1>8. CASE /\ wpc' = [wpc EXCEPT ![p] = "flush"] /\ UNCHANGED <<writeMu, werr>>
           /\ \/ buf' = FrameOf(p) /\ wire' = wire
              \/ buf' = <<>> /\ wire' = wire \o FrameOf(p)
  <2>1. WritersSound' /\ \A q \in Procs \ {p} : ~Spilled(q)'
    BY <1>3, <1>8
  <2>2. ~Spilled(p)'
    BY <1>5, <1>6, <1>8 DEF Spilled
  <2> QED
    BY <1>1, <1>7, <1>8, <2>1, <2>2, GoesOut
<1>9. CASE /\ wpc' = [wpc EXCEPT ![p] = "flush"] /\ UNCHANGED <<writeMu, werr>>
           /\ buf' = <<RestOf(p)>> /\ wire' = wire \o HeadOf(p)
  <2>1. WritersSound' /\ wpc'[p] = "flush" /\ \A q \in Procs \ {p} : ~Spilled(q)'
    BY <1>3, <1>9
  <2>2. Spilled(p)'
    BY <1>6, <1>9, <2>1 DEF Spilled
  <2>3. PICK k \in Nat : Whole(wire, k) /\ Len(wire) = 3 * k
    BY <1>1, <1>7, WireEnds
  <2>4. Len(HeadOf(p)) = 2 /\ HeadOf(p)[1] = FirstOf(p) /\ HeadOf(p)[2] = LenOf(p)
    BY <1>4
  <2>5. /\ Whole(wire', k) /\ Len(wire') = Len(wire) + Len(HeadOf(p))
        /\ \A i \in 1 .. Len(HeadOf(p)) : wire'[Len(wire) + i] = HeadOf(p)[i]
    BY <1>4, <1>9, <2>3, WholeStays
  <2>6. /\ Len(wire') = 3 * k + 2 /\ Len(wire') <= 3 * k + 2
        /\ wire'[3 * k + 1] = FirstOf(p) /\ wire'[3 * k + 2] = LenOf(p)
    BY SMTT(30), SMTT(60), <2>3, <2>4, <2>5
  <2>7. \A q \in Procs : Spilled(q)' => q = p
    BY <2>1
  <2> QED
    BY <1>6, <2>1, <2>2, <2>5, <2>6, <2>7 DEF WireSound
<1>10. \/ Broken(p, 2)
       \/ /\ wpc' = [wpc EXCEPT ![p] = "flush"] /\ UNCHANGED <<writeMu, werr>>
          /\ \/ buf' = FrameOf(p) /\ wire' = wire
             \/ buf' = <<>> /\ wire' = wire \o FrameOf(p)
             \/ buf' = <<RestOf(p)>> /\ wire' = wire \o HeadOf(p)
  BY <1>1, <1>4 DEF WriteBody, RestOf
<1> QED
  BY <1>2, <1>8, <1>9, <1>10

\* Flush adds what is missing of one whole frame, or fails.
LEMMA Flushes ==
  ASSUME WritersSound, WireSound, NEW p \in Procs, Flush(p)
  PROVE  WritersSound' /\ WireSound'
<1>1. /\ wpc[p] = "flush" /\ UNCHANGED <<frame, closed>>
      /\ buf \in {FrameOf(p), <<RestOf(p)>>, <<>>} /\ werr \in BOOLEAN
  BY DEF Flush, WritersSound
<1>2. CASE buf # <<>> /\ Broken(p, Len(buf) - 1)
  BY <1>1, <1>2, Breaks
<1>3. CASE /\ wire' = wire \o buf /\ buf' = <<>> /\ writeMu' = "free"
           /\ Return(p, TRUE) /\ UNCHANGED werr
  <2>1. p # "closer"
    BY <1>1, Alone
  <2>2. wpc' = [wpc EXCEPT ![p] = "idle"]
    BY <1>3, <2>1 DEF Return
  <2>3. WritersSound' /\ \A q \in Procs \ {p} : wpc'[q] \notin {"head", "body", "flush"}
    BY <1>1, <1>3, <2>2, Moves
  <2>4. \A q \in Procs : ~Spilled(q)'
    BY <2>2, <2>3 DEF Spilled, WritersSound
  <2>5. /\ RestOf(p) \in Token
        /\ FrameOf(p) = <<FirstOf(p), LenOf(p), RestOf(p)>>
    BY PiecesOf
  <2>6. FrameOf(p) # <<RestOf(p)>> /\ <<>> # <<RestOf(p)>>
    BY SMTT(30), SMTT(60), <2>5
  <2>7. buf = <<>> => wire \o buf = wire
    <3>1. wire \in Seq(Token)
      BY DEF WireSound, Whole
    <3> QED
      BY SMTT(30), SMTT(60), <3>1
  <2>8. \/ wire' = wire \o FrameOf(p) /\ ~Spilled(p)
        \/ wire' = wire \o <<RestOf(p)>> /\ Spilled(p)
        \/ wire' = wire /\ ~Spilled(p)
    BY <1>1, <1>3, <2>6, <2>7 DEF Spilled
  <2> QED
    BY <1>1, <1>3, <2>3, <2>4, <2>8, GoesOut
<1> QED
  BY <1>2, <1>3 DEF Flush
-----------------------------------------------------------------------------
(* ReadMessage.                                                            *)

\* What begins a beginning begins the whole.
LEMMA PrefixTransitive ==
  ASSUME NEW S, NEW r \in Seq(S), NEW s \in Seq(S), NEW t \in Seq(S),
         Prefix(r, s), Prefix(s, t)
  PROVE  Prefix(r, t)
BY SMTT(30), SMTT(60) DEF Prefix

\* A sequence begins itself, also with one more element.
LEMMA PrefixAppend ==
  ASSUME NEW S, NEW s \in Seq(S), NEW e \in S
  PROVE  Prefix(s, s) /\ Prefix(s, Append(s, e))
BY SMTT(30), SMTT(60), Sent DEF Prefix

\* The payload that the reader gets out of a frame is the one the peer put in.
LEMMA PayloadRead ==
  ASSUME NEW payload \in Payloads, NEW f,
         f.len = LenBytes(Len(payload)), f.body = Mask(payload)
  PROVE  /\ f.len \in Seq(Nat) /\ f.body \in Seq(Byte) /\ payload \in Seq(Byte)
         /\ IsLen(PayloadLen(f.len)) /\ Payload(f) = payload
<1>1. payload \in Seq(Byte) /\ IsLen(Len(payload))
  BY WSConnAssumption
<1>2. f.len \in Seq(Nat) /\ PayloadLen(f.len) = Len(payload)
  BY <1>1, LengthReadBack
<1>3. f.body \in Seq(Byte) /\ Mask(f.body) = payload
  BY <1>1, Unmasked
<1>4. Len(payload) \in Nat /\ (Len(payload) = 0 => payload = <<>>)
  BY SMTT(30), SMTT(60), <1>1
<1>5. Payload(f) = payload
  BY SMTT(30), SMTT(60), <1>2, <1>3, <1>4 DEF Payload
<1> QED
  BY <1>1, <1>2, <1>3, <1>5


\* The steps that read no frame and send none.
LEMMA TalkKept ==
  ASSUME PeerSound, ReaderSound, UNCHANGED <<in, peerOp, said, saying, op, fragments, got>>,
         reading' = "run" => reading = "run"
  PROVE  PeerSound' /\ ReaderSound'
<1>1. Now' = Now /\ \A i \in Nat : Before(i)' = Before(i)
  BY DEF Now, Before
<1>2. PeerSound'
  BY ZenonT(60), <1>1 DEF PeerSound, Before, After, Prefix, FrameSound, Now
<1>3. ReaderSound'
  BY <1>1 DEF ReaderSound, Prefix
<1> QED
  BY <1>2, <1>3

\* A frame is read: the next one is now the first.
LEMMA FrameRead ==
  ASSUME PeerSound, in # <<>>, in' = Tail(in), UNCHANGED <<peerOp, said, saying>>
  PROVE  /\ PeerSound' /\ FrameSound(Head(in)) /\ Before(1) = Head(in).before
         /\ Before(1)' = After(Head(in)) /\ Prefix(Before(1)'.said, said)
<1>1. in \in Seq(Frames) /\ Now \in History /\ Now' = Now
  BY DEF PeerSound, Now
<1>2. /\ in' \in Seq(Frames) /\ Len(in) \in Nat /\ Len(in) # 0 /\ Len(in') = Len(in) - 1
      /\ Head(in) = in[1] /\ \A i \in 1 .. Len(in') : in'[i] = in[i + 1]
  BY <1>1, Received
<1>3. \A i \in Nat : Before(i)' = IF i <= Len(in') THEN in'[i].before ELSE Now
  BY <1>1 DEF Before
<1>4. ASSUME NEW i \in Nat \ {0} PROVE Before(i)' = Before(i + 1)
  <2>1. CASE i <= Len(in')
    <3>1. in'[i] = in[i + 1] /\ i + 1 <= Len(in)
      BY SMTT(30), SMTT(60), <1>2, <2>1
    <3> QED
      BY <1>3, <2>1, <3>1 DEF Before
  <2>2. CASE ~(i <= Len(in'))
    <3>1. ~(i + 1 <= Len(in))
      BY SMTT(30), SMTT(60), <1>2, <2>2
    <3> QED
      BY <1>3, <2>2, <3>1 DEF Before
  <2> QED
    BY <2>1, <2>2
<1>5. \A i \in 1 .. Len(in) : /\ FrameSound(in[i]) /\ After(in[i]) = Before(i + 1)
                              /\ Prefix(in[i].before.said, said)
  BY DEF PeerSound
<1>6. ASSUME NEW i \in 1 .. Len(in')
      PROVE  /\ FrameSound(in'[i]) /\ After(in'[i]) = Before(i + 1)'
             /\ Prefix(in'[i].before.said, said)
  <2>1. i + 1 \in 1 .. Len(in) /\ in'[i] = in[i + 1] /\ i + 1 \in Nat \ {0}
    BY SMTT(30), SMTT(60), <1>2
  <2>2. Before(i + 1)' = Before((i + 1) + 1)
    BY <1>4, <2>1
  <2> QED
    BY <1>5, <2>1, <2>2
<1>7. PeerSound'
  <2>1. \A i \in 1 .. Len(in') : /\ FrameSound(in'[i])
                                 /\ After(in'[i]) = Before(i + 1)'
                                 /\ Prefix(in'[i].before.said, said')
    BY <1>6
  <2>2. peerOp' = "none" => saying' = <<>>
    BY DEF PeerSound
  <2> QED
    BY <1>1, <1>2, <2>1, <2>2 DEF PeerSound
<1>8. FrameSound(Head(in)) /\ Before(1) = Head(in).before
  BY SMTT(30), SMTT(60), <1>2, <1>5 DEF Before
<1>9. Before(1)' = After(Head(in)) /\ Before(1)' = Before(2)
  <2>1. Before(1)' = Before(1 + 1)
    BY SMTT(30), SMTT(60), <1>4
  <2> QED
    BY SMTT(30), SMTT(60), <1>2, <1>5, <2>1
<1>10. Prefix(Before(2).said, said)
  <2>1. CASE 2 <= Len(in)
    BY SMTT(30), SMTT(60), <1>2, <1>5, <2>1 DEF Before
  <2>2. CASE ~(2 <= Len(in))
    <3>1. Before(2).said = said
      BY <2>2 DEF Before, Now
    <3> QED
      BY SMTT(30), SMTT(60), <3>1 DEF Prefix
  <2> QED
    BY <2>1, <2>2
<1> QED
  BY <1>7, <1>8, <1>9, <1>10

\* A control frame, or an error, leaves the message alone.
LEMMA MessageKept ==
  ASSUME PeerSound, ReaderSound, in # <<>>, in' = Tail(in),
         UNCHANGED <<peerOp, said, saying, op, fragments, got>>,
         reading' = "run" => reading = "run" /\ Head(in).op \notin {"text", "cont"}
  PROVE  PeerSound' /\ ReaderSound'
<1>1. PeerSound' /\ Before(1) = Head(in).before /\ Before(1)' = After(Head(in))
  BY FrameRead
<1>2. reading' = "run" => Before(1)' = Before(1)
  BY <1>1 DEF After
<1>3. Prefix(got', said')
  BY DEF ReaderSound
<1> QED
  BY <1>1, <1>2, <1>3 DEF ReaderSound

\* A frame of a message extends what the reader has by what the peer said with it.
LEMMA DataRead ==
  ASSUME PeerSound, ReaderSound, ReadData
  PROVE  PeerSound' /\ ReaderSound'
<1> DEFINE f == Head(in)
           h == f.before
           m == Payload(f)
<1>1. /\ in # <<>> /\ in' = Tail(in) /\ UNCHANGED <<peerOp, said, saying>>
      /\ reading = "run" /\ reading' = "run" /\ f.op \in {"text", "cont"}
  BY DEF ReadData, Frame, Reading
<1>2. /\ PeerSound' /\ FrameSound(f) /\ Before(1) = h
      /\ Before(1)' = After(f) /\ Prefix(Before(1)'.said, said)
  BY <1>1, FrameRead
<1>3. got = h.said /\ fragments = h.saying /\ op = h.op
  BY <1>1, <1>2 DEF ReaderSound
<1>4. /\ m \in Seq(Byte) /\ h.said \in Seq(Seq(Byte)) /\ h.saying \in Seq(Byte)
      /\ f.op = "text" => h.saying = <<>> /\ h.op = "none"
      /\ f.op = "cont" => h.op = "text"
  BY <1>2 DEF FrameSound, History
<1>5. h.saying \o m \in Seq(Byte) /\ <<>> \o m = m
  BY <1>4, JoinedEmpty, Joined
<1>6. CASE f.fin
  <2>1. /\ got' = Append(got, IF f.op = "text" THEN m ELSE fragments \o m)
        /\ op' = "none" /\ fragments' = <<>>
    BY <1>6 DEF ReadData
  <2>2. (IF f.op = "text" THEN m ELSE fragments \o m) = h.saying \o m
    BY <1>1, <1>3, <1>4, <1>5
  <2>3. Before(1)' = [said |-> Append(h.said, h.saying \o m), saying |-> <<>>, op |-> "none"]
    BY <1>1, <1>2, <1>6 DEF After
  <2> HIDE DEF f, h, m
  <2> DEFINE e == h.saying \o m
             t == Append(h.said, e)
  <2>4. got' = t /\ Before(1)' = [said |-> t, saying |-> <<>>, op |-> "none"]
    BY <1>3, <2>1, <2>2, <2>3
  <2>5. got' \in Seq(Seq(Byte)) /\ fragments' \in Seq(Byte)
    <3>1. h.said \in Seq(Seq(Byte)) /\ e \in Seq(Byte)
      BY <1>4, <1>5
    <3> HIDE DEF e
    <3>2. t \in Seq(Seq(Byte))
      BY <3>1, Sent
    <3>3. fragments' \in Seq(Byte)
      BY SMTT(30), SMTT(60), <2>1
    <3> QED
      BY <2>4, <3>2, <3>3
  <2> HIDE DEF t
  <2>6. got' = Before(1)'.said /\ fragments' = Before(1)'.saying /\ op' = Before(1)'.op
    BY SMTT(30), SMTT(60), <2>1, <2>4
  <2> QED
    BY <1>1, <1>2, <2>1, <2>5, <2>6 DEF ReaderSound
<1>7. CASE ~f.fin
  <2>1. UNCHANGED got /\ fragments' = fragments \o m /\ op' = "text"
    BY <1>1, <1>3, <1>4, <1>7 DEF ReadData, Collect
  <2>2. Before(1)' = [said |-> h.said, saying |-> h.saying \o m, op |-> "text"]
    BY <1>1, <1>2, <1>7 DEF After
  <2> HIDE DEF f, h, m
  <2>3. got' = Before(1)'.said /\ fragments' = Before(1)'.saying /\ op' = Before(1)'.op
    BY SMTT(30), SMTT(60), <1>3, <2>1, <2>2
  <2>4. got' \in Seq(Seq(Byte)) /\ fragments' \in Seq(Byte)
    BY <1>3, <1>4, <1>5, <2>1
  <2> QED
    BY <1>1, <1>2, <2>1, <2>3, <2>4 DEF ReaderSound
<1> QED
  BY <1>6, <1>7

\* The peer sends a frame: it is the last under way, and what the peer had said
\* is now told before it.
LEMMA FrameSent ==
  ASSUME PeerSound, ReaderSound, PeerSends
  PROVE  PeerSound' /\ ReaderSound'
<1>1. PICK o \in {"text", "cont", "ping", "pong", "close"}, fin \in BOOLEAN,
           payload \in Payloads :
        /\ o = "text" => peerOp = "none"
        /\ o = "cont" => peerOp # "none"
        /\ in' = Append(in, [fin |-> fin, op |-> o, len |-> LenBytes(Len(payload)),
                             body |-> Mask(payload),
                             before |-> [said |-> said, saying |-> saying, op |-> peerOp]])
        /\ IF o \notin {"text", "cont"} THEN UNCHANGED <<peerOp, said, saying>>
           ELSE IF fin
           THEN /\ peerOp' = "none" /\ said' = Append(said, saying \o payload)
                /\ saying' = <<>>
           ELSE peerOp' = "text" /\ saying' = saying \o payload /\ UNCHANGED said
  BY ZenonT(60) DEF PeerSends
<1> DEFINE f == [fin |-> fin, op |-> o, len |-> LenBytes(Len(payload)),
                 body |-> Mask(payload), before |-> Now]
<1>2. in' = Append(in, f) /\ UNCHANGED <<op, fragments, got, reading>>
  BY <1>1 DEF Now, PeerSends, read
<1>3. in \in Seq(Frames) /\ Now \in History
  BY DEF PeerSound
<1>4. /\ f.fin = fin /\ f.op = o /\ f.before = Now
      /\ f.len = LenBytes(Len(payload)) /\ f.body = Mask(payload)
  OBVIOUS
<1>5. /\ f.len \in Seq(Nat) /\ f.body \in Seq(Byte) /\ payload \in Seq(Byte)
      /\ IsLen(PayloadLen(f.len)) /\ Payload(f) = payload
  <2> HIDE DEF f
  <2> QED
    BY <1>4, PayloadRead
<1>6. f \in Frames
  BY <1>3, <1>4, <1>5 DEF Frames
<1> HIDE DEF f
<1>7. said \in Seq(Seq(Byte)) /\ saying \in Seq(Byte) /\ peerOp \in {"none", "text"}
  BY <1>3 DEF Now, History
<1>8. FrameSound(f)
  BY SMTT(30), SMTT(60), <1>1, <1>3, <1>4, <1>5, <1>7
  DEF FrameSound, Now, PeerSound
<1>9. saying \o payload \in Seq(Byte)
  BY <1>5, <1>7, Joined
<1>10. /\ Now' = After(f) /\ Now' \in History /\ (peerOp' = "none" => saying' = <<>>)
       /\ Prefix(said, said') /\ said' \in Seq(Seq(Byte))
  <2>1. CASE o \notin {"text", "cont"}
    <3>1. UNCHANGED <<peerOp, said, saying>>
      BY <1>1, <2>1
    <3>2. After(f) = Now
      BY <1>4, <2>1 DEF After
    <3> QED
      BY <1>3, <1>7, <3>1, <3>2, PrefixAppend DEF Now, PeerSound, Prefix
  <2>2. CASE o \in {"text", "cont"} /\ fin
    <3>1. /\ peerOp' = "none" /\ said' = Append(said, saying \o payload)
          /\ saying' = <<>>
      BY <1>1, <2>2
    <3>2. After(f) = [said |-> Append(said, saying \o payload), saying |-> <<>>, op |-> "none"]
      BY SMTT(30), SMTT(60), <1>4, <1>5, <2>2 DEF After, Now
    <3>3. said' \in Seq(Seq(Byte)) /\ Prefix(said, said')
      BY <1>7, <1>9, <3>1, PrefixAppend, Sent
    <3> QED
      BY SMTT(30), SMTT(60), <3>1, <3>2, <3>3 DEF Now, History
  <2>3. CASE o \in {"text", "cont"} /\ ~fin
    <3>1. peerOp' = "text" /\ saying' = saying \o payload /\ UNCHANGED said
      BY <1>1, <2>3
    <3>2. After(f) = [said |-> said, saying |-> saying \o payload, op |-> "text"]
      BY SMTT(30), SMTT(60), <1>4, <1>5, <2>3 DEF After, Now
    <3> QED
      BY SMTT(30), SMTT(60), <1>7, <1>9, <3>1, <3>2 DEF Now, History, Prefix
  <2> QED
    BY <2>1, <2>2, <2>3
<1>11. /\ in' \in Seq(Frames) /\ Len(in) \in Nat /\ Len(in') = Len(in) + 1
       /\ in'[Len(in) + 1] = f /\ \A i \in 1 .. Len(in) : in'[i] = in[i]
  BY SMTT(30), SMTT(60), <1>2, <1>3, <1>6, Sent
<1>12. \A i \in Nat : Before(i)' = IF i <= Len(in') THEN in'[i].before ELSE Now'
  BY DEF Before
<1>13. ASSUME NEW i \in 1 .. Len(in) + 1 PROVE Before(i)' = Before(i)
  <2>1. CASE i = Len(in) + 1
    BY SMTT(30), SMTT(60), <1>4, <1>11, <1>12, <2>1 DEF Before
  <2>2. CASE i \in 1 .. Len(in)
    BY SMTT(30), SMTT(60), <1>11, <1>12, <2>2 DEF Before
  <2> QED
    BY SMTT(30), SMTT(60), <1>11, <2>1, <2>2
<1>14. ASSUME NEW i \in 1 .. Len(in')
       PROVE  /\ FrameSound(in'[i]) /\ After(in'[i]) = Before(i + 1)'
              /\ Prefix(in'[i].before.said, said')
  <2>1. CASE i = Len(in) + 1
    <3>1. in'[i] = f /\ Before(i + 1)' = Now'
      BY SMTT(30), SMTT(60), <1>11, <1>12, <2>1
    <3>2. in'[i].before.said = said
      BY SMTT(30), SMTT(60), <1>4, <3>1 DEF Now
    <3> QED
      BY <1>8, <1>10, <3>1, <3>2
  <2>2. CASE i \in 1 .. Len(in)
    <3>1. in'[i] = in[i] /\ i + 1 \in 1 .. Len(in) + 1
      BY SMTT(30), SMTT(60), <1>11, <2>2
    <3>2. /\ FrameSound(in[i]) /\ After(in[i]) = Before(i + 1)
          /\ Prefix(in[i].before.said, said)
      BY <2>2 DEF PeerSound
    <3>3. in[i].before.said \in Seq(Seq(Byte))
      BY <3>2 DEF FrameSound, History
    <3>4. Prefix(in[i].before.said, said')
      BY <1>7, <1>10, <3>2, <3>3, PrefixTransitive
    <3> QED
      BY <1>13, <3>1, <3>2, <3>4
  <2> QED
    BY SMTT(30), SMTT(60), <1>11, <2>1, <2>2
<1>15. PeerSound'
  BY <1>10, <1>11, <1>14 DEF PeerSound
<1>16. Before(1)' = Before(1)
  BY SMTT(30), SMTT(60), <1>11, <1>13
<1>17. Prefix(got', said')
  BY <1>2, <1>7, <1>10, PrefixTransitive DEF ReaderSound
<1> QED
  BY <1>2, <1>15, <1>16, <1>17 DEF ReaderSound
-----------------------------------------------------------------------------
\* Before the upgrade.
LEMMA ConnInit == Init => ConnInv
<1> SUFFICES ASSUME Init PROVE ConnInv
  OBVIOUS
<1>1. "closer" \in Procs /\ "free" \notin Procs
  BY ProcsApart
<1>2. IsLen(0)
  BY SMTT(30), SMTT(60) DEF IsLen
<1>3. WritersSound
  BY <1>1, <1>2 DEF Init, Nil, WritersSound
<1>4. WireSound
  <2>1. wire = <<>> /\ \A p \in Procs : wpc[p] = "idle"
    BY DEF Init
  <2>2. Whole(wire, 0) /\ Len(wire) = 3 * 0 /\ Len(wire) <= 3 * 0 + 2
    BY SMTT(30), SMTT(60), <2>1 DEF Whole
  <2> QED
    BY <2>1, <2>2 DEF WireSound, Spilled
<1>5. PeerSound /\ ReaderSound
  <2>1. /\ in = <<>> /\ said = <<>> /\ saying = <<>> /\ peerOp = "none" /\ got = <<>>
        /\ fragments = <<>> /\ op = "none"
    BY DEF Init
  <2>2. Now \in History /\ Before(1) = Now
    BY SMTT(30), SMTT(60), <2>1 DEF Now, History, Before
  <2> QED
    BY SMTT(30), SMTT(60), <2>1, <2>2 DEF PeerSound, ReaderSound, Prefix, Now
<1> QED
  BY <1>3, <1>4, <1>5 DEF ConnInv

\* Every step of the peer, the reader, the writers and Close keeps the invariant.
LEMMA ConnNext == ConnInv /\ [Next]_vars => ConnInv'
<1> SUFFICES ASSUME ConnInv, [Next]_vars PROVE ConnInv'
  OBVIOUS
<1>1. WritersSound /\ WireSound /\ PeerSound /\ ReaderSound
  BY DEF ConnInv
<1>2. /\ "reader" \in Procs /\ "closer" \in Procs /\ "reader" # "closer"
      /\ Writers \subseteq Procs /\ "closer" \notin Writers
  BY ProcsApart
<1>3. CASE PeerSends
  <2>1. UNCHANGED <<wpc, frame, writeMu, buf, werr, wire, closed>>
    BY <1>3 DEF PeerSends, out
  <2> QED
    BY <1>1, <1>3, <2>1, FrameSent, WritersKept, WireKept DEF ConnInv
<1>4. CASE Reset \/ Upgrade \/ ReadFails \/ CloseSock
  <2>1. /\ UNCHANGED <<wpc, frame, writeMu, buf, werr, wire, closed>>
        /\ UNCHANGED <<in, peerOp, said, saying, op, fragments, got>>
        /\ reading' = "run" => reading = "run"
    BY <1>4 DEF Reset, Upgrade, ReadFails, CloseSock, out, peer, read
  <2> QED
    BY <1>1, <2>1, TalkKept, WritersKept, WireKept DEF ConnInv
<1>5. CASE ReadTooLarge \/ ReadPong
  <2>1. /\ UNCHANGED <<wpc, frame, writeMu, buf, werr, wire, closed>>
        /\ in # <<>> /\ in' = Tail(in)
        /\ UNCHANGED <<peerOp, said, saying, op, fragments, got>>
        /\ reading' = "run" => reading = "run" /\ Head(in).op \notin {"text", "cont"}
    BY <1>5 DEF ReadTooLarge, ReadPong, Frame, Reading, out, read
  <2> QED
    BY <1>1, <2>1, MessageKept, WritersKept, WireKept DEF ConnInv
<1>6. CASE ReadData
  <2>1. UNCHANGED <<wpc, frame, writeMu, buf, werr, wire, closed>>
    BY <1>6 DEF ReadData, out
  <2> QED
    BY <1>1, <1>6, <2>1, DataRead, WritersKept, WireKept DEF ConnInv
<1>7. CASE ReadPing
  <2> DEFINE n == PayloadLen(Head(in).len)
             f == [op |-> "pong", n |-> n]
  <2>1. /\ in # <<>> /\ in' = Tail(in) /\ Head(in).op = "ping"
        /\ UNCHANGED <<peerOp, said, saying, op, fragments, got, reading>>
        /\ reading = "run" /\ wpc["reader"] = "idle"
        /\ frame' = [frame EXCEPT !["reader"] = f] /\ wpc' = [wpc EXCEPT !["reader"] = "check"]
        /\ UNCHANGED <<writeMu, buf, werr, wire, closed>>
    BY <1>7 DEF ReadPing, Frame, Reading, read
  <2>2. PeerSound' /\ ReaderSound'
    BY <1>1, <2>1, MessageKept
  <2>3. IsLen(n) /\ n \in Nat
    <3>1. FrameSound(Head(in))
      BY <1>1, <2>1, FrameRead
    <3> QED
      BY SMTT(30), SMTT(60), <3>1 DEF FrameSound, IsLen
  <2> HIDE DEF n
  <2>4. f \in [op : {"text", "pong", "close"}, n : Nat] /\ IsLen(f.n) /\ f.op # "close"
    BY <2>3
  <2> HIDE DEF f
  <2>5. closed' \in BOOLEAN /\ (closed \/ "reader" = "closer" => closed')
    BY <1>1, <1>2, <2>1 DEF WritersSound
  <2>6. WritersSound'
    BY <1>1, <1>2, <2>1, <2>4, <2>5, Begins
  <2> QED
    BY <1>1, <1>2, <2>1, <2>2, <2>6, WireKeptBegin DEF ConnInv
<1>8. ASSUME SetClosed, wpc["closer"] = "idle", UNCHANGED <<writeMu, buf, werr, wire>>
      PROVE  WritersSound' /\ WireSound'
  <2> DEFINE f == [op |-> "close", n |-> 0]
  <2>1. /\ closed' = TRUE /\ frame' = [frame EXCEPT !["closer"] = f]
        /\ wpc' = [wpc EXCEPT !["closer"] = "check"]
    BY <1>8 DEF SetClosed
  <2>2. f \in [op : {"text", "pong", "close"}, n : Nat] /\ IsLen(f.n)
    BY SMTT(30), SMTT(60) DEF IsLen
  <2> HIDE DEF f
  <2>3. closed' \in BOOLEAN /\ (closed \/ "closer" = "closer" => closed')
    BY <2>1
  <2> QED
    BY <1>1, <1>2, <1>8, <2>1, <2>2, <2>3, Begins, WireKeptBegin
<1>9. CASE Close
  <2>1. /\ wpc["closer"] = "idle" /\ SetClosed /\ UNCHANGED <<writeMu, buf, werr, wire>>
        /\ UNCHANGED <<in, peerOp, said, saying, op, fragments, got, reading>>
    BY <1>9 DEF Close, peer, read
  <2> QED
    BY <1>1, <1>8, <2>1, TalkKept DEF ConnInv
<1>10. CASE ReadClose
  <2>1. /\ in # <<>> /\ in' = Tail(in) /\ reading' = "eof"
        /\ UNCHANGED <<peerOp, said, saying, op, fragments, got, writeMu, buf, werr, wire>>
    BY <1>10 DEF ReadClose, Frame
  <2>2. PeerSound' /\ ReaderSound'
    BY <1>1, <2>1, MessageKept
  <2>3. WritersSound' /\ WireSound'
    <3>1. CASE wpc["closer"] = "idle"
      BY <1>8, <1>10, <2>1, <3>1 DEF ReadClose
    <3>2. CASE wpc["closer"] # "idle"
      <4>1. UNCHANGED <<wpc, frame, closed>>
        BY <1>10, <3>2 DEF ReadClose
      <4> QED
        BY <1>1, <2>1, <4>1, WritersKept, WireKept
    <3> QED
      BY <3>1, <3>2
  <2> QED
    BY <2>2, <2>3 DEF ConnInv
<1>11. ASSUME NEW w \in Writers, WriteMessage(w) PROVE ConnInv'
  <2>1. PICK n \in Lens : frame' = [frame EXCEPT ![w] = [op |-> "text", n |-> n]]
    BY <1>11 DEF WriteMessage
  <2>2. /\ wpc[w] = "idle" /\ wpc' = [wpc EXCEPT ![w] = "check"]
        /\ UNCHANGED <<writeMu, buf, werr, wire, closed>>
        /\ UNCHANGED <<in, peerOp, said, saying, op, fragments, got, reading>>
    BY <1>11 DEF WriteMessage, peer, read
  <2> DEFINE f == [op |-> "text", n |-> n]
  <2>3. IsLen(n) /\ n \in Nat
    BY SMTT(30), SMTT(60), WSConnAssumption DEF IsLen
  <2>4. f \in [op : {"text", "pong", "close"}, n : Nat] /\ IsLen(f.n) /\ f.op # "close"
    BY <2>3
  <2>5. frame' = [frame EXCEPT ![w] = f]
    BY <2>1
  <2> HIDE DEF f
  <2>6. closed' \in BOOLEAN /\ (closed \/ w = "closer" => closed')
    BY <1>1, <1>2, <2>2 DEF WritersSound
  <2>7. WritersSound'
    BY <1>1, <1>2, <2>2, <2>4, <2>5, <2>6, Begins
  <2> QED
    BY <1>1, <1>2, <2>2, <2>5, <2>7, TalkKept, WireKeptBegin DEF ConnInv
<1>12. ASSUME NEW p \in Procs, WriteFrame(p) PROVE ConnInv'
  <2>1. /\ UNCHANGED <<in, peerOp, said, saying, op, fragments, got>>
        /\ reading' = "run" => reading = "run"
    <3>1. CASE CheckClosed(p) \/ Lock(p)
      BY <3>1 DEF CheckClosed, Lock, Return, peer, read
    <3>2. CASE WriteHead(p)
      BY <3>2 DEF WriteHead, Fails, Return, peer
    <3>3. CASE WriteBody(p)
      BY <3>3 DEF WriteBody, Broken, Fails, Return, peer
    <3>4. CASE Flush(p)
      BY <3>4 DEF Flush, Broken, Fails, Return, peer
    <3> QED
      BY <1>12, <3>1, <3>2, <3>3, <3>4 DEF WriteFrame
  <2>2. PeerSound' /\ ReaderSound'
    BY <1>1, <2>1, TalkKept
  <2>3. WritersSound' /\ WireSound'
    BY <1>1, <1>12, ChecksFlag, TakesLock, WritesHead, WritesBody, Flushes DEF WriteFrame
  <2> QED
    BY <2>2, <2>3 DEF ConnInv
<1>13. CASE UNCHANGED vars
  <2>1. /\ UNCHANGED <<wpc, frame, writeMu, buf, werr, wire, closed>>
        /\ UNCHANGED <<in, peerOp, said, saying, op, fragments, got, reading>>
    BY <1>13 DEF vars, out, peer, read
  <2> QED
    BY <1>1, <2>1, TalkKept, WritersKept, WireKept DEF ConnInv
<1> QED
  BY <1>3, <1>4, <1>5, <1>6, <1>7, <1>9, <1>10, <1>11, <1>12, <1>13
  DEF Next, ReadMessage

\* The invariant of the connection.
LEMMA ConnInvariance == Spec => []ConnInv
BY ConnInit, ConnNext, PTL DEF Spec

\* Whatever goroutines call WriteFrame, whenever the writer spills or fails and
\* Close comes between: a peer that parses the bytes sees whole frames with
\* lengths that fit, and a cut one only at the end.
THEOREM FramesStayWhole == Spec => []FramesWhole
<1>1. ConnInv => FramesWhole
  <2> SUFFICES ASSUME ConnInv PROVE FramesWhole
    OBVIOUS
  <2>1. PICK k \in Nat :
          /\ Whole(wire, k) /\ Len(wire) <= 3 * k + 2
          /\ ~werr /\ (\A p \in Procs : ~Spilled(p)) => Len(wire) = 3 * k
    BY DEF ConnInv, WireSound
  <2>2. Len(wire) \in Nat /\ 3 * k <= Len(wire)
    BY SMTT(30), SMTT(60), <2>1 DEF Whole
  <2>3. Len(wire) \div 3 = k
    BY SMTT(30), SMTT(60), <2>1, <2>2
  <2>4. ASSUME NEW i \in 1 .. Len(wire) \div 3
        PROVE  LET b == 3 * (i - 1) IN
               /\ wire[b + 1][1] = "first" /\ wire[b + 2][1] = "len"
               /\ LenSize(wire[b + 2][2][1]) = Len(wire[b + 2][2])
               /\ wire[b + 3] = <<"payload", PayloadLen(wire[b + 2][2])>>
    <3> DEFINE b == 3 * (i - 1)
               n == wire[b + 3][2]
    <3>3. IsFrame(wire, b)
      BY <2>1, <2>3 DEF Whole
    <3>4. /\ wire[b + 1] \in {"first"} \X {"none", "text", "pong"} /\ IsLen(n)
          /\ wire[b + 2] = <<"len", LenBytes(n)>> /\ wire[b + 3] = <<"payload", n>>
      BY <3>3 DEF IsFrame
    <3> HIDE DEF b, n
    <3>5. /\ PayloadLen(LenBytes(n)) = n
          /\ LenSize(LenBytes(n)[1]) = Len(LenBytes(n))
      BY <3>4, LengthReadBack
    <3>6. wire[b + 1][1] = "first" /\ wire[b + 2][1] = "len" /\ wire[b + 2][2] = LenBytes(n)
      BY SMTT(30), SMTT(60), <3>4
    <3>7. /\ wire[b + 1][1] = "first" /\ wire[b + 2][1] = "len"
          /\ LenSize(wire[b + 2][2][1]) = Len(wire[b + 2][2])
          /\ wire[b + 3] = <<"payload", PayloadLen(wire[b + 2][2])>>
      BY <3>4, <3>5, <3>6
    <3> QED
      BY <3>7 DEF b
  <2>5. Len(wire) % 3 # 0 => werr \/ writeMu # "free"
    <3>1. Len(wire) # 3 * k => werr \/ \E p \in Procs : Spilled(p)
      BY <2>1
    <3>2. ASSUME NEW p \in Procs, Spilled(p) PROVE writeMu # "free"
      BY <3>2, ProcsApart DEF ConnInv, WritersSound, Spilled
    <3>3. Len(wire) = 3 * k => Len(wire) % 3 = 0
      BY SMTT(30), SMTT(60)
    <3> QED
      BY <3>1, <3>2, <3>3
  <2> QED
    BY <2>4, <2>5 DEF FramesWhole
<1> QED
  BY <1>1, ConnInvariance, PTL

\* ReadMessage returns what the peer said, message by message, for every way the
\* peer cuts its messages into frames and mixes them with control frames.
THEOREM MessagesArriveIntact ==
  Spec => []MessagesIntact
<1>1. ConnInv => MessagesIntact
  BY DEF ConnInv, ReaderSound, Prefix, MessagesIntact
<1> QED
  BY <1>1, ConnInvariance, PTL

\* What goes into the buffer, with the mutex held, is never the close frame.
NoCloseFrame == \A p \in Procs : writeMu = p => frame[p].op # "close"

\* Close sets the flag before its WriteFrame looks at it: the close frame that it
\* builds (conn.go:255-259) gets no further than this look, and the peer is left
\* with the end of the connection.
THEOREM CloseFrameNeverSent == Spec => []NoCloseFrame
<1>1. ConnInv => NoCloseFrame
  BY DEF ConnInv, WritersSound, NoCloseFrame
<1> QED
  BY <1>1, ConnInvariance, PTL
=============================================================================

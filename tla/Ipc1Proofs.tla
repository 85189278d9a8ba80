----------------------------- MODULE Ipc1Proofs -----------------------------
(***************************************************************************)
(* Results about ipc.cpp, for every size of buffer and every set of        *)
(* messages.                                                               *)
(*                                                                         *)
(* The receive buffer stays in bounds and never holds a whole frame        *)
(* between two bytes, for every stream of bytes (BufferSafe), and the pipe *)
(* is not closed in the middle of a frame (DestroySafe).                   *)
(*                                                                         *)
(* What was delivered is a prefix of what was sent, frame for frame, as    *)
(* long as no write was torn (Ordered).  The bytes in flight are read as   *)
(* one stream - parsed, in the socket, still in a writer's hands - and     *)
(* DInv says that this stream is the concatenation of the frames sent and  *)
(* not delivered.  The concatenation is given by the offsets at which the  *)
(* frames start (Framed), so that no step needs an induction over them.    *)
(***************************************************************************)
EXTENDS Ipc1, SequenceTheorems, TLAPS

(* hdr_len is a number between 3 and cap. *)
LEMMA HdrLen == hdr_len \in Nat /\ 3 <= hdr_len /\ hdr_len <= cap
BY Ipc1Assumption DEF hdr_len

(* A remainder is below the divisor. *)
LEMMA ModRange == ASSUME NEW a \in Nat, NEW n \in Nat \ {0} PROVE a % n \in 0..(n - 1)
OBVIOUS

(* A header and its parts are sequences of bytes. *)
LEMMA HeaderType ==
  ASSUME NEW q \in 0..(SeqRange - 1), NEW m \in Message
  PROVE  LEADNG \o <<q, m.type, Len(m.val) % LenRange>> \in Seq(Byte)
<1>1. Len(m.val) \in Nat BY Ipc1Bytes
<1>2. Len(m.val) % LenRange \in 0..(LenRange - 1) BY <1>1, Ipc1Assumption, ModRange
<1>3. /\ q \in Byte /\ m.type \in Byte /\ Len(m.val) % LenRange \in Byte
  BY <1>2, Ipc1Bytes
<1>4. <<q, m.type, Len(m.val) % LenRange>> \in Seq(Byte) BY <1>3
<1>5. LEADNG \in Seq(Byte) BY Ipc1Assumption
<1> QED BY <1>4, <1>5, ConcatProperties

(* A step of the writer or of the end of the program leaves the parser      *)
(* alone; memmove yields a buffer.                                          *)
LEMMA MemmoveType ==
  ASSUME NEW b \in [0..(cap - 1) -> Byte], NEW p \in Nat, NEW k \in Nat, p <= cap
  PROVE  memmove(b, p, k) \in [0..(cap - 1) -> Byte]
BY Ipc1Assumption DEF memmove

(* Handing over what is in the buffer keeps it in bounds and leaves less    *)
(* than a frame, if no more than one frame was there.                       *)
LEMMA PayloadSafe ==
  ASSUME NEW b \in [0..(cap - 1) -> Byte], NEW p \in 1..cap,
         p > hdr_len => p <= msg_sz(b),
         Payload(b, p)
  PROVE  /\ buf' \in [0..(cap - 1) -> Byte] /\ pos' \in 0..cap
         /\ parse_state' \in {"sync", "payload"} /\ NoFrameLeft'
<1>1. Length(b) \in Nat BY HdrLen, Ipc1Assumption DEF Length
<1>2. msg_sz(b) \in Nat /\ hdr_len <= msg_sz(b) BY <1>1, HdrLen DEF msg_sz
<1>3. parse_state' = "payload" BY DEF Payload
<1>4. CASE p < msg_sz(b)
  <2>1. buf' = b /\ pos' = p BY <1>4 DEF Payload
  <2> QED BY <2>1, <1>3, <1>4, Ipc1Assumption DEF NoFrameLeft, msg_sz, Length
<1>5. CASE ~(p < msg_sz(b))
  <2>1. msg_sz(b) >= p BY <1>2, <1>5, HdrLen, Ipc1Assumption
  <2>2. buf' = b /\ pos' = 0 BY <2>1, <1>5 DEF Payload
  <2> QED BY <2>2, <1>3, HdrLen, Ipc1Assumption DEF NoFrameLeft
<1> QED BY <1>4, <1>5

(* One byte of the stream, whatever it is. *)
LEMMA InputSafe ==
  ASSUME TypeOK, NoFrameLeft, ipc1_input
  PROVE  /\ buf' \in [0..(cap - 1) -> Byte] /\ pos' \in 0..cap
         /\ parse_state' \in {"sync", "payload"} /\ NoFrameLeft'
<1> DEFINE at == IF Full THEN 0 ELSE pos
           st == IF Full THEN "sync" ELSE parse_state
           b  == [buf EXCEPT ![at] = Head(rd)]
           p  == at + 1
<1>1. Head(rd) \in Byte
  <2>1. rd \in Seq(Byte) /\ rd # <<>> BY DEF TypeOK, ipc1_input
  <2> QED BY <2>1, HeadTailProperties
<1>2. cap \in Nat /\ 3 <= hdr_len /\ hdr_len <= cap /\ hdr_len \in Nat
  BY HdrLen, Ipc1Assumption
<1>3. at \in 0..(cap - 1) /\ p \in 1..cap BY <1>2 DEF TypeOK, Full
<1>4. b \in [0..(cap - 1) -> Byte] BY <1>1, <1>3 DEF TypeOK
<1>5. st \in {"sync", "payload"} BY DEF TypeOK
<1>6. st = "sync" => p <= hdr_len BY <1>2 DEF NoFrameLeft, Full, TypeOK
<1>7. \/ /\ st = "sync" /\ p < hdr_len
         /\ buf' = b /\ pos' = p /\ parse_state' = "sync"
      \/ /\ st = "sync" /\ p >= hdr_len /\ ~HasLeading(b)
         /\ buf' = memmove(b, p, 1) /\ pos' = p - 1 /\ parse_state' = "sync"
      \/ Payload(b, p)
  BY Zenon DEF ipc1_input
<1>8. CASE st = "sync" /\ p < hdr_len /\ buf' = b /\ pos' = p /\ parse_state' = "sync"
  <2> HIDE DEF b, p, st
  <2> QED BY <1>8, <1>2, <1>3, <1>4 DEF NoFrameLeft
<1>9. CASE /\ st = "sync" /\ p >= hdr_len /\ ~HasLeading(b)
           /\ buf' = memmove(b, p, 1) /\ pos' = p - 1 /\ parse_state' = "sync"
  <2> HIDE DEF b, p, st
  <2>1. buf' \in [0..(cap - 1) -> Byte] BY <1>9, <1>3, <1>4, <1>2, MemmoveType
  <2>2. p = hdr_len BY <1>6, <1>9, <1>2, <1>3
  <2> QED BY <1>9, <2>1, <2>2, <1>2 DEF NoFrameLeft
<1>10. CASE Payload(b, p)
  <2>1. p > hdr_len => p <= msg_sz(b)
    <3> SUFFICES ASSUME p > hdr_len PROVE p <= msg_sz(b) OBVIOUS
    <3>0. at >= hdr_len BY <1>2, <1>3
    <3>1. pos >= hdr_len /\ at = pos /\ ~Full
      <4>1. ~Full BY <3>0, <1>2
      <4> QED BY <4>1, <3>0
    <3>2. pos < msg_sz(buf) BY <3>1 DEF NoFrameLeft
    <3>3. b[hdr_len - 1] = buf[hdr_len - 1] BY <3>1, <1>2, <1>3 DEF TypeOK
    <3>4. buf[hdr_len - 1] \in Nat
      <4>1. hdr_len - 1 \in 0..(cap - 1) BY <1>2
      <4>2. buf[hdr_len - 1] \in Byte BY <4>1 DEF TypeOK
      <4>3. Byte \subseteq Nat BY Ipc1Assumption
      <4> QED BY <4>2, <4>3
    <3> QED BY <3>1, <3>2, <3>3, <3>4, <1>2 DEF msg_sz, Length, TypeOK
  <2> QED BY <2>1, <1>3, <1>4, <1>10, PayloadSafe
<1> QED BY <1>7, <1>8, <1>9, <1>10

(* Nothing but ipc1_input touches the parser. *)
LEMMA ParserUnchanged ==
  ASSUME NoFrameLeft, UNCHANGED parser PROVE NoFrameLeft'
BY DEF parser, NoFrameLeft, msg_sz, Length

(* Every step keeps the types and leaves no frame in the buffer. *)
LEMMA StepSafe ==
  ASSUME TypeOK, NoFrameLeft, [Next]_vars PROVE TypeOK' /\ NoFrameLeft'
<1> USE Ipc1Assumption
<1>0. ASSUME NEW t \in Thread, NEW m \in Message, ipc1_write(t, m) \/ LateWrite(t, m)
      PROVE TypeOK' /\ NoFrameLeft'
  <2>1. waiting' \subseteq Thread \X Message BY <1>0 DEF ipc1_write, LateWrite, TypeOK
  <2>2. msg_seq' \in 0..(SeqRange - 1) BY <1>0 DEF ipc1_write, LateWrite, TypeOK
  <2> QED BY <1>0, <2>1, <2>2, ParserUnchanged DEF ipc1_write, LateWrite, TypeOK, parser
<1>1. ASSUME NEW t \in Thread, NEW m \in Message, Locked(t, m)
      PROVE TypeOK' /\ NoFrameLeft'
  <2>1. header' \in Seq(Byte) BY <1>1, HeaderType DEF Locked, Numbered, TypeOK
  <2>2. data' \in Seq(Byte) BY <1>1, Ipc1Bytes DEF Locked, Numbered
  <2>3. msg_seq' \in 0..(SeqRange - 1) BY <1>1 DEF Locked, Numbered, TypeOK
  <2> QED BY <1>1, <2>1, <2>2, <2>3, ParserUnchanged DEF Locked, Numbered, TypeOK, parser
<1>2. CASE WriteSome
  <2> DEFINE rest == IF header # <<>> THEN header ELSE data
  <2>1. rest \in Seq(Byte) BY DEF TypeOK
  <2>2. PICK n \in 1..Len(rest) :
          /\ sock' = sock \o SubSeq(rest, 1, n)
          /\ IF header # <<>>
               THEN header' = SubSeq(rest, n + 1, Len(rest)) /\ data' = data
               ELSE data' = SubSeq(rest, n + 1, Len(rest)) /\ header' = header
    BY <1>2 DEF WriteSome
  <2>3. SubSeq(rest, 1, n) \in Seq(Byte) /\ SubSeq(rest, n + 1, Len(rest)) \in Seq(Byte)
    BY <2>1, SubSeqProperties
  <2>4. sock' \in Seq(Byte) BY <2>2, <2>3, ConcatProperties DEF TypeOK
  <2>5. header' \in Seq(Byte) /\ data' \in Seq(Byte) BY <2>2, <2>3 DEF TypeOK
  <2> QED BY <1>2, <2>4, <2>5, ParserUnchanged DEF WriteSome, TypeOK, parser
<1>3. CASE WriteDone BY <1>3, ParserUnchanged DEF WriteDone, TypeOK, parser
<1>4. CASE WriteError BY <1>4, ParserUnchanged DEF WriteError, TypeOK, parser
<1>5. CASE ipc1_cb
  <2>1. PICK n \in 1..ReadMax :
          /\ n <= Len(sock)
          /\ rd' = SubSeq(sock, 1, n) /\ sock' = SubSeq(sock, n + 1, Len(sock))
    BY <1>5 DEF ipc1_cb
  <2>2. rd' \in Seq(Byte) /\ sock' \in Seq(Byte)
    BY <2>1, SubSeqProperties, SMTT(40) DEF TypeOK
  <2> QED BY <1>5, <2>2, ParserUnchanged DEF ipc1_cb, TypeOK, parser, writer
<1>6. CASE ipc1_input
  <2>1. rd' \in Seq(Byte)
    BY <1>6, HeadTailProperties DEF ipc1_input, TypeOK
  <2> QED BY <1>6, <2>1, InputSafe DEF ipc1_input, TypeOK, writer
<1>7. CASE Quit BY <1>7, ParserUnchanged DEF Quit, TypeOK, parser, writer
<1>8. CASE ipc1_destroy BY <1>8, ParserUnchanged DEF ipc1_destroy, TypeOK, parser, writer
<1>9. CASE UNCHANGED vars BY <1>9, ParserUnchanged DEF vars, TypeOK, parser
<1> QED BY <1>0, <1>1, <1>2, <1>3, <1>4, <1>5, <1>6, <1>7, <1>8, <1>9 DEF Next, Finished

(* For every capacity, marker and stream of bytes, torn frames included,    *)
(* ipc1_input stays inside msg_fb_data and never has a complete frame left  *)
(* over between two bytes.                                                  *)
THEOREM BufferSafe == Spec => [](TypeOK /\ NoFrameLeft)
<1>1. Init => TypeOK /\ NoFrameLeft
  BY HdrLen, Ipc1Assumption DEF Init, TypeOK, NoFrameLeft
<1>2. TypeOK /\ NoFrameLeft /\ [Next]_vars => TypeOK' /\ NoFrameLeft'
  BY StepSafe
<1> QED BY <1>1, <1>2, PTL DEF Spec

(* The owner of the mutex is the only thread with bytes to write. *)
Owned == mutex = NoThread => header = <<>> /\ data = <<>>

(* ipc1_destroy takes its turn for ipc_mutex among the calls of ipc1_write: *)
(* it finds no frame begun and not finished, however many calls wait, and   *)
(* none is begun on the pipe once it is freed.                              *)
THEOREM DestroySafe == Spec => []NoFrameCut
<1>1. Init => Owned /\ NoFrameCut BY DEF Init, Owned, NoFrameCut
<1>2. Owned /\ NoFrameCut /\ [Next]_vars => Owned' /\ NoFrameCut'
  <2> SUFFICES ASSUME Owned, NoFrameCut, [Next]_vars PROVE Owned' /\ NoFrameCut'
    OBVIOUS
  <2>1. ASSUME NEW t \in Thread, NEW m \in Message,
               ipc1_write(t, m) \/ Locked(t, m) \/ LateWrite(t, m)
        PROVE  Owned' /\ NoFrameCut'
    BY <2>1, Ipc1Assumption DEF Owned, NoFrameCut, ipc1_write, Locked, Numbered, LateWrite
  <2>2. CASE WriteSome \/ WriteDone \/ WriteError
    BY <2>2 DEF Owned, NoFrameCut, WriteSome, WriteDone, WriteError
  <2>3. CASE ipc1_cb \/ ipc1_input \/ Quit \/ UNCHANGED vars
    BY <2>3 DEF Owned, NoFrameCut, ipc1_cb, ipc1_input, Quit, vars, writer
  <2>4. CASE ipc1_destroy
    BY <2>4 DEF Owned, NoFrameCut, ipc1_destroy, writer
  <2> QED BY <2>1, <2>2, <2>3, <2>4 DEF Next, Finished
<1> QED BY <1>1, <1>2, PTL DEF Spec

-----------------------------------------------------------------------------
(* Delivery in order.  Every message has its place in one stream of bytes: *)
(* what is valid in the buffer, what was read, what the socket holds and   *)
(* what the owner of the mutex has yet to write.                           *)

Rec == [seq : 0..(SeqRange - 1), type : Byte, val : Seq(Byte)]
Size(r) == hdr_len + Len(r.val)

(* Byte j of the frame of r, and byte i of the stream after the buffer. *)
FrameAt(r, j) ==
  IF j <= Len(LEADNG) THEN LEADNG[j]
  ELSE IF j <= hdr_len THEN <<r.seq, r.type, Len(r.val)>>[j - Len(LEADNG)]
  ELSE r.val[j - hdr_len]

StreamAt(i) ==
  IF i <= Len(rd) THEN rd[i]
  ELSE IF i <= Len(rd) + Len(sock) THEN sock[i - Len(rd)]
  ELSE IF i <= Len(rd) + Len(sock) + Len(header) THEN header[i - Len(rd) - Len(sock)]
  ELSE data[i - Len(rd) - Len(sock) - Len(header)]

Total == Len(rd) + Len(sock) + Len(header) + Len(data)
ByteAt(i) == IF i <= pos THEN buf[i - 1] ELSE StreamAt(i - pos)

(* The messages not yet delivered are the frames of the stream, one after  *)
(* the other; off[k] bytes were produced with the first k messages.        *)
Framed(off) ==
  /\ \A k \in 1..Len(sent) : off[k] = off[k - 1] + Size(sent[k])
  /\ \A k, l \in 0..Len(sent) : k <= l => off[k] <= off[l]
  /\ off[Len(sent)] = off[Len(delivered)] + (pos + Total)
  /\ \A k \in (Len(delivered) + 1)..Len(sent) : \A j \in 1..Size(sent[k]) :
       ByteAt(off[k - 1] - off[Len(delivered)] + j) = FrameAt(sent[k], j)

Prefix == /\ delivered \in Seq(Rec) /\ Len(delivered) <= Len(sent)
          /\ \A i \in 1..Len(delivered) : delivered[i] = sent[i]

Records == /\ sent \in Seq(Rec)
           /\ \A k \in 1..Len(sent) : Size(sent[k]) <= cap /\ Len(sent[k].val) < LenRange
           /\ mutex = NoThread => header = <<>> /\ data = <<>>
           /\ torn \in BOOLEAN

Streamed == Prefix /\ \E off \in [Nat -> Nat] : Framed(off)

DInv == /\ TypeOK /\ NoFrameLeft /\ Records
        /\ ~torn => Streamed

(* A number below the divisor is its own remainder. *)
LEMMA ModSmall == ASSUME NEW a \in Nat, NEW n \in Nat \ {0}, a < n PROVE a % n = a
OBVIOUS

(* A write moves the front of what is left to the end of the socket. *)
LEMMA Moved ==
  ASSUME NEW S, NEW s \in Seq(S), NEW t \in Seq(S), NEW n \in 1..Len(t),
         NEW a, NEW b, a = s \o SubSeq(t, 1, n), b = SubSeq(t, n + 1, Len(t))
  PROVE  /\ Len(a) = Len(s) + n /\ Len(b) = Len(t) - n
         /\ \A i \in 1..Len(s) : a[i] = s[i]
         /\ \A i \in 1..n : a[Len(s) + i] = t[i]
         /\ \A i \in 1..Len(t) - n : b[i] = t[n + i]
<1>0. Len(t) \in Nat /\ Len(s) \in Nat /\ n \in Nat /\ 1 <= n /\ n <= Len(t)
  OBVIOUS
<1>1. \A i \in 1..Len(t) : t[i] \in S
  BY ElementOfSeq
<1>2. /\ SubSeq(t, 1, n) \in Seq(S) /\ Len(SubSeq(t, 1, n)) = n
      /\ \A i \in 1..n : SubSeq(t, 1, n)[i] = t[i]
  BY <1>0, <1>1, SubSeqProperties
<1>3. /\ Len(b) = Len(t) - n
      /\ \A i \in 1..Len(t) - n : b[i] = t[n + i]
  BY <1>0, <1>1, SubSeqProperties
<1>4. PICK u \in Seq(S) : u = SubSeq(t, 1, n)
  BY <1>2
<1>5. /\ Len(s \o u) = Len(s) + Len(u)
      /\ \A i \in 1..Len(s) + Len(u) : (s \o u)[i] = IF i <= Len(s) THEN s[i] ELSE u[i - Len(s)]
  BY ConcatProperties
<1>6. Len(u) = n /\ \A i \in 1..n : u[i] = t[i]
  BY <1>2, <1>4
<1>7. a = s \o u
  BY <1>4
<1>8. Len(a) = Len(s) + n /\ \A i \in 1..Len(s) : a[i] = s[i]
  BY <1>0, <1>5, <1>6, <1>7
<1>9. ASSUME NEW i \in 1..n PROVE a[Len(s) + i] = t[i]
  <2>1. /\ Len(s) + i \in 1..Len(s) + Len(u) /\ ~(Len(s) + i <= Len(s)) /\ (Len(s) + i) - Len(s) = i
    BY <1>0, <1>6
  <2>2. a[Len(s) + i] = u[i]
    BY <1>5, <1>7, <2>1
  <2>. QED BY <1>6, <2>2
<1>. QED BY <1>3, <1>8, <1>9

(* Bytes that move along the stream stay where they are in it. *)
LEMMA StreamMoves ==
  ASSUME TypeOK, WriteSome \/ ipc1_cb
  PROVE  Total' = Total /\ \A i \in 1..Total : StreamAt(i)' = StreamAt(i)
<1>1. rd \in Seq(Byte) /\ sock \in Seq(Byte) /\ header \in Seq(Byte) /\ data \in Seq(Byte)
  BY DEF TypeOK
<1>2. Len(rd) \in Nat /\ Len(sock) \in Nat /\ Len(header) \in Nat /\ Len(data) \in Nat
  BY <1>1
<1>4. CASE WriteSome
  <2>. DEFINE rest == IF header # <<>> THEN header ELSE data
  <2>1. PICK n \in 1..Len(rest) :
          /\ sock' = sock \o SubSeq(rest, 1, n) /\ rd' = rd
          /\ IF header # <<>>
               THEN header' = SubSeq(rest, n + 1, Len(rest)) /\ data' = data
               ELSE data' = SubSeq(rest, n + 1, Len(rest)) /\ header' = header
    BY <1>4 DEF WriteSome
  <2>2. CASE header # <<>>
    <3>0. n \in 1..Len(header) /\ sock' = sock \o SubSeq(header, 1, n)
          /\ header' = SubSeq(header, n + 1, Len(header))
      BY <2>1, <2>2
    <3>1. n \in 1..Len(header) /\ data' = data /\ rd' = rd
      BY <2>1, <2>2
    <3>2. /\ Len(sock') = Len(sock) + n /\ Len(header') = Len(header) - n
          /\ \A i \in 1..Len(sock) : sock'[i] = sock[i]
          /\ \A i \in 1..n : sock'[Len(sock) + i] = header[i]
          /\ \A i \in 1..Len(header) - n : header'[i] = header[n + i]
      BY <1>1, <3>0, Moved, SMTT(30)
    <3>3. Total' = Total
      BY <1>2, <3>1, <3>2 DEF Total
    <3>4. ASSUME NEW i \in 1..Total PROVE StreamAt(i)' = StreamAt(i)
      <4>1. CASE i <= Len(rd) + Len(sock)
        <5>1. CASE i <= Len(rd)
          BY <3>1, <5>1 DEF StreamAt
        <5>2. CASE Len(rd) < i
          <6>1. i - Len(rd) \in 1..Len(sock) /\ i <= Len(rd) + (Len(sock) + n)
            BY <1>2, <3>1, <4>1, <5>2 DEF Total
          <6>2. StreamAt(i)' = sock'[i - Len(rd)]
            BY <1>2, <3>1, <3>2, <5>2, <6>1 DEF StreamAt, Total
          <6>3. StreamAt(i) = sock[i - Len(rd)]
            BY <1>2, <4>1, <5>2 DEF StreamAt, Total
          <6>. QED BY <3>2, <6>1, <6>2, <6>3
        <5>. QED BY <1>2, <5>1, <5>2 DEF Total
      <4>2. CASE Len(rd) + Len(sock) < i /\ i <= Len(rd) + Len(sock) + n
        <5>. DEFINE j == i - Len(rd) - Len(sock)
        <5>1. j \in 1..n /\ i - Len(rd) = Len(sock) + j /\ j <= Len(header)
          BY <1>2, <3>1, <4>2 DEF Total
        <5>2. StreamAt(i)' = sock'[i - Len(rd)]
          BY <1>2, <3>1, <3>2, <4>2 DEF StreamAt, Total
        <5>3. StreamAt(i) = header[j]
          BY <1>2, <3>1, <4>2 DEF StreamAt, Total
        <5>. QED BY <3>2, <5>1, <5>2, <5>3
      <4>3. CASE Len(rd) + Len(sock) + n < i /\ i <= Len(rd) + Len(sock) + Len(header)
        <5>. DEFINE j == i - Len(rd) - (Len(sock) + n)
        <5>1. j \in 1..Len(header) - n /\ n + j = i - Len(rd) - Len(sock)
          BY <1>2, <3>1, <4>3 DEF Total
        <5>2. StreamAt(i)' = header'[j]
          BY <1>2, <3>1, <3>2, <4>3 DEF StreamAt, Total
        <5>3. StreamAt(i) = header[i - Len(rd) - Len(sock)]
          BY <1>2, <3>1, <4>3 DEF StreamAt, Total
        <5>. QED BY <3>2, <5>1, <5>2, <5>3
      <4>4. CASE Len(rd) + Len(sock) + Len(header) < i
        <5>1. i - Len(rd) - (Len(sock) + n) - (Len(header) - n) = i - Len(rd) - Len(sock) - Len(header)
          BY <1>2, <3>1
        <5>. QED BY <1>2, <3>1, <3>2, <4>4, <5>1 DEF StreamAt, Total
      <4>. QED BY <1>2, <3>1, <4>1, <4>2, <4>3, <4>4 DEF Total
    <3>. QED BY <3>3, <3>4
  <2>3. CASE header = <<>>
    <3>0. n \in 1..Len(data) /\ sock' = sock \o SubSeq(data, 1, n)
          /\ data' = SubSeq(data, n + 1, Len(data))
      BY <2>1, <2>3
    <3>1. n \in 1..Len(data) /\ header' = header /\ Len(header) = 0 /\ rd' = rd
      BY <2>1, <2>3
    <3>2. /\ Len(sock') = Len(sock) + n /\ Len(data') = Len(data) - n
          /\ \A i \in 1..Len(sock) : sock'[i] = sock[i]
          /\ \A i \in 1..n : sock'[Len(sock) + i] = data[i]
          /\ \A i \in 1..Len(data) - n : data'[i] = data[n + i]
      <4>1. sock \in Seq(Byte) /\ data \in Seq(Byte)
        BY <1>1
      <4>. QED BY <3>0, <4>1, Moved, SMTT(40)
    <3>3. Total' = Total
      BY <1>2, <3>1, <3>2 DEF Total
    <3>4. ASSUME NEW i \in 1..Total PROVE StreamAt(i)' = StreamAt(i)
      <4>1. CASE i <= Len(rd) + Len(sock)
        <5>1. CASE i <= Len(rd)
          BY <3>1, <5>1 DEF StreamAt
        <5>2. CASE Len(rd) < i
          <6>1. i - Len(rd) \in 1..Len(sock) /\ i <= Len(rd) + (Len(sock) + n)
            BY <1>2, <3>1, <4>1, <5>2 DEF Total
          <6>2. StreamAt(i)' = sock'[i - Len(rd)]
            BY <1>2, <3>1, <3>2, <5>2, <6>1 DEF StreamAt, Total
          <6>3. StreamAt(i) = sock[i - Len(rd)]
            BY <1>2, <4>1, <5>2 DEF StreamAt, Total
          <6>. QED BY <3>2, <6>1, <6>2, <6>3
        <5>. QED BY <1>2, <5>1, <5>2 DEF Total
      <4>2. CASE Len(rd) + Len(sock) < i /\ i <= Len(rd) + Len(sock) + n
        <5>. DEFINE j == i - Len(rd) - Len(sock) - 0
        <5>1. j \in 1..n /\ i - Len(rd) = Len(sock) + j
          BY <1>2, <3>1, <4>2 DEF Total
        <5>2. StreamAt(i)' = sock'[i - Len(rd)]
          BY <1>2, <3>1, <3>2, <4>2 DEF StreamAt, Total
        <5>3. StreamAt(i) = data[j]
          BY <1>2, <3>1, <4>2 DEF StreamAt, Total
        <5>. QED BY <3>2, <5>1, <5>2, <5>3
      <4>3. CASE Len(rd) + Len(sock) + n < i
        <5>. DEFINE j == i - Len(rd) - (Len(sock) + n) - 0
        <5>1. j \in 1..Len(data) - n /\ n + j = i - Len(rd) - Len(sock) - 0
          BY <1>2, <3>1, <4>3 DEF Total
        <5>2. StreamAt(i)' = data'[j]
          BY <1>2, <3>1, <3>2, <4>3 DEF StreamAt, Total
        <5>3. StreamAt(i) = data[i - Len(rd) - Len(sock) - 0]
          BY <1>2, <3>1, <4>3 DEF StreamAt, Total
        <5>. QED BY <3>2, <5>1, <5>2, <5>3
      <4>. QED BY <1>2, <3>1, <4>1, <4>2, <4>3 DEF Total
    <3>. QED BY <3>3, <3>4
  <2>. QED BY <2>2, <2>3
<1>5. CASE ipc1_cb
  <2>1. PICK n \in 1..ReadMax :
          /\ n <= Len(sock) /\ rd = <<>>
          /\ rd' = SubSeq(sock, 1, n) /\ sock' = SubSeq(sock, n + 1, Len(sock))
    BY <1>5 DEF ipc1_cb
  <2>2. n \in 1..Len(sock) /\ UNCHANGED <<header, data>> /\ Len(rd) = 0
    BY <1>2, <1>5, <2>1, Ipc1Assumption DEF ipc1_cb, writer
  <2>3. \A i \in 1..Len(sock) : sock[i] \in Byte
    BY <1>1, ElementOfSeq
  <2>4. Len(rd') = n /\ \A i \in 1..n : rd'[i] = sock[i]
    BY <1>2, <2>1, <2>2, <2>3, SubSeqProperties
  <2>5. Len(sock') = Len(sock) - n /\ \A i \in 1..Len(sock) - n : sock'[i] = sock[n + i]
    BY <1>2, <2>1, <2>2, <2>3, SubSeqProperties
  <2>6. Total' = Total
    BY <1>2, <2>2, <2>4, <2>5 DEF Total
  <2>7. ASSUME NEW i \in 1..Total PROVE StreamAt(i)' = StreamAt(i)
    <3>1. CASE i <= n
      <4>1. StreamAt(i)' = rd'[i]
        BY <2>4, <3>1 DEF StreamAt
      <4>2. StreamAt(i) = sock[i - 0] /\ i - 0 = i
        BY <1>2, <2>2, <3>1 DEF StreamAt
      <4>. QED BY <1>2, <2>2, <2>4, <3>1, <4>1, <4>2
    <3>2. CASE n < i /\ i <= Len(sock)
      <4>1. StreamAt(i)' = sock'[i - n]
        BY <1>2, <2>2, <2>4, <2>5, <3>2 DEF StreamAt
      <4>2. StreamAt(i) = sock[i - 0] /\ i - 0 = i
        BY <1>2, <2>2, <3>2 DEF StreamAt
      <4>3. i - n \in 1..Len(sock) - n /\ n + (i - n) = i
        BY <1>2, <2>2, <3>2
      <4>. QED BY <2>5, <4>1, <4>2, <4>3
    <3>3. CASE Len(sock) < i
      <4>1. i - n - (Len(sock) - n) = i - 0 - Len(sock)
        BY <1>2, <2>2
      <4>. QED BY <1>2, <2>2, <2>4, <2>5, <3>3, <4>1 DEF StreamAt
    <3>. QED BY <1>2, <2>2, <3>1, <3>2, <3>3
  <2>. QED BY <2>6, <2>7
<1>. QED BY <1>4, <1>5

(* The parser takes the first byte. *)
LEMMA StreamTakes ==
  ASSUME TypeOK, ipc1_input
  PROVE  /\ Total \in Nat \ {0} /\ Total' = Total - 1 /\ Head(rd) = StreamAt(1)
         /\ \A i \in 1..Total - 1 : StreamAt(i)' = StreamAt(i + 1)
<1>1. rd \in Seq(Byte) /\ sock \in Seq(Byte) /\ header \in Seq(Byte) /\ data \in Seq(Byte)
  BY DEF TypeOK
<1>2. rd # <<>> /\ rd' = Tail(rd) /\ UNCHANGED <<sock, header, data>>
  BY DEF ipc1_input, writer
<1>3. /\ Len(rd) \in Nat \ {0} /\ Len(sock) \in Nat /\ Len(header) \in Nat /\ Len(data) \in Nat
      /\ Head(rd) = rd[1]
  BY <1>1, <1>2
<1>4. Len(rd') = Len(rd) - 1 /\ \A i \in 1..Len(rd) - 1 : rd'[i] = rd[i + 1]
  BY <1>1, <1>2, <1>3, HeadTailProperties
<1>5. Total \in Nat \ {0} /\ Total' = Total - 1 /\ Head(rd) = StreamAt(1)
  BY <1>2, <1>3, <1>4 DEF Total, StreamAt
<1>6. ASSUME NEW i \in 1..Total - 1 PROVE StreamAt(i)' = StreamAt(i + 1)
  <2>1. i - (Len(rd) - 1) = (i + 1) - Len(rd)
    BY <1>3
  <2>2. i - (Len(rd) - 1) - Len(sock) = (i + 1) - Len(rd) - Len(sock)
        /\ i - (Len(rd) - 1) - Len(sock) - Len(header) = (i + 1) - Len(rd) - Len(sock) - Len(header)
    BY <1>3
  <2>3. CASE i <= Len(rd) - 1
    BY <1>3, <1>4, <2>3 DEF StreamAt
  <2>4. CASE ~(i <= Len(rd) - 1)
    BY <1>2, <1>3, <1>4, <2>1, <2>2, <2>4 DEF StreamAt
  <2>. QED BY <2>3, <2>4
<1>. QED BY <1>5, <1>6

(* Sizes and counts are numbers. *)
LEMMA Counts ==
  ASSUME TypeOK, Records
  PROVE  /\ Len(sent) \in Nat /\ Total \in Nat /\ pos \in Nat /\ hdr_len \in Nat
         /\ \A k \in 1..Len(sent) : sent[k] \in Rec /\ Size(sent[k]) \in Nat /\ Len(sent[k].val) \in Nat
                                    /\ hdr_len <= Size(sent[k])
<1>1. Len(sent) \in Nat /\ Total \in Nat
  BY DEF TypeOK, Records, Total
<1>2. pos \in Nat /\ hdr_len \in Nat
  BY HdrLen, Ipc1Assumption DEF TypeOK
<1>3. ASSUME NEW k \in 1..Len(sent)
      PROVE  sent[k] \in Rec /\ Len(sent[k].val) \in Nat
  <2>1. sent[k] \in Rec
    BY <1>3, ElementOfSeq DEF Records
  <2>2. sent[k].val \in Seq(Byte)
    BY <2>1 DEF Rec
  <2>. QED BY <2>1, <2>2
<1>. QED BY <1>1, <1>2, <1>3 DEF Size

(* The bytes of an undelivered message are in the buffer or the stream. *)
LEMMA InRange ==
  ASSUME TypeOK, Records, Prefix, NEW off \in [Nat -> Nat], Framed(off),
         NEW k \in (Len(delivered) + 1)..Len(sent), NEW j \in 1..Size(sent[k])
  PROVE  /\ off[k - 1] - off[Len(delivered)] + j \in 1..pos + Total
         /\ k \in 1..Len(sent) /\ k - 1 \in 0..Len(sent) /\ Len(delivered) \in Nat
<1>1. /\ Len(sent) \in Nat /\ Total \in Nat /\ pos \in Nat /\ Size(sent[k]) \in Nat
      /\ Len(delivered) \in Nat /\ k \in 1..Len(sent) /\ k - 1 \in 0..Len(sent)
  <2>1. Len(sent) \in Nat /\ Len(delivered) \in Nat
    BY Counts DEF Prefix
  <2>2. k \in 1..Len(sent) /\ k - 1 \in 0..Len(sent)
    BY <2>1
  <2>. QED BY <2>1, <2>2, Counts
<1>2. /\ off[k] = off[k - 1] + Size(sent[k])
      /\ off[Len(sent)] = off[Len(delivered)] + (pos + Total)
  BY <1>1 DEF Framed
<1>3. off[Len(delivered)] <= off[k - 1] /\ off[k] <= off[Len(sent)]
  <2>1. Len(delivered) \in 0..Len(sent) /\ Len(delivered) <= k - 1 /\ k \in 0..Len(sent)
        /\ Len(sent) \in 0..Len(sent) /\ k <= Len(sent)
    BY <1>1
  <2>. QED BY <1>1, <2>1 DEF Framed
<1>4. \A x \in Nat : off[x] \in Nat
  OBVIOUS
<1>5. k \in Nat /\ k - 1 \in Nat
  BY <1>1
<1>6. off[k] \in Nat /\ off[k - 1] \in Nat /\ off[Len(sent)] \in Nat /\ off[Len(delivered)] \in Nat
  BY <1>1, <1>4, <1>5
<1>7. PICK a \in Nat, b \in Nat, c \in Nat :
        a = off[Len(delivered)] /\ b = off[k - 1] /\ c = off[Len(sent)]
  BY <1>6
<1>8. c = a + (pos + Total) /\ b + Size(sent[k]) <= c /\ a <= b
  BY <1>2, <1>3, <1>7
<1>9. b - a + j \in 1..pos + Total
  BY <1>1, <1>8, SMTT(30)
<1>. QED BY <1>1, <1>7, <1>9

(* A step that keeps every byte in its place and delivers nothing. *)
LEMMA SameBytes ==
  ASSUME TypeOK, Records, Streamed, sent' = sent, delivered' = delivered,
         pos' + Total' = pos + Total, pos' \in Nat, Total' \in Nat,
         \A i \in 1..pos + Total : ByteAt(i)' = ByteAt(i)
  PROVE  Streamed'
<1>1. Prefix /\ Prefix'
  BY DEF Streamed, Prefix
<1>2. PICK off \in [Nat -> Nat] : Framed(off)
  BY DEF Streamed
<1>3. Len(sent) \in Nat /\ Total \in Nat /\ pos \in Nat /\ Len(delivered) \in Nat
  BY <1>1, Counts DEF Prefix
<1>4. off[Len(sent)] = off[Len(delivered)] + (pos' + Total')
  BY <1>2 DEF Framed
<1>5. ASSUME NEW k \in (Len(delivered) + 1)..Len(sent), NEW j \in 1..Size(sent[k])
      PROVE  ByteAt(off[k - 1] - off[Len(delivered)] + j)' = FrameAt(sent[k], j)
  <2>1. off[k - 1] - off[Len(delivered)] + j \in 1..pos + Total
    BY <1>1, <1>2, InRange
  <2>2. ByteAt(off[k - 1] - off[Len(delivered)] + j) = FrameAt(sent[k], j)
    BY <1>2 DEF Framed
  <2>3. ByteAt(off[k - 1] - off[Len(delivered)] + j)' = ByteAt(off[k - 1] - off[Len(delivered)] + j)
    BY <2>1
  <2>. QED BY <2>2, <2>3
<1>6. Framed(off)'
  BY <1>2, <1>4, <1>5 DEF Framed, Size, FrameAt, hdr_len
<1>. QED BY <1>1, <1>6 DEF Streamed

(* The steps that move bytes along the stream. *)
LEMMA MoveStep ==
  ASSUME TypeOK, TypeOK', Records, Streamed, WriteSome \/ ipc1_cb
  PROVE  Streamed'
<1>1. UNCHANGED <<sent, delivered, pos, buf>>
  BY DEF WriteSome, ipc1_cb, writer, parser
<1>2. Total' = Total /\ \A i \in 1..Total : StreamAt(i)' = StreamAt(i)
  BY StreamMoves
<1>3. pos \in Nat /\ Total \in Nat
  BY Counts
<1>4. ASSUME NEW i \in 1..pos + Total PROVE ByteAt(i)' = ByteAt(i)
  <2>1. CASE i <= pos
    BY <1>1, <2>1 DEF ByteAt
  <2>2. CASE ~(i <= pos)
    <3>1. i - pos \in 1..Total
      BY <1>3, <2>2
    <3>. QED BY <1>1, <1>2, <2>2, <3>1 DEF ByteAt
  <2>. QED BY <2>1, <2>2
<1>. QED BY <1>1, <1>2, <1>3, <1>4, SameBytes

(* The header ipc1_write builds. *)
LEMMA HeaderParts ==
  ASSUME NEW r \in Rec, Len(r.val) < LenRange, NEW s,
         s = LEADNG \o <<r.seq, r.type, Len(r.val) % LenRange>>
  PROVE  /\ Len(s) = hdr_len
         /\ \A j \in 1..hdr_len : s[j] = FrameAt(r, j)
<1>0. /\ r.val \in Seq(Byte) /\ Len(r.val) \in Nat /\ LEADNG \in Seq(Byte)
      /\ Len(LEADNG) \in Nat /\ hdr_len = Len(LEADNG) + 3
  BY Ipc1Assumption DEF Rec, hdr_len
<1>1. Len(r.val) % LenRange = Len(r.val)
  BY <1>0, ModSmall, Ipc1Assumption
<1>2. r.seq \in Byte /\ r.type \in Byte /\ Len(r.val) \in Byte
  <2>1. Len(r.val) \in 0..(LenRange - 1)
    BY <1>0, Ipc1Assumption
  <2>. QED BY <2>1, Ipc1Bytes DEF Rec
<1>3. <<r.seq, r.type, Len(r.val)>> \in Seq(Byte)
  BY <1>2
<1>4. PICK f \in Seq(Byte) : f = <<r.seq, r.type, Len(r.val)>>
  BY <1>3
<1>5. Len(f) = 3
  BY <1>4
<1>6. PICK l \in Seq(Byte) : l = LEADNG
  BY <1>0
<1>7. /\ Len(l \o f) = Len(l) + Len(f)
      /\ \A j \in 1..Len(l) + Len(f) : (l \o f)[j] = IF j <= Len(l) THEN l[j] ELSE f[j - Len(l)]
  BY ConcatProperties
<1>8. s = l \o f
  BY <1>1, <1>4, <1>6
<1>9. Len(s) = hdr_len
  BY <1>0, <1>5, <1>6, <1>7, <1>8
<1>10. ASSUME NEW j \in 1..hdr_len PROVE s[j] = FrameAt(r, j)
  <2>1. s[j] = IF j <= Len(LEADNG) THEN LEADNG[j] ELSE f[j - Len(LEADNG)]
    BY <1>0, <1>5, <1>6, <1>7, <1>8
  <2>2. FrameAt(r, j) = IF j <= Len(LEADNG) THEN LEADNG[j] ELSE f[j - Len(LEADNG)]
    BY <1>0, <1>4 DEF FrameAt
  <2>. QED BY <2>1, <2>2
<1>. QED BY <1>9, <1>10

(* The record ipc1_write notes for a message that fits. *)
LEMMA WriteRecord ==
  ASSUME TypeOK, Records, Fits, NEW t \in Thread, NEW m \in Message, Locked(t, m)
  PROVE  \E r \in Rec : /\ sent' = Append(sent, r) /\ Size(r) <= cap /\ Len(r.val) < LenRange
                        /\ header' = LEADNG \o <<r.seq, r.type, Len(r.val) % LenRange>>
                        /\ data' = r.val
<1>. DEFINE r == [seq |-> msg_seq, type |-> m.type, val |-> m.val]
<1>1. r \in Rec
  BY Ipc1Bytes DEF Rec, TypeOK
<1>2. Size(r) <= cap /\ Len(r.val) < LenRange
  BY DEF Size, Fits
<1>3. /\ sent' = Append(sent, r) /\ data' = r.val
      /\ header' = LEADNG \o <<r.seq, r.type, Len(r.val) % LenRange>>
  BY DEF Locked, Numbered
<1>. HIDE DEF r
<1>. QED BY <1>1, <1>2, <1>3

(* What ipc1_write appends to the stream is the frame of its message. *)
LEMMA WriteStep ==
  ASSUME TypeOK, Records, Fits, NEW t \in Thread, NEW m \in Message, Locked(t, m)
  PROVE  Records' /\ (Streamed => Streamed')
<1>1. PICK r \in Rec : /\ sent' = Append(sent, r) /\ Size(r) <= cap /\ Len(r.val) < LenRange
                       /\ header' = LEADNG \o <<r.seq, r.type, Len(r.val) % LenRange>>
                       /\ data' = r.val
  BY WriteRecord
<1>. DEFINE n == Len(sent)
<1>2. /\ sent \in Seq(Rec) /\ n \in Nat /\ sent' \in Seq(Rec) /\ Len(sent') = n + 1
      /\ sent'[n + 1] = r /\ \A k \in 1..n : sent'[k] = sent[k]
  <2>1. sent \in Seq(Rec) /\ n \in Nat
    BY DEF Records
  <2>. QED BY <1>1, <2>1, AppendProperties
<1>3. /\ mutex' # NoThread /\ mutex = NoThread /\ UNCHANGED <<torn, rd, sock, buf, pos, delivered>>
  BY Ipc1Assumption DEF Locked, Numbered, parser
<1>4. Records'
  <2>1. ASSUME NEW k \in 1..Len(sent') PROVE Size(sent'[k]) <= cap /\ Len(sent'[k].val) < LenRange
    <3>1. CASE k = n + 1
      BY <1>1, <1>2, <3>1
    <3>2. CASE k # n + 1
      <4>1. k \in 1..n
        BY <1>2, <3>2
      <4>. QED BY <1>2, <4>1 DEF Records
    <3>. QED BY <3>1, <3>2
  <2>2. sent' \in Seq(Rec) /\ torn' \in BOOLEAN
    BY <1>2, <1>3 DEF Records
  <2>. QED BY <1>3, <2>1, <2>2 DEF Records, Size, hdr_len
<1>5. /\ Len(header') = hdr_len
      /\ \A j \in 1..hdr_len : header'[j] = FrameAt(r, j)
  BY <1>1, HeaderParts
<1>6. header = <<>> /\ data = <<>> /\ Len(header) = 0 /\ Len(data) = 0
  BY <1>3 DEF Records
<1>7. /\ Len(rd) \in Nat /\ Len(sock) \in Nat /\ Len(r.val) \in Nat /\ hdr_len \in Nat /\ pos \in Nat
      /\ Size(r) = hdr_len + Len(r.val) /\ Size(r) \in Nat
      /\ Len(LEADNG) \in Nat /\ hdr_len = Len(LEADNG) + 3
  BY HdrLen, Ipc1Assumption DEF TypeOK, Rec, Size, hdr_len
<1>d. data' = r.val
  BY <1>1
<1>8. Total = Len(rd) + Len(sock) /\ Total' = Total + Size(r)
  <2>1. /\ Len(rd') = Len(rd) /\ Len(sock') = Len(sock) /\ Len(header') = hdr_len
        /\ Len(data') = Len(r.val)
    BY <1>d, <1>3, <1>5
  <2>2. Total' = Len(rd) + Len(sock) + hdr_len + Len(r.val)
    BY <2>1 DEF Total
  <2>3. Total = Len(rd) + Len(sock)
    BY <1>6, <1>7 DEF Total
  <2>4. Len(rd) + Len(sock) + hdr_len + Len(r.val) = (Len(rd) + Len(sock)) + (hdr_len + Len(r.val))
    <3>1. PICK a \in Nat, b \in Nat, c \in Nat, e \in Nat :
            a = Len(rd) /\ b = Len(sock) /\ c = hdr_len /\ e = Len(r.val)
      BY <1>7
    <3>2. a + b + c + e = (a + b) + (c + e)
      OBVIOUS
    <3>. QED BY <3>1, <3>2
  <2>5. Size(r) = hdr_len + Len(r.val)
    BY <1>7
  <2>. QED BY <2>2, <2>3, <2>4, <2>5
<1>9. ASSUME NEW i \in 1..Total PROVE StreamAt(i)' = StreamAt(i)
  BY <1>3, <1>7, <1>8 DEF StreamAt
<1>10. ASSUME NEW j \in 1..Size(r), NEW i, i = Total + j PROVE StreamAt(i)' = FrameAt(r, j)
  <2>0. i \in Nat /\ j \in Nat /\ i = Len(rd) + Len(sock) + j
    BY <1>7, <1>8, <1>10
  <2>1. CASE j <= hdr_len
    <3>1. i - Len(rd) - Len(sock) = j /\ j \in 1..hdr_len
      BY <1>7, <2>0, <2>1
    <3>2. StreamAt(i)' = header'[i - Len(rd) - Len(sock)]
      BY <1>3, <1>5, <1>7, <2>0, <2>1, <3>1 DEF StreamAt
    <3>. QED BY <1>5, <3>1, <3>2
  <2>2. CASE hdr_len < j
    <3>1. i - Len(rd) - Len(sock) - hdr_len = j - hdr_len
      BY <1>7, <2>0
    <3>2. StreamAt(i)' = data'[i - Len(rd) - Len(sock) - hdr_len]
      BY <1>3, <1>5, <1>7, <2>0, <2>2 DEF StreamAt
    <3>3. FrameAt(r, j) = r.val[j - hdr_len]
      BY <1>7, <2>2 DEF FrameAt
    <3>. QED BY <1>d, <3>1, <3>2, <3>3
  <2>. QED BY <1>7, <2>0, <2>1, <2>2
<1>11. ASSUME Streamed PROVE Streamed'
  <2>0. Prefix /\ Len(delivered) \in Nat /\ Len(delivered) <= n
    BY <1>11 DEF Streamed, Prefix
  <2>1. Prefix'
    BY <1>2, <1>3, <2>0 DEF Prefix
  <2>2. PICK off \in [Nat -> Nat] : Framed(off)
    BY <1>11 DEF Streamed
  <2>3. off[n] \in Nat
    BY <1>2, <2>2
  <2>4. PICK o \in [Nat -> Nat] : o = [off EXCEPT ![n + 1] = off[n] + Size(r)]
    <3>1. off[n] + Size(r) \in Nat
      <4>1. Size(r) \in Nat
        BY <1>7
      <4>. QED BY <2>3, <4>1
    <3>2. [off EXCEPT ![n + 1] = off[n] + Size(r)] \in [Nat -> Nat]
      BY <1>2, <2>2, <3>1
    <3>. QED BY <3>2
  <2>5. o[n + 1] = off[n] + Size(r) /\ \A k \in 0..n : o[k] = off[k]
    BY <1>2, <2>2, <2>4
  <2>6. ASSUME NEW k \in 1..Len(sent') PROVE o[k] = o[k - 1] + Size(sent'[k])
    <3>1. CASE k = n + 1
      <4>1. k - 1 = n /\ n \in 0..n
        BY <1>2, <3>1
      <4>. QED BY <1>2, <2>5, <3>1, <4>1
    <3>2. CASE k # n + 1
      <4>1. k \in 1..n /\ k - 1 \in 0..n /\ k \in 0..n
        BY <1>2, <3>2
      <4>. QED BY <1>2, <2>2, <2>5, <4>1 DEF Framed
    <3>. QED BY <3>1, <3>2
  <2>7. ASSUME NEW k \in 0..Len(sent'), NEW l \in 0..Len(sent'), k <= l PROVE o[k] <= o[l]
    <3>1. CASE l <= n
      <4>1. k \in 0..n /\ l \in 0..n
        BY <1>2, <2>7, <3>1
      <4>. QED BY <2>2, <2>5, <2>7, <4>1 DEF Framed
    <3>2. CASE l = n + 1 /\ k <= n
      <4>1. k \in 0..n /\ n \in 0..n
        BY <1>2, <3>2
      <4>2. off[k] <= off[n] /\ off[k] \in Nat
        BY <2>2, <4>1, <3>2, <1>2 DEF Framed
      <4>3. o[k] = off[k] /\ o[l] = off[n] + Size(r) /\ Size(r) \in Nat
        BY <1>7, <2>5, <3>2, <4>1
      <4>. QED BY <2>3, <4>2, <4>3
    <3>3. CASE k = l
      <4>1. o[k] \in Nat
        BY <1>2, <2>4
      <4>. QED BY <3>3, <4>1
    <3>. QED BY <1>2, <2>7, <3>1, <3>2, <3>3
  <2>8. o[Len(sent')] = o[Len(delivered)] + (pos' + Total')
    <3>1. o[Len(delivered)] = off[Len(delivered)] /\ off[Len(delivered)] \in Nat
      BY <1>2, <2>0, <2>2, <2>5
    <3>2. off[n] = off[Len(delivered)] + (pos + Total)
      BY <2>2 DEF Framed
    <3>3. Total \in Nat /\ pos' = pos /\ Total' = Total + Size(r) /\ Size(r) \in Nat /\ pos \in Nat
      <4>1. Total \in Nat
        BY <1>7, <1>8
      <4>. QED BY <1>3, <1>7, <1>8, <4>1
    <3>4. o[Len(sent')] = off[n] + Size(r)
      BY <1>2, <2>5
    <3>5. \A a \in Nat : (a + (pos + Total)) + Size(r) = a + (pos' + Total')
      BY <3>3
    <3>. QED BY <1>3, <3>1, <3>2, <3>4, <3>5
  <2>9. ASSUME NEW k \in (Len(delivered) + 1)..Len(sent'), NEW j \in 1..Size(sent'[k])
        PROVE  ByteAt(o[k - 1] - o[Len(delivered)] + j)' = FrameAt(sent'[k], j)
    <3>0. Len(delivered) \in 0..n /\ o[Len(delivered)] = off[Len(delivered)] /\ Total \in Nat
          /\ off[Len(delivered)] \in Nat /\ delivered' = delivered /\ pos' = pos /\ buf' = buf
          /\ pos \in Nat /\ Size(r) \in Nat
      <4>1. Len(delivered) \in 0..n /\ o[Len(delivered)] = off[Len(delivered)]
        BY <1>2, <2>0, <2>5
      <4>2. Total \in Nat
        BY <1>7, <1>8
      <4>3. off[Len(delivered)] \in Nat
        BY <2>0, <2>2
      <4>. QED BY <1>3, <1>7, <4>1, <4>2, <4>3
    <3>i. PICK i : i = o[k - 1] - o[Len(delivered)] + j
      OBVIOUS
    <3>1. CASE k = n + 1
      <4>1. k - 1 = n /\ n \in 0..n /\ sent'[k] = r /\ j \in 1..Size(r)
        BY <1>2, <3>1
      <4>2. off[n] = off[Len(delivered)] + (pos + Total) /\ o[k - 1] = off[n]
        BY <2>2, <2>5, <4>1 DEF Framed
      <4>3. o[k - 1] - o[Len(delivered)] + j = pos + (Total + j) /\ j \in Nat /\ 1 <= j
        BY <3>0, <4>1, <4>2, SMTT(30)
      <4>4. PICK x : x = Total + j
        OBVIOUS
      <4>5. ~(i <= pos) /\ i - pos = x /\ i \in Nat
        <5>1. x \in Nat /\ 1 <= x /\ i = pos + x /\ pos \in Nat
          BY <3>0, <3>i, <4>3, <4>4
        <5>. QED BY <5>1
      <4>6. ByteAt(i)' = StreamAt(x)'
        BY <3>0, <4>5 DEF ByteAt
      <4>7. StreamAt(x)' = FrameAt(r, j)
        BY <1>10, <4>1, <4>4
      <4>. QED BY <3>0, <3>i, <4>1, <4>6, <4>7
    <3>2. CASE k # n + 1
      <4>1. k \in (Len(delivered) + 1)..n /\ k \in 1..n /\ k - 1 \in 0..n
        <5>1. k \in Nat /\ k <= n + 1 /\ Len(delivered) + 1 <= k /\ n \in Nat /\ Len(delivered) \in Nat
          BY <1>2, <2>0
        <5>2. k <= n
          BY <3>2, <5>1
        <5>. QED BY <5>1, <5>2
      <4>2. sent'[k] = sent[k] /\ o[k - 1] = off[k - 1] /\ j \in 1..Size(sent[k])
        BY <1>2, <2>5, <4>1
      <4>3. i = off[k - 1] - off[Len(delivered)] + j
        BY <3>0, <3>i, <4>2
      <4>4. i \in 1..pos + Total
        BY <2>0, <2>2, <4>1, <4>2, <4>3, InRange
      <4>5. ByteAt(i) = FrameAt(sent[k], j)
        BY <2>2, <4>1, <4>2, <4>3 DEF Framed
      <4>6. ByteAt(i)' = ByteAt(i)
        <5>1. CASE i <= pos
          BY <3>0, <5>1 DEF ByteAt
        <5>2. CASE ~(i <= pos)
          <6>1. PICK x : x = i - pos
            OBVIOUS
          <6>2. x \in 1..Total
            BY <3>0, <4>4, <5>2, <6>1
          <6>3. StreamAt(x)' = StreamAt(x)
            BY <1>9, <6>2
          <6>4. ByteAt(i)' = StreamAt(x)' /\ ByteAt(i) = StreamAt(x)
            BY <3>0, <5>2, <6>1 DEF ByteAt
          <6>. QED BY <6>3, <6>4
        <5>. QED BY <5>1, <5>2
      <4>. QED BY <3>0, <3>i, <4>2, <4>5, <4>6
    <3>. QED BY <3>1, <3>2
  <2>10. Framed(o)'
    BY <1>3, <2>6, <2>7, <2>8, <2>9 DEF Framed, Size, FrameAt, hdr_len
  <2>. QED BY <2>1, <2>10 DEF Streamed
<1>. QED BY <1>4, <1>11

(* What the parser has of the next message, and where it ends. *)
LEMMA NextFrame ==
  ASSUME TypeOK, Records, Streamed, ipc1_input
  PROVE  \E off \in [Nat -> Nat] :
           LET d == Len(delivered)
               r == sent[d + 1]
           IN  /\ Framed(off) /\ Prefix /\ d \in Nat /\ d + 1 \in 1..Len(sent)
               /\ r \in Rec /\ Size(r) <= cap /\ Len(r.val) < LenRange /\ Len(r.val) \in Nat
               /\ off[d] \in Nat /\ off[d + 1] = off[d] + Size(r)
               /\ \A j \in 1..Size(r) : ByteAt(j) = FrameAt(r, j)
<1>1. PICK off \in [Nat -> Nat] : Framed(off)
  BY DEF Streamed
<1>. DEFINE d == Len(delivered)
            r == sent[d + 1]
<1>2. Prefix /\ d \in Nat /\ d <= Len(sent) /\ Len(sent) \in Nat /\ pos \in Nat
  BY Counts DEF Streamed, Prefix
<1>3. d < Len(sent)
  <2>1. Total \in Nat \ {0}
    BY StreamTakes
  <2>2. off[d] \in Nat /\ off[Len(sent)] = off[d] + (pos + Total)
    BY <1>1, <1>2 DEF Framed
  <2>3. off[Len(sent)] # off[d]
    BY <1>2, <2>1, <2>2
  <2>4. Len(sent) # d
    BY <2>3
  <2>. QED BY <1>2, <2>4
<1>4. d + 1 \in 1..Len(sent) /\ d + 1 \in (d + 1)..Len(sent) /\ (d + 1) - 1 = d
  BY <1>2, <1>3
<1>5. r \in Rec /\ Size(r) <= cap /\ Len(r.val) < LenRange /\ Len(r.val) \in Nat /\ Size(r) \in Nat
  BY <1>4, Counts DEF Records
<1>6. off[d] \in Nat /\ off[d + 1] = off[d] + Size(r)
  <2>1. off[d + 1] = off[(d + 1) - 1] + Size(r)
    BY <1>1, <1>4 DEF Framed
  <2>. QED BY <1>2, <1>4, <2>1
<1>7. ASSUME NEW j \in 1..Size(r) PROVE ByteAt(j) = FrameAt(r, j)
  <2>1. ByteAt(off[(d + 1) - 1] - off[d] + j) = FrameAt(r, j)
    BY <1>1, <1>4 DEF Framed
  <2>2. off[(d + 1) - 1] - off[d] + j = j
    BY <1>4, <1>5, <1>6
  <2>. QED BY <2>1, <2>2
<1>. QED BY <1>1, <1>2, <1>4, <1>5, <1>6, <1>7

(* The fields of a frame, where the parser looks for them. *)
LEMMA FrameFields ==
  ASSUME NEW r \in Rec, NEW L \in Nat, NEW v \in Nat, L = Len(LEADNG), v = Len(r.val)
  PROVE  /\ hdr_len = L + 3 /\ Size(r) = L + 3 + v
         /\ \A i \in 1..L : FrameAt(r, i) = LEADNG[i]
         /\ FrameAt(r, L + 1) = r.seq /\ FrameAt(r, L + 2) = r.type /\ FrameAt(r, L + 3) = v
         /\ \A i \in 1..v : FrameAt(r, L + 3 + i) = r.val[i]
<1>1. hdr_len = L + 3
  BY DEF hdr_len
<1>2. Size(r) = L + 3 + v
  BY <1>1 DEF Size
<1>3. \A i \in 1..L : FrameAt(r, i) = LEADNG[i]
  BY DEF FrameAt
<1>4. ASSUME NEW j \in 1..3 PROVE FrameAt(r, L + j) = <<r.seq, r.type, Len(r.val)>>[j]
  <2>1. ~(L + j <= L) /\ L + j <= L + 3 /\ (L + j) - L = j
    OBVIOUS
  <2>. QED BY <1>1, <2>1 DEF FrameAt
<1>5. FrameAt(r, L + 1) = r.seq /\ FrameAt(r, L + 2) = r.type /\ FrameAt(r, L + 3) = Len(r.val)
  BY <1>4
<1>6. ASSUME NEW i \in 1..v PROVE FrameAt(r, L + 3 + i) = r.val[i]
  <2>1. ~(L + 3 + i <= L) /\ ~(L + 3 + i <= L + 3) /\ (L + 3 + i) - (L + 3) = i
    OBVIOUS
  <2>. QED BY <1>1, <2>1 DEF FrameAt
<1>. QED BY <1>1, <1>2, <1>3, <1>5, <1>6

(* A buffer that begins with a whole frame yields its message. *)
LEMMA Decode ==
  ASSUME NEW r \in Rec, NEW b, \A j \in 1..Size(r) : b[j - 1] = FrameAt(r, j)
  PROVE  /\ Length(b) = Len(r.val) /\ msg_sz(b) = Size(r)
         /\ [seq |-> b[hdr_len - 3], type |-> b[hdr_len - 2],
             val |-> [i \in 1..Length(b) |-> b[hdr_len + i - 1]]] = r
<1>1. PICK L \in Nat, v \in Nat : L = Len(LEADNG) /\ v = Len(r.val)
  BY Ipc1Assumption DEF Rec
<1>2. /\ hdr_len = L + 3 /\ Size(r) = L + 3 + v
      /\ FrameAt(r, L + 1) = r.seq /\ FrameAt(r, L + 2) = r.type /\ FrameAt(r, L + 3) = v
      /\ \A i \in 1..v : FrameAt(r, L + 3 + i) = r.val[i]
  BY <1>1, FrameFields
<1>3. \A j \in 1..L + 3 + v : b[j - 1] = FrameAt(r, j)
  BY <1>2
<1>4. /\ L + 1 \in 1..L + 3 + v /\ L + 2 \in 1..L + 3 + v /\ L + 3 \in 1..L + 3 + v
      /\ (L + 1) - 1 = hdr_len - 3 /\ (L + 2) - 1 = hdr_len - 2 /\ (L + 3) - 1 = hdr_len - 1
  BY <1>2
<1>5. b[hdr_len - 3] = r.seq /\ b[hdr_len - 2] = r.type /\ b[hdr_len - 1] = v
  <2>1. b[(L + 1) - 1] = r.seq /\ b[(L + 2) - 1] = r.type /\ b[(L + 3) - 1] = v
    BY <1>2, <1>3, <1>4
  <2>. QED BY <1>4, <2>1
<1>6. Length(b) = v /\ msg_sz(b) = Size(r)
  BY <1>2, <1>5 DEF Length, msg_sz
<1>7. ASSUME NEW i \in 1..v PROVE b[hdr_len + i - 1] = r.val[i]
  <2>1. L + 3 + i \in 1..L + 3 + v /\ (L + 3 + i) - 1 = hdr_len + i - 1
    BY <1>2
  <2>2. b[(L + 3 + i) - 1] = r.val[i]
    BY <1>2, <1>3, <2>1
  <2>. QED BY <2>1, <2>2
<1>8. [i \in 1..v |-> b[hdr_len + i - 1]] = r.val
  <2>1. [i \in 1..v |-> b[hdr_len + i - 1]] = [i \in 1..v |-> r.val[i]]
    BY <1>7
  <2>2. PICK s \in Seq(Byte) : s = r.val
    BY DEF Rec
  <2>3. s = [i \in 1..Len(s) |-> s[i]]
    OBVIOUS
  <2>. QED BY <1>1, <2>1, <2>2, <2>3
<1>9. r = [seq |-> r.seq, type |-> r.type, val |-> r.val]
  BY DEF Rec
<1>. QED BY <1>1, <1>5, <1>6, <1>8, <1>9

(* One byte of a stream of whole frames: the parser keeps it, or it        *)
(* completes the frame of the next message.                                *)
LEMMA InputStep ==
  ASSUME TypeOK, TypeOK', NoFrameLeft, Records, Streamed, ipc1_input
  PROVE  Streamed'
<1>d. PICK d, r : d = Len(delivered) /\ r = sent[d + 1]
  OBVIOUS
<1>1. PICK off \in [Nat -> Nat] :
        /\ Framed(off) /\ Prefix /\ d \in Nat /\ d + 1 \in 1..Len(sent)
        /\ r \in Rec /\ Size(r) <= cap /\ Len(r.val) < LenRange /\ Len(r.val) \in Nat
        /\ off[d] \in Nat /\ off[d + 1] = off[d] + Size(r)
        /\ \A j \in 1..Size(r) : ByteAt(j) = FrameAt(r, j)
  BY <1>d, NextFrame
<1>r. PICK L \in Nat, v \in Nat : L = Len(LEADNG) /\ v = Len(r.val)
  BY <1>1, Ipc1Assumption DEF Rec
<1>n. PICK n \in Nat, T \in Nat \ {0}, p \in Nat : n = Len(sent) /\ T = Total /\ p = pos + 1
  <2>1. Total \in Nat \ {0}
    BY StreamTakes
  <2>2. Len(sent) \in Nat /\ pos \in Nat
    BY Counts
  <2>. QED BY <2>1, <2>2
<1>2. /\ hdr_len = L + 3 /\ Size(r) = L + 3 + v /\ L + 3 + v <= cap /\ cap \in Nat /\ pos \in Nat
      /\ d + 1 <= n /\ sent' = sent
      /\ \A i \in 1..L : FrameAt(r, i) = LEADNG[i]
      /\ FrameAt(r, L + 3) = v
  <2>1. /\ hdr_len = L + 3 /\ Size(r) = L + 3 + v
        /\ \A i \in 1..L : FrameAt(r, i) = LEADNG[i]
        /\ FrameAt(r, L + 3) = v
    BY <1>1, <1>r, FrameFields, ZenonT(40)
  <2>2. cap \in Nat /\ pos \in Nat /\ d + 1 <= n
    BY <1>1, <1>n, Ipc1Assumption, Counts
  <2>3. sent' = sent
    BY DEF ipc1_input, writer
  <2>. QED BY <1>1, <2>1, <2>2, <2>3
<1>3. /\ Total' = T - 1 /\ Head(rd) = StreamAt(1)
      /\ \A i \in 1..T - 1 : StreamAt(i)' = StreamAt(i + 1)
  BY <1>n, StreamTakes
<1>b. \A j \in 1..L + 3 + v : ByteAt(j) = FrameAt(r, j)
  BY <1>1, <1>2
<1>4. pos < L + 3 + v
  <2>1. CASE pos < L + 3
    BY <1>2, <2>1
  <2>2. CASE pos >= L + 3
    <3>1. pos < hdr_len + buf[hdr_len - 1]
      BY <1>2, <2>2 DEF NoFrameLeft, msg_sz, Length
    <3>2. L + 3 \in 1..L + 3 + v /\ L + 3 <= pos
      BY <2>2
    <3>3. buf[(L + 3) - 1] = v
      BY <1>2, <1>b, <3>2 DEF ByteAt
    <3>4. pos < (L + 3) + v
      BY <1>2, <3>1, <3>3
    <3>. QED BY <3>4
  <2>. QED BY <1>2, <2>1, <2>2
<1>5. ~Full
  BY <1>2, <1>4 DEF Full
<1>m. PICK b : b = [buf EXCEPT ![pos] = Head(rd)]
  OBVIOUS
<1>6. \/ /\ parse_state = "sync" /\ p < hdr_len
         /\ buf' = b /\ pos' = p /\ UNCHANGED delivered
      \/ /\ parse_state = "sync" /\ p >= hdr_len /\ ~HasLeading(b)
      \/ /\ Payload(b, p)
  BY <1>5, <1>m, <1>n, Zenon DEF ipc1_input
<1>7. p <= L + 3 + v /\ 1 <= p
  BY <1>2, <1>4, <1>n
<1>8. ASSUME NEW j \in 1..p PROVE b[j - 1] = FrameAt(r, j)
  <2>1. j \in 1..L + 3 + v /\ j - 1 \in 0..(cap - 1) /\ pos \in 0..(cap - 1)
    BY <1>2, <1>4, <1>7
  <2>2. ByteAt(j) = FrameAt(r, j) /\ buf \in [0..(cap - 1) -> Byte]
    BY <1>b, <2>1 DEF TypeOK
  <2>3. CASE j <= pos
    <3>1. ByteAt(j) = buf[j - 1] /\ j - 1 # pos
      BY <1>2, <2>3 DEF ByteAt
    <3>. QED BY <1>m, <2>1, <2>2, <3>1
  <2>4. CASE j = pos + 1
    <3>1. ~(j <= pos) /\ j - pos = 1 /\ j - 1 = pos
      BY <1>2, <2>4
    <3>2. ByteAt(j) = StreamAt(1)
      BY <3>1 DEF ByteAt
    <3>. QED BY <1>3, <1>m, <2>1, <2>2, <3>1, <3>2
  <2>. QED BY <1>2, <1>n, <2>3, <2>4
<1>9. ~(parse_state = "sync" /\ p >= hdr_len /\ ~HasLeading(b))
  <2>. SUFFICES ASSUME p >= hdr_len PROVE HasLeading(b)
    OBVIOUS
  <2>1. ASSUME NEW i \in 1..L PROVE b[i - 1] = LEADNG[i]
    <3>1. i \in 1..p
      BY <1>2
    <3>2. b[i - 1] = FrameAt(r, i)
      BY <1>8, <3>1
    <3>. QED BY <1>2, <3>2
  <2>. QED BY <1>r, <2>1 DEF HasLeading
<1>10. ASSUME buf' = b, pos' = p, delivered' = delivered PROVE Streamed'
  <2>1. pos' + Total' = pos + Total /\ pos' \in Nat /\ Total' \in Nat
    <3>1. T - 1 \in Nat /\ p + (T - 1) = pos + T
      BY <1>2, <1>n
    <3>. QED BY <1>3, <1>10, <1>n, <3>1
  <2>2. ASSUME NEW i \in 1..pos + Total PROVE ByteAt(i)' = ByteAt(i)
    <3>0. i \in 1..pos + T
      BY <1>n
    <3>1. CASE i <= p
      <4>1. i \in 1..p /\ i \in 1..L + 3 + v
        BY <1>2, <1>7, <3>0, <3>1
      <4>2. ByteAt(i)' = b[i - 1]
        BY <1>10, <3>1 DEF ByteAt
      <4>3. b[i - 1] = FrameAt(r, i) /\ ByteAt(i) = FrameAt(r, i)
        BY <1>8, <1>b, <4>1
      <4>. QED BY <4>2, <4>3
    <3>2. CASE ~(i <= p)
      <4>1. PICK x : x = i - p
        OBVIOUS
      <4>2. x \in 1..T - 1 /\ x + 1 = i - pos /\ ~(i <= pos)
        BY <1>2, <1>n, <3>0, <3>2, <4>1
      <4>3. ByteAt(i)' = StreamAt(x)'
        BY <1>10, <3>2, <4>1 DEF ByteAt
      <4>4. ByteAt(i) = StreamAt(x + 1)
        BY <4>2 DEF ByteAt
      <4>. QED BY <1>3, <4>2, <4>3, <4>4
    <3>. QED BY <3>1, <3>2
  <2>. QED BY <1>1, <1>2, <1>10, <2>1, <2>2, SameBytes
<1>11. CASE parse_state = "sync" /\ p < hdr_len /\ buf' = b /\ pos' = p /\ UNCHANGED delivered
  BY <1>10, <1>11
<1>12. CASE Payload(b, p)
  <2>2. CASE p < msg_sz(b)
    BY <1>10, <1>12, <2>2 DEF Payload
  <2>3. CASE ~(p < msg_sz(b))
    <3>0. p = L + 3 + v
      <4>1. b[hdr_len - 1] \in Nat
        <5>1. hdr_len - 1 \in 0..(cap - 1)
          BY <1>2
        <5>2. rd \in Seq(Byte) /\ rd # <<>>
          BY DEF TypeOK, ipc1_input
        <5>3. Head(rd) \in Byte
          BY <5>2, HeadTailProperties
        <5>4. b \in [0..(cap - 1) -> Byte]
          BY <1>m, <5>3 DEF TypeOK
        <5>. QED BY <5>1, <5>4, Ipc1Assumption
      <4>2. p >= L + 3
        BY <1>2, <2>3, <4>1 DEF msg_sz, Length
      <4>3. L + 3 \in 1..p
        BY <4>2
      <4>4. b[(L + 3) - 1] = v
        BY <1>2, <1>8, <4>3
      <4>5. msg_sz(b) = (L + 3) + v
        BY <1>2, <4>4 DEF msg_sz, Length
      <4>. QED BY <1>7, <2>3, <4>5
    <3>1. \A j \in 1..Size(r) : b[j - 1] = FrameAt(r, j)
      BY <1>2, <1>8, <3>0
    <3>2. /\ msg_sz(b) = Size(r)
          /\ [seq |-> b[hdr_len - 3], type |-> b[hdr_len - 2],
              val |-> [i \in 1..Length(b) |-> b[hdr_len + i - 1]]] = r
      BY <1>1, <3>1, Decode
    <3>3. msg_sz(b) >= p
      BY <1>2, <3>0, <3>2
    <3>4. pos' = 0 /\ delivered' = Append(delivered, r)
      BY <1>12, <2>3, <3>2, <3>3 DEF Payload, ipc1_input_msg
    <3>5. /\ delivered' \in Seq(Rec) /\ Len(delivered') = d + 1 /\ delivered'[d + 1] = r
          /\ \A i \in 1..d : delivered'[i] = delivered[i]
      <4>1. delivered \in Seq(Rec)
        BY <1>1 DEF Prefix
      <4>. QED BY <1>1, <1>d, <3>4, <4>1, AppendProperties
    <3>6. Prefix'
      <4>1. ASSUME NEW i \in 1..d + 1 PROVE delivered'[i] = sent[i]
        <5>1. CASE i = d + 1
          BY <1>d, <3>5, <5>1
        <5>2. CASE i # d + 1
          <6>0. d \in Nat
            BY <1>1
          <6>1. i \in 1..d
            BY <5>2, <6>0
          <6>2. delivered[i] = sent[i]
            BY <1>1, <1>d, <6>1 DEF Prefix
          <6>. QED BY <3>5, <6>1, <6>2
        <5>. QED BY <5>1, <5>2
      <4>. QED BY <1>2, <1>n, <3>5, <4>1 DEF Prefix
    <3>7. off[Len(sent')] = off[Len(delivered')] + (pos' + Total')
      <4>1. off[n] = off[d] + (pos + T)
        BY <1>1, <1>d, <1>n DEF Framed
      <4>2. off[d + 1] = off[d] + p
        BY <1>1, <1>2, <3>0
      <4>3. PICK a \in Nat : a = off[d]
        BY <1>1
      <4>4. a + (pos + T) = (a + p) + (0 + (T - 1))
        BY <1>2, <1>n
      <4>. QED BY <1>2, <1>3, <1>n, <3>4, <3>5, <4>1, <4>2, <4>3, <4>4
    <3>8. ASSUME NEW k \in (d + 2)..n, NEW j \in 1..Size(sent[k]),
                 NEW i, i = off[k - 1] - off[d + 1] + j
          PROVE  ByteAt(i)' = FrameAt(sent[k], j)
      <4>0. d \in Nat /\ n \in Nat /\ k \in Nat /\ d + 2 <= k /\ k <= n
        BY <1>1
      <4>1. /\ k \in (d + 1)..n /\ k \in 1..n /\ k - 1 \in 0..n /\ d + 1 \in 0..n
            /\ d + 1 <= k - 1 /\ k - 1 \in Nat /\ d + 1 \in Nat
        BY <4>0
      <4>2. PICK x : x = off[k - 1] - off[d] + j
        OBVIOUS
      <4>3. x \in 1..pos + T
        BY <1>1, <1>d, <1>n, <4>1, <4>2, InRange
      <4>4. ByteAt(x) = FrameAt(sent[k], j)
        BY <1>1, <1>d, <1>n, <4>1, <4>2 DEF Framed
      <4>5. PICK a \in Nat, e \in Nat : a = off[d] /\ e = off[k - 1]
        BY <1>1, <4>1
      <4>6. off[d + 1] = a + p /\ a + p <= e
        <5>1. off[d + 1] <= off[k - 1]
          BY <1>1, <1>n, <4>1 DEF Framed
        <5>2. off[d + 1] = a + p
          BY <1>1, <1>2, <3>0, <4>5
        <5>. QED BY <4>5, <5>1, <5>2
      <4>7. j \in Nat /\ 1 <= j
        <5>1. Size(sent[k]) \in Nat
          BY <1>n, <4>1, Counts
        <5>. QED BY <5>1
      <4>8. i = e - (a + p) + j /\ x = e - a + j
        BY <3>8, <4>2, <4>5, <4>6
      <4>9. i \in Nat /\ 1 <= i /\ x = i + p
        BY <4>6, <4>7, <4>8
      <4>10. i \in 1..T - 1 /\ ~(x <= pos) /\ x - pos = i + 1
        BY <1>2, <1>n, <4>3, <4>9
      <4>11. ByteAt(x) = StreamAt(i + 1)
        BY <4>10 DEF ByteAt
      <4>12. ByteAt(i)' = StreamAt(i)'
        <5>1. ~(i <= 0) /\ i - 0 = i
          BY <4>9
        <5>. QED BY <3>4, <5>1 DEF ByteAt
      <4>13. StreamAt(i)' = StreamAt(i + 1)
        BY <1>3, <4>10
      <4>. QED BY <4>4, <4>11, <4>12, <4>13
    <3>9. Framed(off)'
      <4>1. ASSUME NEW k \in (Len(delivered') + 1)..Len(sent'), NEW j \in 1..Size(sent'[k])
            PROVE  ByteAt(off[k - 1] - off[Len(delivered)] + j)' = FrameAt(sent'[k], j)
        <5>0. d \in Nat
          BY <1>1
        <5>1. Len(delivered') = d + 1 /\ sent' = sent /\ Len(sent') = n
          BY <1>2, <1>n, <3>5
        <5>2. k \in (d + 2)..n /\ j \in 1..Size(sent[k])
          <6>1. k \in ((d + 1) + 1)..n /\ (d + 1) + 1 = d + 2
            BY <5>0, <5>1
          <6>. QED BY <5>1, <6>1
        <5>3. PICK i : i = off[k - 1] - off[d + 1] + j
          OBVIOUS
        <5>4. ByteAt(i)' = FrameAt(sent[k], j)
          BY <3>8, <5>2, <5>3
        <5>. QED BY <5>1, <5>3, <5>4
      <4>2. \A k \in 1..Len(sent') : off[k] = off[k - 1] + Size(sent'[k])
        BY <1>1, <1>2 DEF Framed
      <4>3. \A k, l \in 0..Len(sent') : k <= l => off[k] <= off[l]
        BY <1>1, <1>2 DEF Framed
      <4>. QED BY <3>7, <4>1, <4>2, <4>3 DEF Framed, Size, FrameAt, hdr_len
    <3>. QED BY <3>6, <3>9 DEF Streamed
  <2>. QED BY <2>2, <2>3
<1>. QED BY <1>6, <1>9, <1>11, <1>12

(* If every message fits, the messages of ipc1_write come out of           *)
(* ipc1_input unchanged and in the order in which the mutex was taken,     *)
(* until a write fails: for every capacity, mark and payload, payloads     *)
(* that hold the mark included, and however the stream is cut up.          *)
THEOREM Ordered == Spec => []InOrder
<1>1. Init => DInv
  <2>. SUFFICES ASSUME Init PROVE DInv
    OBVIOUS
  <2>1. TypeOK /\ NoFrameLeft
    BY HdrLen, Ipc1Assumption DEF Init, TypeOK, NoFrameLeft
  <2>2. Records
    <3>1. sent \in Seq(Rec) /\ Len(sent) = 0
      BY DEF Init
    <3>2. 1..0 = {}
      OBVIOUS
    <3>. QED BY <3>1, <3>2 DEF Init, Records
  <2>3. Prefix
    BY EmptySeq DEF Init, Prefix
  <2>4. PICK off \in [Nat -> Nat] : off = [k \in Nat |-> 0]
    OBVIOUS
  <2>5. Len(sent) = 0 /\ Len(delivered) = 0 /\ pos = 0 /\ Total = 0
    BY DEF Init, Total
  <2>6. Framed(off)
    BY <2>4, <2>5 DEF Framed
  <2>. QED BY <2>1, <2>2, <2>3, <2>6 DEF DInv, Streamed
<1>2. ASSUME Fits, DInv, [Next]_vars PROVE DInv'
  <2>0. TypeOK /\ NoFrameLeft /\ Records /\ TypeOK' /\ NoFrameLeft'
    BY <1>2, StepSafe DEF DInv
  <2>1. CASE \E t \in Thread, m \in Message : Locked(t, m)
    <3>1. torn' = torn
      BY <2>1 DEF Locked, Numbered
    <3>. QED BY <1>2, <2>0, <2>1, <3>1, WriteStep DEF DInv
  <2>2. CASE WriteSome \/ ipc1_cb
    <3>1. torn' = torn /\ Records'
      BY <2>0, <2>2 DEF WriteSome, ipc1_cb, writer, Records, Size, hdr_len
    <3>. QED BY <1>2, <2>0, <2>2, <3>1, MoveStep DEF DInv
  <2>3. CASE ipc1_input
    <3>1. torn' = torn /\ Records'
      BY <2>0, <2>3 DEF ipc1_input, writer, Records, Size, hdr_len
    <3>. QED BY <1>2, <2>0, <2>3, <3>1, InputStep DEF DInv
  <2>4. CASE WriteError
    <3>1. torn' = TRUE /\ Records'
      BY <2>0, <2>4 DEF WriteError, Records, Size, hdr_len
    <3>. QED BY <2>0, <3>1 DEF DInv
  <2>5. CASE \/ \E t \in Thread, m \in Message : ipc1_write(t, m) \/ LateWrite(t, m)
             \/ WriteDone \/ Quit \/ ipc1_destroy \/ UNCHANGED vars
    <3>1. /\ UNCHANGED <<header, data, sock, rd, buf, pos, sent, delivered, torn>>
          /\ mutex' = mutex \/ (header = <<>> /\ data = <<>>)
      BY <2>5 DEF ipc1_write, LateWrite, WriteDone, Quit, ipc1_destroy, vars, writer, parser
    <3>2. Records'
      BY <2>0, <3>1 DEF Records, Size, hdr_len
    <3>3. ASSUME Streamed PROVE Streamed'
      <4>1. Total' = Total /\ pos' = pos /\ sent' = sent /\ delivered' = delivered
        BY <3>1 DEF Total
      <4>2. \A i \in 1..pos + Total : ByteAt(i)' = ByteAt(i)
        BY <3>1 DEF ByteAt, StreamAt
      <4>. QED BY <2>0, <3>3, <4>1, <4>2, Counts, SameBytes
    <3>. QED BY <1>2, <2>0, <3>1, <3>2, <3>3 DEF DInv
  <2>. QED BY <1>2, <2>1, <2>2, <2>3, <2>4, <2>5 DEF Next, Finished
<1>3. (Fits => DInv) => InOrder
  <2>. SUFFICES ASSUME Fits, Fits => DInv, ~torn PROVE IsPrefix(delivered, sent)
    BY DEF InOrder
  <2>1. Prefix /\ sent \in Seq(Rec)
    BY DEF DInv, Streamed, Records
  <2>2. SubSeq(delivered, 1, Len(delivered)) = SubSeq(sent, 1, Len(delivered))
    BY <2>1 DEF Prefix
  <2>. QED BY <2>1, <2>2 DEF IsPrefix, Prefix
<1>4. Init => (Fits => DInv)
  BY <1>1
<1>5. (Fits => DInv) /\ [Next]_vars => (Fits => DInv)'
  <2>1. Fits' = Fits
    BY DEF Fits, hdr_len
  <2>. QED BY <1>2, <2>1
<1>. QED BY <1>3, <1>4, <1>5, PTL DEF Spec
=============================================================================

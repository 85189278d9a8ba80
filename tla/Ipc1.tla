-------------------------------- MODULE Ipc1 --------------------------------
(***************************************************************************)
(* The message pipe of tester1/ipc.cpp: threads call ipc1_write, which     *)
(* frames a message and writes it to one end of a stream socket pair; the  *)
(* event loop reads the other end in pieces and ipc1_input puts the frames *)
(* together again.                                                         *)
(*                                                                         *)
(* A byte is a small number.  A frame is the leading mark, one byte each   *)
(* for seq, type and length, and the payload; the real fields are two      *)
(* bytes wide, which only changes hdr_len.  A read of the socket and the   *)
(* parsing of each byte it returned are separate steps of the loop.  The   *)
(* write end never closes before ipc1_destroy, so ipc1_cb's branches for   *)
(* end of file and read errors are not taken; EAGAIN changes nothing.      *)
(*                                                                         *)
(* A call of ipc1_write waits for ipc_mutex with the address of the pipe   *)
(* in its hands.  Nothing ties that address to the life of the pipe: a     *)
(* call that gets the mutex after ipc1_destroy goes on with freed memory   *)
(* (LateWrite).                                                            *)
(***************************************************************************)
EXTENDS Integers, Sequences, SequencesExt, FiniteSets

CONSTANTS
  Thread,       \* threads that call ipc1_write
  Message,      \* [type, val] records they send
  LEADNG,       \* IPC1_MSG_LEADNG, a sequence of bytes
  SeqRange,       \* 2^16, the range of the seq field
  LenRange,       \* 2^16, the range of the length field
  Byte,         \* values a byte of the stream can have
  cap,          \* sizeof(msg_fb_data)
  SockCap,      \* bytes the socket pair buffers
  ReadMax,      \* most bytes one read returns
  MaxWrites,    \* bound on the calls of ipc1_write
  WriteFails,   \* whether write can fail in the middle of a frame
  NoThread      \* the mutex's owner when it is free

hdr_len == Len(LEADNG) + 3

ASSUME Ipc1Assumption ==
  /\ NoThread \notin Thread
  /\ Byte \subseteq Nat /\ Byte # {}
  /\ LEADNG \in Seq(Byte)
  /\ SeqRange \in Nat \ {0} /\ LenRange \in Nat \ {0}
  /\ cap \in Nat /\ hdr_len <= cap
  /\ {SockCap, ReadMax, MaxWrites} \subseteq Nat

ASSUME Ipc1Bytes ==
  /\ 0..(SeqRange - 1) \subseteq Byte /\ 0..(LenRange - 1) \subseteq Byte
  /\ \A m \in Message : m.type \in Byte /\ m.val \in Seq(Byte)
  /\ WriteFails \in BOOLEAN

VARIABLES
  ctx,          \* "running", "quitting" (the loop has ended) or "freed"
  waiting,      \* calls of ipc1_write, <<thread, message>>, that wait for ipc_mutex
  mutex,        \* owner of ipc_mutex
  msg_seq,      \* next sequence number
  header,       \* bytes of its header the owner of the mutex has yet to write
  data,         \* bytes of its payload it has yet to write
  sock,         \* bytes in the socket pair
  rd,           \* bytes ipc1_cb has read and not yet parsed
  buf,          \* msg_fb_data, what is left of older frames included
  pos,          \* msg_fb.pos
  parse_state,  \* "sync" or "payload"
  sent,         \* history: messages in the order the mutex was taken
  delivered,    \* history: messages given to ipc1_input_msg
  torn          \* history: some frame was left unfinished

writer == <<waiting, mutex, msg_seq, header, data, sent, torn>>
parser == <<buf, pos, parse_state, delivered>>
vars == <<ctx, waiting, mutex, msg_seq, header, data, sock, rd, buf, pos, parse_state,
          sent, delivered, torn>>

(* ipc1_init *)
Init ==
  /\ ctx = "running" /\ waiting = {} /\ mutex = NoThread /\ msg_seq = 1 % SeqRange
  /\ header = <<>> /\ data = <<>> /\ sock = <<>> /\ rd = <<>>
  /\ buf = [i \in 0..(cap - 1) |-> CHOOSE b \in Byte : TRUE]
  /\ pos = 0 /\ parse_state = "sync"
  /\ sent = <<>> /\ delivered = <<>> /\ torn = FALSE
-----------------------------------------------------------------------------
(* The sending side *)

(* A thread calls ipc1_write and comes to pthread_mutex_lock.  Any thread  *)
(* may, at any time: nobody waits for them before the pipe is destroyed.   *)
ipc1_write(t, m) ==
  /\ t # mutex /\ \A w \in waiting : w[1] # t
  /\ Len(sent) + Cardinality(waiting) < MaxWrites
  /\ waiting' = waiting \cup {<<t, m>>}
  /\ UNCHANGED <<ctx, mutex, msg_seq, header, data, sock, rd, parser, sent, torn>>

(* The call of t has the mutex: it numbers its message, finds fd[1] in the  *)
(* pipe and has its header ready to write.                                  *)
Numbered(t, m) ==
  /\ ctx # "freed" /\ <<t, m>> \in waiting
  /\ waiting' = waiting \ {<<t, m>>} /\ mutex' = t
  /\ header' = LEADNG \o <<msg_seq, m.type, Len(m.val) % LenRange>>
  /\ data' = m.val
  /\ sent' = Append(sent, [seq |-> msg_seq, type |-> m.type, val |-> m.val])
  /\ msg_seq' = (msg_seq + 1) % SeqRange
  /\ UNCHANGED <<ctx, sock, rd, parser, torn>>

(* Mutant: the frame is written without the mutex. *)
Locked_unlocked(t, m) == Numbered(t, m)

(* The mutex is granted to one of the waiting calls. *)
Locked(t, m) == mutex = NoThread /\ Numbered(t, m)

(* The same after ipc1_destroy: the number is taken, then fd[1] is read     *)
(* from freed memory, and what is written goes to whatever descriptor that  *)
(* names; the pipe is gone and is not reached any more.                     *)
LateWrite(t, m) ==
  /\ mutex = NoThread /\ ctx = "freed" /\ <<t, m>> \in waiting
  /\ waiting' = waiting \ {<<t, m>>} /\ msg_seq' = (msg_seq + 1) % SeqRange
  /\ UNCHANGED <<ctx, mutex, header, data, sock, rd, parser, sent, torn>>

(* One write of the two loops: it blocks while the socket is full and may   *)
(* take any part of what is offered.                                        *)
WriteSome ==
  /\ mutex # NoThread
  /\ LET rest == IF header # <<>> THEN header ELSE data IN
     \E n \in 1..Len(rest) :
       /\ Len(sock) + n <= SockCap
       /\ sock' = sock \o SubSeq(rest, 1, n)
       /\ IF header # <<>>
            THEN header' = SubSeq(rest, n + 1, Len(rest)) /\ data' = data
            ELSE data' = SubSeq(rest, n + 1, Len(rest)) /\ header' = header
  /\ UNCHANGED <<ctx, waiting, mutex, msg_seq, rd, parser, sent, torn>>

(* Mutant: the mutex is kept after the last byte. *)
WriteDone_hold ==
  /\ mutex # NoThread /\ header = <<>> /\ data = <<>>
  /\ UNCHANGED vars

(* The frame is complete: unlock and return. *)
WriteDone ==
  /\ mutex # NoThread /\ header = <<>> /\ data = <<>>
  /\ mutex' = NoThread
  /\ UNCHANGED <<ctx, waiting, msg_seq, header, data, sock, rd, parser, sent, torn>>

(* write fails: the rest of the frame is given up. *)
WriteError ==
  /\ WriteFails /\ mutex # NoThread /\ (header # <<>> \/ data # <<>>)
  /\ mutex' = NoThread /\ header' = <<>> /\ data' = <<>> /\ torn' = TRUE
  /\ UNCHANGED <<ctx, waiting, msg_seq, sock, rd, parser, sent>>
-----------------------------------------------------------------------------
(* The receiving side *)

(* ipc1_cb: one read. *)
ipc1_cb ==
  /\ ctx = "running" /\ rd = <<>>
  /\ \E n \in 1..ReadMax :
       /\ n <= Len(sock)
       /\ rd' = SubSeq(sock, 1, n) /\ sock' = SubSeq(sock, n + 1, Len(sock))
  /\ UNCHANGED <<ctx, writer, parser>>

(* memmove of the bytes k.. of the buffer b, p of them valid, to its start *)
memmove(b, p, k) == [i \in 0..(cap - 1) |-> IF i < p - k THEN b[i + k] ELSE b[i]]

HasLeading(b) == \A i \in 1..Len(LEADNG) : b[i - 1] = LEADNG[i]
Length(b) == b[hdr_len - 1]
msg_sz(b) == hdr_len + Length(b)

(* ipc1_input_msg: what the callback named by the message gets to see. *)
ipc1_input_msg(b) ==
  delivered' = Append(delivered, [seq |-> b[hdr_len - 3], type |-> b[hdr_len - 2],
                                  val |-> [i \in 1..Length(b) |-> b[hdr_len + i - 1]]])

(* Mutant: a frame is handed over one byte late. *)
Payload_late(b, p) ==
  /\ parse_state' = "payload"
  /\ IF p <= msg_sz(b) THEN buf' = b /\ pos' = p /\ UNCHANGED delivered
     ELSE /\ ipc1_input_msg(b)
          /\ buf' = memmove(b, p, msg_sz(b)) /\ pos' = p - msg_sz(b)

(* State payload: wait for the whole frame, hand it over, start the next.  *)
(* The state stays payload, and Length looks at bytes of an older frame     *)
(* until the new header is complete.                                        *)
Payload(b, p) ==
  /\ parse_state' = "payload"
  /\ IF p < msg_sz(b) THEN buf' = b /\ pos' = p /\ UNCHANGED delivered
     ELSE /\ ipc1_input_msg(b)
          /\ IF msg_sz(b) >= p
               THEN buf' = b /\ pos' = 0
               ELSE buf' = memmove(b, p, msg_sz(b)) /\ pos' = p - msg_sz(b)

(* "too long data" *)
Full == pos >= cap

(* One turn of ipc1_input's loop. *)
ipc1_input ==
  /\ ctx = "running" /\ rd # <<>>
  /\ LET at == IF Full THEN 0 ELSE pos
         st == IF Full THEN "sync" ELSE parse_state
         b  == [buf EXCEPT ![at] = Head(rd)]
         p  == at + 1
     IN \/ /\ st = "sync" /\ p < hdr_len
           /\ buf' = b /\ pos' = p /\ parse_state' = "sync" /\ UNCHANGED delivered
        \/ /\ st = "sync" /\ p >= hdr_len /\ ~HasLeading(b)
           /\ buf' = memmove(b, p, 1) /\ pos' = p - 1 /\ parse_state' = "sync"
           /\ UNCHANGED delivered
        \/ /\ st = "sync" => p >= hdr_len /\ HasLeading(b)
           /\ Payload(b, p)
  /\ rd' = Tail(rd)
  /\ UNCHANGED <<ctx, writer, sock>>
-----------------------------------------------------------------------------
(* The end of the program *)

(* The main loop ends between two callbacks; nothing reads any more. *)
Quit ==
  /\ ctx = "running" /\ rd = <<>> /\ ctx' = "quitting"
  /\ UNCHANGED <<writer, sock, rd, parser>>

(* Mutant: the pipe is torn down without the mutex. *)
ipc1_destroy_unlocked ==
  /\ ctx = "quitting" /\ ctx' = "freed"
  /\ UNCHANGED <<writer, sock, rd, parser>>

(* ipc1_destroy closes and frees once it has the mutex. *)
ipc1_destroy ==
  /\ ctx = "quitting" /\ mutex = NoThread /\ ctx' = "freed"
  /\ UNCHANGED <<writer, sock, rd, parser>>

(* The owner of the mutex has bytes to write and the socket has no room. *)
WriterBlocked == mutex # NoThread /\ (header # <<>> \/ data # <<>>) /\ Len(sock) >= SockCap

(* Nothing is left to happen: the pipe is gone, or ipc1_destroy waits for a *)
(* writer that waits for the loop to read.                                  *)
Finished ==
  /\ ctx = "freed" \/ (ctx = "quitting" /\ WriterBlocked)
  /\ UNCHANGED vars

Next ==
  \/ \E t \in Thread, m \in Message : ipc1_write(t, m) \/ Locked(t, m) \/ LateWrite(t, m)
  \/ WriteSome \/ WriteDone \/ WriteError
  \/ ipc1_cb \/ ipc1_input \/ Quit \/ ipc1_destroy \/ Finished

Spec == Init /\ [][Next]_vars

(* The loop and the threads inside ipc1_write keep running, and a free mutex *)
(* is granted to somebody.                                                  *)
FairSpec ==
  /\ Spec
  /\ WF_vars(\E t \in Thread, m \in Message : Locked(t, m))
  /\ WF_vars(ipc1_cb) /\ WF_vars(ipc1_input)
  /\ WF_vars(WriteSome) /\ WF_vars(WriteDone) /\ WF_vars(ipc1_destroy)
-----------------------------------------------------------------------------
(* Properties *)

TypeOK ==
  /\ ctx \in {"running", "quitting", "freed"}
  /\ waiting \subseteq Thread \X Message
  /\ mutex \in Thread \cup {NoThread}
  /\ msg_seq \in 0..(SeqRange - 1)
  /\ header \in Seq(Byte) /\ data \in Seq(Byte)
  /\ sock \in Seq(Byte) /\ rd \in Seq(Byte)
  /\ buf \in [0..(cap - 1) -> Byte] /\ pos \in 0..cap
  /\ parse_state \in {"sync", "payload"}

(* Every message fits the buffer and its length the length field. *)
Fits == \A m \in Message : hdr_len + Len(m.val) <= cap /\ Len(m.val) < LenRange

(* Whatever the pieces in which the stream was written and read, and        *)
(* whichever threads wrote, ipc1_input delivers the messages of ipc1_write  *)
(* unchanged and in their order, if they fit and no write has failed.       *)
InOrder == Fits /\ ~torn => IsPrefix(delivered, sent)

(* ipc1_input leaves no complete frame in its buffer, so the branch it logs *)
(* as "sanity check, more data existed" is never taken.  This holds after a *)
(* failed write and for garbage too.                                        *)
NoFrameLeft ==
  /\ parse_state = "sync" => pos < hdr_len
  /\ pos >= hdr_len => pos < msg_sz(buf)

(* ipc1_destroy closes the pipe between two frames: no thread that has the  *)
(* number of its message is overtaken by close and free before its last     *)
(* byte, though others may be waiting for ipc_mutex at that moment.  Those  *)
(* are not protected: see LateWrite.                                        *)
NoFrameCut == ctx = "freed" => mutex = NoThread /\ header = <<>> /\ data = <<>>

(* Every message is delivered in the end while the loop runs. *)
Delivered ==
  \A k \in 1..MaxWrites :
    (Len(sent) >= k /\ ~torn) ~> (Len(delivered) >= k \/ torn \/ ctx # "running")

(* ipc1_destroy, called once the loop has ended and nobody reads, returns,  *)
(* or the thread that has the mutex waits for room in the socket: that is   *)
(* the only way in which it hangs.                                          *)
DestroyCompletes == ctx = "quitting" ~> (ctx = "freed" \/ WriterBlocked)
=============================================================================

----------------------------- MODULE VideoProofs -----------------------------
(***************************************************************************)
(* The capture service of v4l2.cpp and the RTSP server of                  *)
(* tester_v4l2rtsp2.cpp, for any number of buffers, and the image          *)
(* conversions, for any frame.  They share nothing; their modules are V, S,*)
(* Y and Q of Clients.                                                     *)
(***************************************************************************)
EXTENDS Clients, QentProofs, FiniteSetTheorems

-----------------------------------------------------------------------------
(* v4l2.cpp.  Buffer indexes are numbers, so that they differ from the two  *)
(* values that say where a callback without a buffer is.                    *)
Indexes == Index \subseteq Nat

(* The program has every buffer of d; or the driver has the first ones.     *)
Returned(d) == \A b \in Index : d[b] = "app"
Front(d) == \A b, c \in Index : d[b] # "app" /\ c <= b => d[c] = "queued"

(* What CaptureExact says between callbacks holds inside one as well, but   *)
(* for the buffer the callback has in hand; and a callback runs only while  *)
(* the capture is started.                                                  *)
VInv ==
  /\ V!TypeOK
  /\ ev <=> v_state = "START"
  /\ fd <=> v_state # "none"
  /\ cb # V!NoCb => v_state = "START"
  /\ v_state = "START" =>
       on /\ \A b \in Index \ missing : b # cb => drv[b] \in {"queued", "filled"}
  /\ v_state # "START" => (on => unstopped) /\ (~half => Returned(drv)) /\ (~on => Front(drv))
  /\ v_state = "none" => ~on
  /\ half => v_state = "OPEN" /\ ~Returned(drv)

(* v4l2_queue_all without a refusal queues every buffer. *)
LEMMA QueueAll ==
  ASSUME NEW failed, V!Refused(failed) = {}
  PROVE  V!v4l2_queue_all(failed) = [b \in Index |-> "queued"]
BY DEF V!v4l2_queue_all

(* What v4l2_queue_all leaves are owners of buffers. *)
LEMMA QueueType ==
  ASSUME NEW failed, V!TypeOK
  PROVE  V!v4l2_queue_all(failed) \in [Index -> {"app", "queued", "filled"}]
BY DEF V!v4l2_queue_all, V!TypeOK

(* It leaves the first buffers with the driver if they were before.         *)
LEMMA QueueFront ==
  ASSUME Indexes, NEW failed, V!TypeOK, Front(drv)
  PROVE  Front(V!v4l2_queue_all(failed))
<1>. DEFINE d == V!v4l2_queue_all(failed)
            Low(b) == \A c \in V!Refused(failed) : b < c
<1>1. \A b \in Index : d[b] = IF Low(b) THEN "queued" ELSE drv[b]
  BY DEF V!v4l2_queue_all
<1>2. ASSUME NEW b \in Index, NEW c \in Index, d[b] # "app", c <= b PROVE d[c] = "queued"
  <2>1. CASE Low(b)
    <3>1. Low(c)
      BY <1>2, <2>1 DEF Indexes, V!Refused
    <3>. QED BY <1>1, <3>1
  <2>2. CASE ~Low(b)
    <3>1. drv[c] = "queued"
      BY <1>1, <1>2, <2>2 DEF Front
    <3>. QED BY <1>1, <3>1
  <2>. QED BY <2>1, <2>2
<1>. HIDE DEF d
<1>. QED BY <1>2 DEF Front, d

(* A buffer the driver has is refused.                                      *)
LEMMA RefusedAgain ==
  ASSUME NEW failed, V!Refused(failed) = {} PROVE Returned(drv)
BY DEF V!Refused, Returned

(* A step of start or stop that ends in the state OPEN.                     *)
LEMMA OpenOK ==
  ASSUME VInv, V!TypeOK', v_state' = "OPEN", ~ev', fd', cb' = V!NoCb, V!Leaves,
         on' => unstopped', ~on' => Front(drv')
  PROVE  VInv'
<1>1. half' <=> ~Returned(drv')
  BY DEF V!Leaves, V!WithDriver, Returned
<1>. QED BY <1>1 DEF VInv

(* The invariant is inductive. *)
LEMMA CaptureStep == ASSUME Indexes, VInv, [V!Next]_V!vars PROVE VInv'
<1>. USE DEF V!Idle, V!NoCb, V!Dequeuing, V!history
<1>1. CASE V!v4l2_init
  BY <1>1 DEF V!v4l2_init, V!v4l2_open, VInv, V!TypeOK
<1>2. CASE V!v4l2_destroy
  BY <1>2 DEF V!v4l2_destroy, V!v4l2_close, VInv, V!TypeOK, Returned, Front
<1>3. CASE V!CliStart
  <2>1. PICK failed \in SUBSET Index, streams \in BOOLEAN, added \in {"yes", "no", "stuck"} :
               V!v4l2_start(failed, streams, added)
    BY <1>3 DEF V!CliStart
  <2>2. v_state = "OPEN" /\ cb = V!NoCb /\ cb' = V!NoCb /\ ~ev /\ fd /\ fd' = fd
    BY <1>3 DEF V!CliStart, VInv
  <2>3. CASE V!Refused(failed) # {} \/ ~streams
    <3>1. /\ drv' = V!v4l2_queue_all(failed) /\ V!Leaves
          /\ UNCHANGED <<v_state, ev, on, missing, unstopped>>
      BY <2>1, <2>3 DEF V!v4l2_start
    <3>2. drv' \in [Index -> {"app", "queued", "filled"}] /\ half' \in BOOLEAN
      BY <3>1, QueueType DEF V!Leaves, VInv
    <3>3. V!TypeOK'
      BY <2>2, <3>1, <3>2 DEF VInv, V!TypeOK
    <3>4. ~on' => Front(drv')
      BY <2>2, <3>1, QueueFront DEF VInv
    <3>. QED BY <2>2, <3>1, <3>3, <3>4, OpenOK DEF VInv
  <2>4. CASE ~(V!Refused(failed) # {} \/ ~streams)
    <3>1. V!v4l2_queue_all(failed) = [b \in Index |-> "queued"] /\ ~half
      BY <2>4, QueueAll, RefusedAgain DEF VInv
    <3>2. CASE added = "yes"
      BY <2>1, <2>2, <2>4, <3>1, <3>2 DEF V!v4l2_start, VInv, V!TypeOK
    <3>3. CASE added # "yes"
      <4>1. /\ V!StreamOff(added = "no", [b \in Index |-> "queued"]) /\ V!Leaves
            /\ UNCHANGED <<v_state, ev, missing>>
        BY <2>1, <2>4, <3>1, <3>3 DEF V!v4l2_start
      <4>2. /\ on' \in BOOLEAN /\ unstopped' = on' /\ half' \in BOOLEAN
            /\ drv' = IF on' THEN [b \in Index |-> "queued"] ELSE [b \in Index |-> "app"]
        BY <4>1 DEF V!StreamOff, V!Leaves
      <4>3. V!TypeOK' /\ (~on' => Front(drv'))
        BY <2>2, <4>1, <4>2 DEF VInv, V!TypeOK, Front
      <4>. QED BY <2>2, <4>1, <4>2, <4>3, OpenOK
    <3>. QED BY <3>2, <3>3
  <2>. QED BY <2>3, <2>4
<1>4. CASE V!CliStop
  <2>1. PICK ok \in BOOLEAN : V!v4l2_stop(ok) /\ UNCHANGED cb
    BY <1>4 DEF V!CliStop
  <2>2. /\ ev' = FALSE /\ v_state' = "OPEN" /\ v_state = "START" /\ fd /\ fd' = fd
        /\ cb' = cb /\ cb = V!NoCb /\ V!Leaves /\ missing' \subseteq Index
        /\ on' = ~ok /\ unstopped' = ~ok /\ drv' = IF ok THEN [b \in Index |-> "app"] ELSE drv
    BY <1>4, <2>1 DEF V!CliStop, V!v4l2_stop, V!StreamOff, VInv, V!TypeOK
  <2>3. half' \in BOOLEAN
    BY <2>2 DEF V!Leaves
  <2>4. V!TypeOK' /\ (~on' => Front(drv'))
    BY <2>2, <2>3 DEF VInv, V!TypeOK, Front
  <2>. QED BY <2>2, <2>4, OpenOK
<1>5. CASE V!v4l2_streamcap_cb
  BY <1>5 DEF V!v4l2_streamcap_cb, Indexes, VInv, V!TypeOK
<1>6. CASE V!v4l2_streamcap_deq
  BY <1>6 DEF V!v4l2_streamcap_deq, Indexes, VInv, V!TypeOK
<1>7. CASE V!v4l2_streamcap_enq
  <2>1. CASE drv' = [drv EXCEPT ![cb] = "queued"] /\ cb' = V!Dequeuing /\ UNCHANGED missing
    BY <1>7, <2>1 DEF V!v4l2_streamcap_enq, Indexes, VInv, V!TypeOK
  <2>2. CASE missing' = missing \cup {cb} /\ cb' = V!NoCb /\ UNCHANGED drv
    <3>1. missing' \subseteq Index
      BY <1>7, <2>2 DEF V!v4l2_streamcap_enq, VInv, V!TypeOK
    <3>. QED BY <1>7, <2>2, <3>1 DEF V!v4l2_streamcap_enq, Indexes, VInv, V!TypeOK
  <2>. QED BY <1>7, <2>1, <2>2 DEF V!v4l2_streamcap_enq
<1>8. ASSUME NEW b \in Index, V!Fill(b) PROVE VInv'
  <2>1. /\ on /\ drv[b] = "queued" /\ drv' = [drv EXCEPT ![b] = "filled"]
        /\ UNCHANGED <<v_state, fd, ev, on, cb, missing, half, unstopped>>
    BY <1>8 DEF V!Fill
  <2>2. V!TypeOK'
    BY <2>1 DEF VInv, V!TypeOK
  <2>3. ~Returned(drv) /\ ~Returned(drv')
    BY <2>1 DEF Returned, VInv, V!TypeOK
  <2>4. \A c \in Index : drv[c] \in {"queued", "filled"} => drv'[c] \in {"queued", "filled"}
    BY <2>1 DEF VInv, V!TypeOK
  <2>. QED BY <2>1, <2>2, <2>3, <2>4 DEF VInv
<1>9. CASE UNCHANGED V!vars
  BY <1>9 DEF V!vars, VInv, V!TypeOK
<1>. QED BY <1>1, <1>2, <1>3, <1>4, <1>5, <1>6, <1>7, <1>8, <1>9 DEF V!Next

(* v4l2_start, v4l2_stop and v4l2_streamcap_cb, whichever of their driver   *)
(* calls fail and for any number of buffers, leave the state, the           *)
(* registration, the stream and the owners of the buffers in agreement; a   *)
(* start or a stop that fails half-way and leaves buffers with the driver   *)
(* is the last: no start succeeds from there.                               *)
THEOREM CaptureSafe == ASSUME Indexes PROVE V!Spec => []CaptureExact
<1>1. V!Init => VInv
  BY DEF V!Init, VInv, V!TypeOK, V!NoCb, V!Dequeuing, Returned, Front
<1>2. ASSUME VInv PROVE CaptureExact
  <2>1. V!WithDriver(drv) = {} <=> Returned(drv)
    BY DEF V!WithDriver, Returned
  <2>2. ASSUME Front(drv), NEW b \in V!WithDriver(drv), NEW c \in Index, c <= b PROVE drv[c] = "queued"
    BY <2>2 DEF V!WithDriver, Front
  <2>3. ASSUME v_state = "START", cb = V!NoCb, NEW b \in Index \ missing PROVE drv[b] \in {"queued", "filled"}
    BY <1>2, <2>3 DEF VInv, V!NoCb, Indexes
  <2>. QED BY <1>2, <2>1, <2>2, <2>3 DEF CaptureExact, VInv, V!CaptureExact, V!Idle
<1>. QED BY <1>1, <1>2, CaptureStep, PTL DEF V!Spec

-----------------------------------------------------------------------------
(* tester_v4l2rtsp2.cpp.  VIDIOC_REQBUFS grants a number of buffers, and a  *)
(* frame has a number of units.                                             *)
Camera == IsFiniteSet(Buf) /\ MaxNal \in Nat

Units == [frame : Nat, nal : Nat, of : Nat, charged : BOOLEAN]

RType ==
  /\ queued \subseteq Buf /\ lost \subseteq Buf
  /\ filled \in Seq(Buf) /\ stale \in Seq(Buf)
  /\ frames \in Nat /\ frameOf \in [Buf -> Nat]
  /\ source \in BOOLEAN /\ awaiting \in BOOLEAN /\ reading \in BOOLEAN
  /\ handler \in {"off", "drain", "requeue", "refused", "encode"}
  /\ handler # "off" => buf \in Buf
  /\ nalQueue \in Seq(Units) /\ last \in Units

(* The buffers the read handler has dequeued and not yet given back. *)
Held == (IF handler = "off" THEN {} ELSE {buf})
          \cup (IF handler \in {"drain", "requeue", "refused"} THEN Elems(stale) ELSE {})

(* Every buffer is in one place, and once there. *)
Partition ==
  /\ Buf = queued \cup Elems(filled) \cup Held \cup lost
  /\ queued \cap (Elems(filled) \cup Held \cup lost) = {}
  /\ Elems(filled) \cap (Held \cup lost) = {}
  /\ Held \cap lost = {}
  /\ handler \in {"drain", "requeue", "refused"} => buf \notin Elems(stale) /\ NoDup(stale)
  /\ NoDup(filled)

(* A frame is awaited only when no unit is left; the handler runs only for  *)
(* an awaited frame, and outside it an awaited frame has it registered.     *)
Asked ==
  /\ awaiting => source /\ nalQueue = <<>>
  /\ handler # "off" => awaiting
  /\ awaiting /\ handler = "off" => reading
  /\ nalQueue # <<>> => source

(* The driver's filled buffers are in the order of their frames, later than *)
(* what the handler has in hand, and that later than the last one delivered *)
(* to this client and than those the drain has passed over.                 *)
Chronological ==
  /\ \A i, j \in 1..Len(filled) : i < j => frameOf[filled[i]] < frameOf[filled[j]]
  /\ \A b \in Elems(filled) :
       /\ 0 < frameOf[b] /\ frameOf[b] <= frames
       /\ source => last.frame < frameOf[b]
       /\ handler # "off" => frameOf[buf] < frameOf[b]
  /\ handler # "off" => last.frame < frameOf[buf] /\ frameOf[buf] <= frames
  /\ handler \in {"drain", "requeue", "refused"} => \A b \in Elems(stale) : frameOf[b] < frameOf[buf]
  /\ last.frame <= frames

(* The units queued are the rest of the image of the last one delivered.    *)
InHand ==
  /\ source => (last.charged <=> nalQueue = <<>>)
  /\ \A i \in 1..Len(nalQueue) :
       /\ nalQueue[i].frame = last.frame /\ nalQueue[i].of = last.of
       /\ nalQueue[i].nal = last.nal + i
  /\ nalQueue # <<>> => last.of = last.nal + Len(nalQueue)

RInv == RType /\ Partition /\ Asked /\ Chronological /\ InHand

(* Rtsp's Range is the set of the entries of a sequence. *)
LEMMA RangeElems ==
  ASSUME NEW W, NEW s \in Seq(W) PROVE S!Range(s) = Elems(s)
BY LenProperties DEF S!Range, Elems

(* And its Cardinality is that of FiniteSets. *)
LEMMA SameCardinality == \A W : S!Cardinality(W) = Cardinality(W)
BY DEF S!Cardinality, Cardinality

(* The units of a frame, in their order. *)
LEMMA SplitProp ==
  ASSUME NEW f \in Nat, NEW n \in Nat
  PROVE  LET q == S!splitAnnexBNals(f, n) IN
         /\ q \in Seq(Units) /\ Len(q) = n
         /\ \A i \in 1..n : q[i] = [frame |-> f, nal |-> i, of |-> n, charged |-> FALSE]
<1>. DEFINE q == S!splitAnnexBNals(f, n)
<1>1. q = [i \in 1..n |-> [frame |-> f, nal |-> i, of |-> n, charged |-> FALSE]]
  BY DEF S!splitAnnexBNals
<1>2. q \in [1..n -> Units]
  BY <1>1 DEF Units
<1>. QED BY <1>1, <1>2

(* A sequence is empty when its length is zero. *)
LEMMA EmptyLen == ASSUME NEW W, NEW s \in Seq(W) PROVE s = <<>> <=> Len(s) = 0
<1>1. s # <<>> => Len(s) # 0
  BY EmptySeq
<1>. QED BY <1>1, EmptySeq

(* A unit that is charged, or not, is otherwise the same. *)
LEMMA Charge ==
  ASSUME NEW u \in Units, NEW c \in BOOLEAN
  PROVE  LET v == [u EXCEPT !.charged = c] IN
         /\ v \in Units /\ v.charged = c
         /\ v.frame = u.frame /\ v.nal = u.nal /\ v.of = u.of
BY DEF Units

(* A delivery takes the first unit of the queue. *)
LEMMA DeliverProp ==
  ASSUME NEW q \in Seq(Units), q # <<>>, S!Deliver(q)
  PROVE  /\ awaiting' = FALSE /\ nalQueue' \in Seq(Units)
         /\ Len(q) \in Nat \ {0} /\ Len(nalQueue') = Len(q) - 1
         /\ \A i \in 1..Len(nalQueue') : nalQueue'[i] = q[i+1]
         /\ last' \in Units /\ last'.frame = q[1].frame /\ last'.nal = q[1].nal
         /\ last'.of = q[1].of /\ (last'.charged <=> nalQueue' = <<>>)
         /\ (nalQueue' = <<>> <=> Len(q) = 1)
         /\ q[1] \in Units
<1>1. /\ Head(q) \in Units /\ Head(q) = q[1] /\ Tail(q) \in Seq(Units)
      /\ Len(q) \in Nat \ {0} /\ Len(Tail(q)) = Len(q) - 1
      /\ \A i \in 1..Len(Tail(q)) : Tail(q)[i] = q[i+1]
  BY HeadTailProperties, EmptySeq
<1>2. /\ awaiting' = FALSE /\ nalQueue' = Tail(q)
      /\ last' = [Head(q) EXCEPT !.charged = (Tail(q) = <<>>)]
  BY DEF S!Deliver
<1>3. Tail(q) = <<>> <=> Len(q) = 1
  <2>1. Tail(q) = <<>> <=> Len(Tail(q)) = 0
    BY <1>1, EmptyLen
  <2>. QED BY <1>1, <2>1
<1>4. /\ last' \in Units /\ last'.frame = q[1].frame /\ last'.nal = q[1].nal
      /\ last'.of = q[1].of /\ (last'.charged <=> Tail(q) = <<>>)
  <2>. DEFINE c == Tail(q) = <<>>
  <2>1. c \in BOOLEAN /\ last' = [q[1] EXCEPT !.charged = c] /\ q[1] \in Units
    BY <1>1, <1>2
  <2>. HIDE DEF c
  <2>2. /\ last' \in Units /\ last'.frame = q[1].frame /\ last'.nal = q[1].nal
        /\ last'.of = q[1].of /\ last'.charged = c
    BY <2>1, Charge
  <2>. QED BY <2>1, <2>2 DEF c
<1>. QED BY <1>1, <1>2, <1>3, <1>4

(* Capture moves one buffer from the queued to the end of the filled ones.  *)
LEMMA CaptureFrame ==
  ASSUME RInv, NEW b \in Buf, S!Capture(b) PROVE RInv'
<1>1. /\ b \in queued /\ frames' = frames + 1 /\ frameOf' = [frameOf EXCEPT ![b] = frames + 1]
      /\ queued' = queued \ {b} /\ filled' = Append(filled, b)
      /\ source' = source /\ awaiting' = awaiting /\ reading' = reading
      /\ handler' = handler /\ buf' = buf /\ stale' = stale
      /\ nalQueue' = nalQueue /\ last' = last /\ lost' = lost
  BY DEF S!Capture, S!client
<1>2. b \notin Elems(filled) /\ b \notin Held
  BY <1>1 DEF RInv, Partition
<1>3. /\ filled' \in Seq(Buf) /\ Elems(filled') = Elems(filled) \cup {b} /\ NoDup(filled')
  BY <1>1, <1>2, AppendProp DEF RInv, RType, Partition
<1>4. RType'
  BY <1>1, <1>3 DEF RInv, RType
<1>5. Held' = Held
  BY <1>1 DEF Held
<1>6. Partition'
  BY <1>1, <1>2, <1>3, <1>5 DEF RInv, Partition
<1>7. Asked' /\ InHand'
  BY <1>1 DEF RInv, Asked, InHand
<1>8. Chronological'
  <2>1. /\ Len(filled) \in Nat /\ Len(filled') = Len(filled) + 1
        /\ \A i \in 1..Len(filled) : filled'[i] = filled[i]
        /\ filled'[Len(filled) + 1] = b
    BY <1>1, AppendProperties, LenProperties DEF RInv, RType
  <2>2. \A c \in Buf : c # b => frameOf'[c] = frameOf[c]
    BY <1>1 DEF RInv, RType
  <2>3. frameOf'[b] = frames + 1 /\ frames \in Nat /\ frameOf \in [Buf -> Nat]
    BY <1>1 DEF RInv, RType
  <2>4. \A i \in 1..Len(filled) : filled[i] \in Elems(filled) /\ filled[i] \in Buf
    BY ElementOfSeq DEF Elems, RInv, RType
  <2>5. \A i \in 1..Len(filled) : filled'[i] = filled[i] /\ frameOf'[filled[i]] = frameOf[filled[i]]
                                /\ frameOf[filled[i]] <= frames
    BY <1>2, <2>1, <2>2, <2>4 DEF RInv, Chronological
  <2>6. \A i, j \in 1..Len(filled') : i < j => frameOf'[filled'[i]] < frameOf'[filled'[j]]
    <3>1. SUFFICES ASSUME NEW i \in 1..Len(filled'), NEW j \in 1..Len(filled'), i < j
                   PROVE  frameOf'[filled'[i]] < frameOf'[filled'[j]]
      OBVIOUS
    <3>2. i \in 1..Len(filled)
      BY <2>1, <3>1
    <3>3. CASE j \in 1..Len(filled)
      BY <2>5, <3>1, <3>2, <3>3 DEF RInv, Chronological
    <3>4. CASE j = Len(filled) + 1
      <4>1. frameOf[filled[i]] \in Nat
        BY <2>3, <2>4, <3>2
      <4>. QED BY <2>1, <2>3, <2>5, <3>2, <3>4, <4>1
    <3>. QED BY <2>1, <3>1, <3>3, <3>4
  <2>7. last.frame \in Nat /\ last.frame <= frames
    BY DEF RInv, RType, Units, Chronological
  <2>8. handler # "off" => buf \in Buf /\ buf # b /\ frameOf'[buf] = frameOf[buf]
    BY <1>2, <2>2 DEF Held, RInv, RType
  <2>9. \A c \in Elems(filled') :
          /\ 0 < frameOf'[c] /\ frameOf'[c] <= frames'
          /\ source' => last'.frame < frameOf'[c]
          /\ handler' # "off" => frameOf'[buf'] < frameOf'[c]
    <3>1. SUFFICES ASSUME NEW c \in Elems(filled')
                   PROVE  /\ 0 < frameOf'[c] /\ frameOf'[c] <= frames'
                          /\ source' => last'.frame < frameOf'[c]
                          /\ handler' # "off" => frameOf'[buf'] < frameOf'[c]
      OBVIOUS
    <3>2. CASE c \in Elems(filled)
      <4>1. c \in Buf /\ c # b /\ frameOf'[c] = frameOf[c] /\ frameOf[c] \in Nat
        BY <1>2, <2>2, <2>3, <3>2, ElemsType DEF RInv, RType
      <4>. QED BY <1>1, <2>3, <2>8, <3>2, <4>1 DEF RInv, Chronological
    <3>3. CASE c = b
      <4>1. handler # "off" => frameOf[buf] \in Nat /\ frameOf[buf] <= frames
        BY <2>3, <2>8 DEF RInv, Chronological
      <4>. QED BY <1>1, <2>3, <2>7, <2>8, <3>3, <4>1
    <3>. QED BY <1>3, <3>2, <3>3
  <2>10. handler' # "off" => last'.frame < frameOf'[buf'] /\ frameOf'[buf'] <= frames'
    <3>1. handler # "off" => frameOf[buf] \in Nat
      BY <2>3, <2>8
    <3>. QED BY <1>1, <2>3, <2>8, <3>1 DEF RInv, Chronological
  <2>11. handler' \in {"drain", "requeue", "refused"} =>
           \A c \in Elems(stale') : frameOf'[c] < frameOf'[buf']
    <3>1. handler \in {"drain", "requeue", "refused"} => \A c \in Elems(stale) : c \in Buf /\ c # b
      BY <1>2, ElemsType DEF Held, RInv, RType
    <3>. QED BY <1>1, <2>2, <2>8, <3>1 DEF RInv, Chronological
  <2>. QED BY <1>1, <2>3, <2>6, <2>7, <2>9, <2>10, <2>11 DEF Chronological
<1>. QED BY <1>4, <1>6, <1>7, <1>8 DEF RInv

(* A new source starts with no unit and nothing delivered. *)
LEMMA NewSource == ASSUME RInv, S!createNewStreamSource PROVE RInv'
<1>1. /\ ~source /\ source' = TRUE /\ last' = S!NoNal
      /\ queued' = queued /\ filled' = filled /\ frameOf' = frameOf /\ frames' = frames
      /\ awaiting' = awaiting /\ reading' = reading /\ handler' = handler /\ buf' = buf
      /\ stale' = stale /\ nalQueue' = nalQueue /\ lost' = lost
  BY DEF S!createNewStreamSource, S!driver
<1>2. handler = "off" /\ nalQueue = <<>> /\ awaiting = FALSE
  BY <1>1 DEF RInv, Asked, RType
<1>3. last' \in Units /\ last'.frame = 0 /\ last'.charged = TRUE
  BY <1>1 DEF S!NoNal, Units
<1>4. RType'
  BY <1>1, <1>3 DEF RInv, RType
<1>5. Partition'
  BY <1>1 DEF RInv, Partition, Held
<1>6. Asked'
  BY <1>1, <1>2 DEF RInv, Asked
<1>7. Chronological'
  BY <1>1, <1>2, <1>3 DEF RInv, RType, Chronological
<1>8. InHand'
  BY <1>1, <1>2, <1>3, EmptySeq DEF InHand
<1>. QED BY <1>4, <1>5, <1>6, <1>7, <1>8 DEF RInv

(* doGetNextFrame delivers the next unit of the image or registers the      *)
(* handler.                                                                 *)
LEMMA NextFrame == ASSUME RInv, S!GetNextFrame PROVE RInv'
<1>1. /\ source /\ ~awaiting /\ handler = "off"
      /\ queued' = queued /\ filled' = filled /\ frameOf' = frameOf /\ frames' = frames
      /\ source' = source /\ handler' = handler /\ buf' = buf
      /\ stale' = stale /\ lost' = lost
  BY DEF S!GetNextFrame, S!driver
<1>2. Partition'
  BY <1>1 DEF RInv, Partition, Held
<1>3. CASE S!deliverQueuedNal /\ reading' = reading
  <2>1. nalQueue # <<>> /\ S!Deliver(nalQueue) /\ nalQueue \in Seq(Units)
    BY <1>3 DEF S!deliverQueuedNal, RInv, RType
  <2>2. /\ awaiting' = FALSE /\ nalQueue' \in Seq(Units)
        /\ Len(nalQueue) \in Nat \ {0} /\ Len(nalQueue') = Len(nalQueue) - 1
        /\ \A i \in 1..Len(nalQueue') : nalQueue'[i] = nalQueue[i+1]
        /\ last' \in Units /\ last'.frame = nalQueue[1].frame /\ last'.nal = nalQueue[1].nal
        /\ last'.of = nalQueue[1].of /\ (last'.charged <=> nalQueue' = <<>>)
        /\ (nalQueue' = <<>> <=> Len(nalQueue) = 1)
    BY <2>1, DeliverProp
  <2>3. /\ last'.frame = last.frame /\ last'.nal = last.nal + 1 /\ last'.of = last.of
        /\ last.of = last.nal + Len(nalQueue) /\ last.nal \in Nat
    BY <2>1, <2>2, SMTT(30) DEF RInv, RType, Units, InHand
  <2>4. RType'
    BY <1>1, <1>3, <2>2 DEF RInv, RType
  <2>5. Asked'
    BY <1>1, <2>2 DEF RInv, Asked
  <2>6. Chronological'
    BY <1>1, <2>3 DEF RInv, Chronological
  <2>7. InHand'
    <3>1. \A i \in 1..Len(nalQueue') :
             /\ nalQueue'[i].frame = last'.frame /\ nalQueue'[i].of = last'.of
             /\ nalQueue'[i].nal = last'.nal + i
      <4>1. SUFFICES ASSUME NEW i \in 1..Len(nalQueue')
                     PROVE  /\ nalQueue'[i].frame = last'.frame /\ nalQueue'[i].of = last'.of
                            /\ nalQueue'[i].nal = last'.nal + i
        OBVIOUS
      <4>2. i+1 \in 1..Len(nalQueue) /\ nalQueue'[i] = nalQueue[i+1]
        BY <2>2
      <4>3. /\ nalQueue[i+1].frame = last.frame /\ nalQueue[i+1].of = last.of
            /\ nalQueue[i+1].nal = last.nal + (i+1)
        BY <4>2 DEF RInv, InHand
      <4>. QED BY <2>3, <4>2, <4>3
    <3>2. last'.of = last'.nal + Len(nalQueue')
      BY <2>2, <2>3
    <3>. QED BY <1>1, <2>2, <3>1, <3>2 DEF InHand
  <2>. QED BY <1>2, <2>4, <2>5, <2>6, <2>7 DEF RInv
<1>4. CASE /\ nalQueue = <<>> /\ reading' = TRUE /\ awaiting' = TRUE
           /\ nalQueue' = nalQueue /\ last' = last
  <2>1. RType' /\ Asked'
    BY <1>1, <1>4 DEF RInv, RType, Asked
  <2>2. Chronological' /\ InHand'
    BY <1>1, <1>4 DEF RInv, Chronological, InHand
  <2>. QED BY <1>2, <2>1, <2>2 DEF RInv
<1>. QED BY <1>3, <1>4 DEF S!GetNextFrame, S!doGetNextFrame

(* The last client's going drops the units and the handler. *)
LEMMA StopFrames == ASSUME RInv, S!doStopGettingFrames PROVE RInv'
<1>1. /\ source /\ handler = "off" /\ source' = FALSE /\ awaiting' = FALSE
      /\ reading' = FALSE /\ nalQueue' = <<>>
      /\ queued' = queued /\ filled' = filled /\ frameOf' = frameOf /\ frames' = frames
      /\ handler' = handler /\ buf' = buf /\ stale' = stale /\ last' = last /\ lost' = lost
  BY DEF S!doStopGettingFrames, S!driver
<1>2. RType' /\ Asked'
  BY <1>1, EmptySeq DEF RInv, RType, Asked
<1>3. Partition'
  BY <1>1 DEF RInv, Partition, Held
<1>4. Chronological'
  BY <1>1 DEF RInv, Chronological
<1>5. InHand'
  BY <1>1, EmptySeq DEF InHand
<1>. QED BY <1>2, <1>3, <1>4, <1>5 DEF RInv

(* VIDIOC_DQBUF takes the oldest filled buffer. *)
LEMMA Dequeue ==
  ASSUME RInv, filled # <<>>, S!dequeueBuffer
  PROVE  /\ buf' \in Buf /\ buf' \in Elems(filled)
         /\ filled' \in Seq(Buf) /\ NoDup(filled') /\ Elems(filled') = Elems(filled) \ {buf'}
         /\ \A i, j \in 1..Len(filled') : i < j => frameOf[filled'[i]] < frameOf[filled'[j]]
         /\ \A b \in Elems(filled') : frameOf[buf'] < frameOf[b]
<1>1. buf' = Head(filled) /\ filled' = Tail(filled) /\ filled \in Seq(Buf) /\ NoDup(filled)
  BY DEF S!dequeueBuffer, RInv, RType, Partition
<1>2. /\ buf' \in Buf /\ buf' \in Elems(filled)
      /\ filled' \in Seq(Buf) /\ NoDup(filled') /\ Elems(filled') = Elems(filled) \ {buf'}
  BY <1>1, PopProp
<1>3. /\ Head(filled) = filled[1] /\ Len(filled) \in Nat \ {0}
      /\ Len(filled') = Len(filled) - 1
      /\ \A i \in 1..Len(filled') : filled'[i] = filled[i+1]
  BY <1>1, HeadTailProperties, EmptySeq
<1>4. \A i, j \in 1..Len(filled') : i < j => frameOf[filled'[i]] < frameOf[filled'[j]]
  BY <1>3 DEF RInv, Chronological
<1>5. ASSUME NEW b \in Elems(filled') PROVE frameOf[buf'] < frameOf[b]
  <2>1. PICK i \in 1..Len(filled') : b = filled'[i]
    BY DEF Elems
  <2>2. b = filled[i+1] /\ i+1 \in 1..Len(filled) /\ 1 < i+1 /\ 1 \in 1..Len(filled)
    BY <1>3, <2>1
  <2>. QED BY <1>1, <1>3, <2>2 DEF RInv, Chronological
<1>. QED BY <1>2, <1>4, <1>5

(* The handler starts with the oldest filled buffer. *)
LEMMA HandlerEnters == ASSUME RInv, S!v4l2ReadableHandler PROVE RInv'
<1>1. /\ reading /\ awaiting /\ handler = "off" /\ filled # <<>> /\ S!dequeueBuffer
      /\ stale' = <<>> /\ handler' = "drain"
      /\ queued' = queued /\ frameOf' = frameOf /\ frames' = frames
      /\ source' = source /\ awaiting' = awaiting /\ reading' = reading
      /\ nalQueue' = nalQueue /\ last' = last /\ lost' = lost
  BY DEF S!v4l2ReadableHandler, S!client
<1>2. /\ buf' \in Buf /\ buf' \in Elems(filled)
      /\ filled' \in Seq(Buf) /\ NoDup(filled') /\ Elems(filled') = Elems(filled) \ {buf'}
      /\ \A i, j \in 1..Len(filled') : i < j => frameOf[filled'[i]] < frameOf[filled'[j]]
      /\ \A b \in Elems(filled') : frameOf[buf'] < frameOf[b]
  BY <1>1, Dequeue
<1>3. stale' \in Seq(Buf) /\ Elems(stale') = {} /\ NoDup(stale')
  <2>1. stale' = <<>> /\ stale' \in Seq(Buf) /\ Len(stale') = 0
    BY <1>1, EmptySeq
  <2>. QED BY <2>1 DEF Elems, NoDup
<1>4. RType' /\ Asked' /\ InHand'
  BY <1>1, <1>2, <1>3 DEF RInv, RType, Asked, InHand
<1>5. Held = {} /\ Held' = {buf'}
  BY <1>1, <1>3 DEF Held
<1>6. Partition'
  BY <1>1, <1>2, <1>3, <1>5 DEF RInv, Partition
<1>7. Chronological'
  BY <1>1, <1>2, <1>3 DEF RInv, Asked, Chronological
<1>. QED BY <1>4, <1>6, <1>7 DEF RInv

(* A newer buffer takes the place of the one in hand, or the drain ends. *)
LEMMA DrainStep == ASSUME RInv, S!DrainOlder PROVE RInv'
<1>1. /\ handler = "drain"
      /\ queued' = queued /\ frameOf' = frameOf /\ frames' = frames
      /\ source' = source /\ awaiting' = awaiting /\ reading' = reading
      /\ nalQueue' = nalQueue /\ last' = last /\ lost' = lost
  BY DEF S!DrainOlder, S!client
<1>2. CASE filled # <<>> /\ S!dequeueBuffer /\ stale' = Append(stale, buf) /\ handler' = handler
  <2>1. /\ buf' \in Buf /\ buf' \in Elems(filled)
        /\ filled' \in Seq(Buf) /\ NoDup(filled') /\ Elems(filled') = Elems(filled) \ {buf'}
        /\ \A i, j \in 1..Len(filled') : i < j => frameOf[filled'[i]] < frameOf[filled'[j]]
        /\ \A b \in Elems(filled') : frameOf[buf'] < frameOf[b]
    BY <1>2, Dequeue
  <2>2. /\ buf \in Buf /\ stale \in Seq(Buf) /\ buf \notin Elems(stale) /\ NoDup(stale)
    BY <1>1 DEF RInv, RType, Partition
  <2>3. stale' \in Seq(Buf) /\ Elems(stale') = Elems(stale) \cup {buf} /\ NoDup(stale')
    BY <1>2, <2>2, AppendProp
  <2>4. RType' /\ Asked' /\ InHand'
    BY <1>1, <1>2, <2>1, <2>3 DEF RInv, RType, Asked, InHand
  <2>5. Held = {buf} \cup Elems(stale) /\ Held' = Held \cup {buf'}
    BY <1>1, <1>2, <2>3 DEF Held
  <2>6. Partition'
    BY <1>1, <1>2, <2>1, <2>3, <2>5 DEF RInv, Partition
  <2>7. frameOf[buf] < frameOf[buf'] /\ frameOf \in [Buf -> Nat] /\ Elems(stale) \subseteq Buf
    BY <1>1, <2>1, <2>2, ElemsType DEF RInv, RType, Chronological
  <2>8. \A b \in Elems(stale') : frameOf[b] < frameOf[buf']
    BY <1>1, <2>1, <2>2, <2>3, <2>7 DEF RInv, Chronological
  <2>9. Chronological'
    BY <1>1, <1>2, <2>1, <2>8 DEF RInv, Asked, Chronological
  <2>. QED BY <2>4, <2>6, <2>9 DEF RInv
<1>3. CASE handler' \in {"requeue", "refused"} /\ filled' = filled /\ buf' = buf /\ stale' = stale
  <2>1. RType' /\ Asked' /\ InHand'
    BY <1>1, <1>3 DEF RInv, RType, Asked, InHand
  <2>2. Partition' /\ Chronological'
    BY <1>1, <1>3 DEF RInv, Partition, Held, Chronological
  <2>. QED BY <2>1, <2>2 DEF RInv
<1>. QED BY <1>2, <1>3 DEF S!DrainOlder

(* The buffers passed over go back, or are lost where VIDIOC_QBUF fails. *)
LEMMA RequeueStep == ASSUME RInv, S!RequeueStale PROVE RInv'
<1>1. /\ handler \in {"requeue", "refused"} /\ handler' = "encode" /\ reading' = FALSE
      /\ filled' = filled /\ frameOf' = frameOf /\ frames' = frames
      /\ source' = source /\ awaiting' = awaiting /\ buf' = buf /\ stale' = stale
      /\ nalQueue' = nalQueue /\ last' = last
  BY DEF S!RequeueStale
<1>2. PICK failed \in SUBSET Elems(stale) :
         queued' = queued \cup (Elems(stale) \ failed) /\ lost' = lost \cup failed
  BY RangeElems DEF S!RequeueStale, S!enqueueBuffer, RInv, RType
<1>3. buf \in Buf /\ buf \notin Elems(stale) /\ Elems(stale) \subseteq Buf
  BY <1>1, ElemsType DEF RInv, RType, Partition
<1>4. RType' /\ Asked' /\ InHand'
  BY <1>1, <1>2, <1>3 DEF RInv, RType, Asked, InHand
<1>5. Held = {buf} \cup Elems(stale) /\ Held' = {buf}
  BY <1>1 DEF Held
<1>6. Partition'
  BY <1>1, <1>2, <1>3, <1>5 DEF RInv, Partition
<1>7. Chronological'
  BY <1>1 DEF RInv, Chronological
<1>. QED BY <1>4, <1>6, <1>7 DEF RInv

(* The units of the newest frame are queued and the first is delivered. *)
LEMMA EncodeStep == ASSUME Camera, RInv, S!Encode PROVE RInv'
<1>1. /\ handler = "encode" /\ handler' = "off"
      /\ filled' = filled /\ frameOf' = frameOf /\ frames' = frames
      /\ source' = source /\ buf' = buf /\ stale' = stale
  BY DEF S!Encode
<1>2. PICK failed \in SUBSET {buf} :
         queued' = queued \cup ({buf} \ failed) /\ lost' = lost \cup failed
  BY DEF S!Encode, S!enqueueBuffer
<1>3. /\ source /\ awaiting /\ nalQueue = <<>> /\ buf \in Buf /\ frameOf[buf] \in Nat
  BY <1>1 DEF RInv, RType, Asked
<1>4. Held = {buf} /\ Held' = {}
  BY <1>1 DEF Held
<1>5. Partition'
  BY <1>1, <1>2, <1>4 DEF RInv, Partition
<1>6. PICK n \in 0..MaxNal :
         LET q == nalQueue \o S!splitAnnexBNals(frameOf[buf], n)
         IN  IF q = <<>>
             THEN reading' = TRUE /\ nalQueue' = q /\ UNCHANGED <<awaiting, last>>
             ELSE S!Deliver(q) /\ UNCHANGED reading
  BY DEF S!Encode
<1>. DEFINE q == S!splitAnnexBNals(frameOf[buf], n)
<1>7. n \in Nat
  BY DEF Camera
<1>8. /\ q \in Seq(Units) /\ Len(q) = n
      /\ \A i \in 1..n : q[i] = [frame |-> frameOf[buf], nal |-> i, of |-> n, charged |-> FALSE]
  BY <1>3, <1>7, SplitProp
<1>. HIDE DEF q
<1>9. nalQueue \o q = q
  BY <1>3, <1>8, ConcatEmptySeq
<1>10. CASE q = <<>>
  <2>1. reading' = TRUE /\ nalQueue' = <<>> /\ awaiting' = awaiting /\ last' = last
    BY <1>6, <1>9, <1>10 DEF q
  <2>2. RType'
    BY <1>1, <1>2, <1>3, <2>1, EmptySeq DEF RInv, RType
  <2>3. Asked' /\ InHand'
    BY <1>1, <1>3, <2>1 DEF RInv, Asked, InHand
  <2>4. Chronological'
    BY <1>1, <2>1 DEF RInv, Chronological
  <2>. QED BY <1>5, <2>2, <2>3, <2>4 DEF RInv
<1>11. CASE q # <<>>
  <2>1. S!Deliver(q) /\ reading' = reading
    BY <1>6, <1>9, <1>11 DEF q
  <2>2. /\ awaiting' = FALSE /\ nalQueue' \in Seq(Units)
        /\ Len(q) \in Nat \ {0} /\ Len(nalQueue') = Len(q) - 1
        /\ \A i \in 1..Len(nalQueue') : nalQueue'[i] = q[i+1]
        /\ last' \in Units /\ last'.frame = q[1].frame /\ last'.nal = q[1].nal
        /\ last'.of = q[1].of /\ (last'.charged <=> nalQueue' = <<>>)
    BY <1>8, <1>11, <2>1, DeliverProp
  <2>3. last'.frame = frameOf[buf] /\ last'.nal = 1 /\ last'.of = n
    BY <1>8, <2>2
  <2>4. RType'
    BY <1>1, <1>2, <1>3, <2>1, <2>2 DEF RInv, RType
  <2>5. Asked'
    BY <1>1, <1>3, <2>2 DEF Asked
  <2>6. Chronological'
    BY <1>1, <2>3 DEF RInv, Chronological
  <2>7. InHand'
    <3>1. \A i \in 1..Len(nalQueue') :
             nalQueue'[i] = [frame |-> frameOf[buf], nal |-> i+1, of |-> n, charged |-> FALSE]
      <4>1. SUFFICES ASSUME NEW i \in 1..Len(nalQueue')
                     PROVE  nalQueue'[i] = [frame |-> frameOf[buf], nal |-> i+1, of |-> n,
                                            charged |-> FALSE]
        OBVIOUS
      <4>2. nalQueue'[i] = q[i+1] /\ i+1 \in 1..n
        BY <1>8, <2>2
      <4>. QED BY <1>8, <4>2
    <3>2. \A i \in 1..Len(nalQueue') :
             /\ nalQueue'[i].frame = last'.frame /\ nalQueue'[i].of = last'.of
             /\ nalQueue'[i].nal = last'.nal + i
      BY <1>8, <2>2, <2>3, <3>1
    <3>. QED BY <1>1, <1>8, <2>2, <2>3, <3>2 DEF InHand
  <2>. QED BY <1>5, <2>4, <2>5, <2>6, <2>7 DEF RInv
<1>. QED BY <1>10, <1>11

(* The invariant is inductive. *)
LEMMA RtspStep == ASSUME Camera, RInv, [S!Next]_S!vars PROVE RInv'
<1>1. CASE UNCHANGED S!vars
  <2>1. /\ queued' = queued /\ filled' = filled /\ frameOf' = frameOf /\ frames' = frames
        /\ source' = source /\ awaiting' = awaiting /\ reading' = reading
        /\ handler' = handler /\ buf' = buf /\ stale' = stale
        /\ nalQueue' = nalQueue /\ last' = last /\ lost' = lost
    BY <1>1 DEF S!vars, S!driver, S!client
  <2>. QED BY <2>1 DEF RInv, RType, Partition, Held, Asked, Chronological, InHand
<1>. QED BY <1>1, CaptureFrame, NewSource, NextFrame, StopFrames, HandlerEnters, DrainStep,
            RequeueStep, EncodeStep DEF S!Next

(* The initial state: every buffer is queued and no client is there. *)
LEMMA RtspInit == ASSUME S!Init PROVE RInv
<1>1. filled = <<>> /\ stale = <<>> /\ nalQueue = <<>> /\ handler = "off" /\ last = S!NoNal
  BY DEF S!Init
<1>2. /\ <<>> \in Seq(Buf) /\ <<>> \in Seq(Units) /\ Len(<<>>) = 0
  BY EmptySeq
<1>3. Elems(filled) = {} /\ NoDup(filled)
  BY <1>1, <1>2 DEF Elems, NoDup
<1>4. last \in Units /\ last.frame = 0 /\ last.charged = TRUE
  BY <1>1 DEF S!NoNal, Units
<1>5. RType
  BY <1>1, <1>2, <1>4 DEF S!Init, RType
<1>6. Partition
  BY <1>1, <1>3 DEF S!Init, Partition, Held
<1>7. Asked /\ Chronological /\ InHand
  BY <1>1, <1>2, <1>3, <1>4 DEF S!Init, Asked, Chronological, InHand
<1>. QED BY <1>5, <1>6, <1>7 DEF RInv

(* The read handler is registered whenever Live555 waits for a frame, and   *)
(* every buffer comes back to the driver but for those whose VIDIOC_QBUF    *)
(* failed: for any number of buffers and units, whatever the camera does    *)
(* between two calls of the handler.                                        *)
THEOREM StreamSafe == ASSUME Camera PROVE S!Spec => []NoStall
<1>1. RInv => NoStall
  <2>1. SUFFICES ASSUME RInv, handler = "off"
                 PROVE  (awaiting => reading) /\ Buf \ lost = queued \cup S!Range(filled)
    BY DEF NoStall, S!NoStall
  <2>2. S!Range(filled) = Elems(filled)
    BY <2>1, RangeElems DEF RInv, RType
  <2>3. Held = {}
    BY <2>1 DEF Held
  <2>. QED BY <2>1, <2>2, <2>3 DEF RInv, Asked, Partition
<1>. QED BY <1>1, RtspInit, RtspStep, PTL DEF S!Spec

(* While another buffer is filled the drain has not passed over as many as  *)
(* there are.                                                               *)
LEMMA DrainsAll ==
  ASSUME Camera, RInv, handler = "drain", Len(stale) + 1 >= Cardinality(Buf)
  PROVE  filled = <<>>
<1>1. SUFFICES ASSUME filled # <<>> PROVE FALSE
  OBVIOUS
<1>2. Head(filled) \in Elems(filled)
  BY <1>1, PopProp DEF RInv, RType, Partition
<1>3. Elems(filled) \subseteq Buf /\ Elems(stale) \subseteq Buf /\ buf \in Buf
  BY ElemsType DEF RInv, RType
<1>4. /\ buf \notin Elems(stale) /\ Head(filled) \notin Elems(stale) \cup {buf}
  BY <1>2 DEF RInv, Partition, Held
<1>5. Len(stale) \in Nat /\ NoDup(stale) /\ stale \in [1..Len(stale) -> Buf]
  BY LenProperties DEF RInv, RType, Partition
<1>6. stale \in Bijection(1..Len(stale), Elems(stale))
  BY <1>5 DEF Bijection, Injection, Surjection, IsInjective, NoDup, Elems
<1>7. IsFiniteSet(Elems(stale)) /\ Cardinality(Elems(stale)) = Len(stale)
  <2>1. IsFiniteSet(1..Len(stale)) /\ Cardinality(1..Len(stale)) = Len(stale)
    <3>1. 1 \in Int /\ Len(stale) \in Int /\ Len(stale) >= 0
      BY <1>5
    <3>2. /\ IsFiniteSet(1..Len(stale))
          /\ Cardinality(1..Len(stale)) = IF 1 > Len(stale) THEN 0 ELSE Len(stale) - 1 + 1
      BY <3>1, FS_Interval
    <3>. QED BY <3>1, <3>2
  <2>2. ExistsBijection(1..Len(stale), Elems(stale))
    BY <1>6 DEF ExistsBijection
  <2>. QED BY <2>1, <2>2, FS_Bijection
<1>. DEFINE T == Elems(stale) \cup {buf}
<1>8. IsFiniteSet(T) /\ Cardinality(T) = Len(stale) + 1 /\ Head(filled) \notin T
  BY <1>4, <1>7, FS_AddElement
<1>9. T \cup {Head(filled)} \in SUBSET Buf
  BY <1>2, <1>3
<1>. HIDE DEF T
<1>10. Cardinality(T \cup {Head(filled)}) = Cardinality(T) + 1
  BY <1>8, FS_AddElement
<1>11. Cardinality(T \cup {Head(filled)}) <= Cardinality(Buf) /\ Cardinality(Buf) \in Nat
  BY <1>9, FS_Subset, FS_CardinalityType DEF Camera
<1>. QED BY <1>5, <1>8, <1>10, <1>11

(* Every step keeps the order of the units and of the frames. *)
LEMMA FrameStepHolds ==
  ASSUME Camera, RInv, [S!Next]_S!vars PROVE S!FrameStep
<1>1. CASE S!DrainOlder
  <2>1. last' = last /\ handler = "drain"
    BY <1>1 DEF S!DrainOlder
  <2>2. ASSUME handler' = "requeue"
        PROVE  S!Range(filled) = {}
    <3>1. filled = <<>> \/ ~(Len(stale) + 1 < Cardinality(Buf))
      <4>1. filled # <<>> /\ Len(stale) + 1 < Cardinality(Buf) =>
              handler' = handler \/ handler' = "refused"
        BY <1>1, SameCardinality DEF S!DrainOlder
      <4>. QED BY <2>1, <2>2, <4>1
    <3>2. Len(stale) \in Nat /\ Cardinality(Buf) \in Nat
      BY LenProperties, FS_CardinalityType DEF RInv, RType, Camera
    <3>3. filled = <<>>
      BY <2>1, <3>1, <3>2, DrainsAll
    <3>. QED BY <3>3, RangeElems, ElemsType DEF RInv, RType
  <2>3. \A b \in S!Range(stale) : frameOf[b] < frameOf[buf]
    <3>1. S!Range(stale) = Elems(stale)
      BY RangeElems DEF RInv, RType
    <3>. QED BY <2>1, <3>1 DEF RInv, Chronological
  <2>. QED BY <2>1, <2>2, <2>3 DEF S!FrameStep
<1>2. CASE S!GetNextFrame
  <2>1. handler' = handler /\ source
    BY <1>2 DEF S!GetNextFrame
  <2>2. CASE last' = last
    BY <2>1, <2>2 DEF S!FrameStep
  <2>3. CASE S!deliverQueuedNal
    <3>1. nalQueue # <<>> /\ S!Deliver(nalQueue) /\ nalQueue \in Seq(Units)
      BY <2>3 DEF S!deliverQueuedNal, RInv, RType
    <3>2. /\ Len(nalQueue) \in Nat \ {0}
          /\ last'.frame = nalQueue[1].frame /\ last'.nal = nalQueue[1].nal
          /\ last'.of = nalQueue[1].of /\ (last'.charged <=> nalQueue' = <<>>)
          /\ (nalQueue' = <<>> <=> Len(nalQueue) = 1)
      BY <3>1, DeliverProp
    <3>3. /\ last'.frame = last.frame /\ last'.nal = last.nal + 1
          /\ last'.of = last.nal + Len(nalQueue) /\ last.nal \in Nat /\ ~last.charged
      BY <2>1, <3>1, <3>2 DEF RInv, RType, Units, InHand
    <3>4. last'.charged <=> last'.nal = last'.of
      <4>1. last'.nal = last'.of <=> Len(nalQueue) = 1
        <5>. DEFINE k == last.nal
                    l == Len(nalQueue)
        <5>1. /\ last'.nal = k + 1 /\ last'.of = k + l /\ k \in Nat /\ l \in Nat
          BY <3>2, <3>3
        <5>. HIDE DEF k, l
        <5>2. k + 1 = k + l <=> l = 1
          BY <5>1
        <5>. QED BY <5>1, <5>2 DEF l
      <4>. QED BY <3>2, <4>1
    <3>. QED BY <2>1, <3>3, <3>4 DEF S!FrameStep
  <2>. QED BY <1>2, <2>2, <2>3 DEF S!GetNextFrame, S!doGetNextFrame
<1>3. CASE S!Encode
  <2>1. /\ handler = "encode" /\ source /\ nalQueue = <<>> /\ last.charged
        /\ buf \in Buf /\ frameOf[buf] \in Nat /\ last.frame < frameOf[buf]
    BY <1>3 DEF S!Encode, RInv, RType, Asked, InHand, Chronological
  <2>2. PICK n \in 0..MaxNal :
         LET q == nalQueue \o S!splitAnnexBNals(frameOf[buf], n)
         IN  IF q = <<>>
             THEN reading' = TRUE /\ nalQueue' = q /\ UNCHANGED <<awaiting, last>>
             ELSE S!Deliver(q) /\ UNCHANGED reading
    BY <1>3 DEF S!Encode
  <2>. DEFINE q == S!splitAnnexBNals(frameOf[buf], n)
  <2>3. /\ q \in Seq(Units) /\ Len(q) = n /\ n \in Nat
        /\ \A i \in 1..n : q[i] = [frame |-> frameOf[buf], nal |-> i, of |-> n, charged |-> FALSE]
    <3>1. n \in Nat
      BY DEF Camera
    <3>. QED BY <2>1, <3>1, SplitProp
  <2>. HIDE DEF q
  <2>4. nalQueue \o q = q
    BY <2>1, <2>3, ConcatEmptySeq
  <2>5. CASE q = <<>>
    <3>1. last' = last
      BY <2>2, <2>4, <2>5 DEF q
    <3>. QED BY <2>1, <3>1 DEF S!FrameStep
  <2>6. CASE q # <<>>
    <3>1. S!Deliver(q)
      BY <2>2, <2>4, <2>6 DEF q
    <3>2. /\ Len(q) \in Nat \ {0}
          /\ last'.frame = q[1].frame /\ last'.nal = q[1].nal /\ last'.of = q[1].of
          /\ (last'.charged <=> nalQueue' = <<>>) /\ (nalQueue' = <<>> <=> Len(q) = 1)
      BY <2>3, <2>6, <3>1, DeliverProp
    <3>3. last'.frame = frameOf[buf] /\ last'.nal = 1 /\ last'.of = n
      BY <2>3, <3>2
    <3>4. last'.charged <=> last'.nal = last'.of
      BY <2>3, <3>2, <3>3
    <3>. QED BY <2>1, <3>3, <3>4 DEF S!FrameStep
  <2>. QED BY <2>5, <2>6
<1>4. CASE S!createNewStreamSource
  BY <1>4 DEF S!createNewStreamSource, S!NoNal, S!FrameStep
<1>5. CASE \/ \E b \in Buf : S!Capture(b)
           \/ S!doStopGettingFrames
           \/ UNCHANGED S!vars
  BY <1>5 DEF S!Capture, S!doStopGettingFrames, S!vars, S!FrameStep
<1>6. CASE S!v4l2ReadableHandler \/ S!RequeueStale
  BY <1>6 DEF S!v4l2ReadableHandler, S!RequeueStale, S!FrameStep
<1>. QED BY <1>1, <1>2, <1>3, <1>4, <1>5, <1>6 DEF S!Next

(* The units Live555 gets are those of one image after the other, all of    *)
(* them and in order, each image later than the one before and than those   *)
(* the drain passed over, and the newest there is when the drain ends       *)
(* without a refused VIDIOC_DQBUF.                                          *)
THEOREM StreamOrdered == ASSUME Camera PROVE S!Spec => FrameOrder
<1>1. RInv /\ [S!Next]_S!vars => [S!FrameStep]_S!vars
  BY FrameStepHolds
<1>. QED BY <1>1, RtspInit, RtspStep, PTL DEF S!Spec, FrameOrder, S!FrameOrder

-----------------------------------------------------------------------------
Sample10 == {v \in Nat : v <= 1023}

(* What the quick rounding makes of a sample: one more than a byte holds.   *)
Wide == {v \in Nat : v <= 256}

(* A frame of the full-size conversion: even sides, samples of ten bits.    *)
Picture(f) ==
  /\ f.size[1] \in Nat /\ f.size[1] % 2 = 0 /\ f.size[2] \in Nat /\ f.size[2] % 2 = 0
  /\ f.raw \in [Y!Pixels(f.size[1], f.size[2]) -> Sample10]

(* The coordinates around x, clamped, are those v2 reads around its block.  *)
LEMMA Clamps ==
  ASSUME NEW n \in Nat, n % 2 = 0, NEW x \in 0..(n - 1)
  PROVE  /\ Y!Base(x) \in Nat /\ Y!Base(x) + 1 < n /\ Y!Clamp(x, n) = x
         /\ x % 2 = 0 => /\ Y!Base(x) = x /\ Y!Clamp(x + 1, n) = x + 1
                         /\ Y!Clamp(x - 1, n) = IF x > 0 THEN x - 1 ELSE x
         /\ x % 2 # 0 => /\ x % 2 = 1 /\ Y!Base(x) = x - 1 /\ Y!Clamp(x - 1, n) = x - 1
                         /\ Y!Clamp(x + 1, n) = IF x + 1 < n THEN x + 1 ELSE x
BY DEF Y!Base, Y!Clamp

LEMMA Neighbours ==
  ASSUME NEW x \in Int, NEW y \in Int, NEW i \in {-1, 0, 1}, NEW j \in {-1, 0, 1}
  PROVE  [d \in Y!Around |-> Y!Replicated(<<x, y>>[1] + d[1], <<x, y>>[2] + d[2])][<<i, j>>]
           = Y!Replicated(x + i, y + j)
<1>1. <<i, j>> \in Y!Around
  BY DEF Y!Around
<1>. QED BY <1>1

(* A block of v2 reads the samples the pixel-wise demosaic reads.           *)
LEMMA SameSamples ==
  ASSUME Picture(img), NEW x \in 0..(Y!W - 1), NEW y \in 0..(Y!H - 1)
  PROVE  Y!BlockV2(Y!Base(x), Y!Base(y), x % 2, y % 2) = Y!demosaic_rggb10_pixel(<<x, y>>)
<1>1. PICK a : a = Y!Base(x)
  OBVIOUS
<1>2. PICK b : b = Y!Base(y)
  OBVIOUS
<1>3. PICK n : n = [d \in Y!Around |-> Y!Replicated(<<x, y>>[1] + d[1], <<x, y>>[2] + d[2])]
  OBVIOUS
<1>4. Y!W \in Nat /\ Y!W % 2 = 0 /\ Y!H \in Nat /\ Y!H % 2 = 0
  BY DEF Picture, Y!W, Y!H
<1>5. /\ a \in Nat /\ a + 1 < Y!W /\ Y!Clamp(x, Y!W) = x
      /\ x % 2 = 0 => /\ a = x /\ Y!Clamp(x + 1, Y!W) = x + 1
                      /\ Y!Clamp(x - 1, Y!W) = IF x > 0 THEN x - 1 ELSE x
      /\ x % 2 # 0 => /\ x % 2 = 1 /\ a = x - 1 /\ Y!Clamp(x - 1, Y!W) = x - 1
                      /\ Y!Clamp(x + 1, Y!W) = IF x + 1 < Y!W THEN x + 1 ELSE x
  BY <1>1, <1>4, Clamps
<1>6. /\ b \in Nat /\ b + 1 < Y!H /\ Y!Clamp(y, Y!H) = y
      /\ y % 2 = 0 => /\ b = y /\ Y!Clamp(y + 1, Y!H) = y + 1
                      /\ Y!Clamp(y - 1, Y!H) = IF y > 0 THEN y - 1 ELSE y
      /\ y % 2 # 0 => /\ y % 2 = 1 /\ b = y - 1 /\ Y!Clamp(y - 1, Y!H) = y - 1
                      /\ Y!Clamp(y + 1, Y!H) = IF y + 1 < Y!H THEN y + 1 ELSE y
  BY <1>2, <1>4, Clamps
<1>7. ASSUME NEW i \in {-1, 0, 1}, NEW j \in {-1, 0, 1}
      PROVE  n[<<i, j>>] = Y!raw[<<Y!Clamp(x + i, Y!W), Y!Clamp(y + j, Y!H)>>]
  <2>1. x \in Int /\ y \in Int
    BY <1>4
  <2>2. n[<<i, j>>] = Y!Replicated(x + i, y + j)
    BY <1>3, <2>1, Neighbours, ZenonT(40)
  <2>. QED BY <2>2 DEF Y!Replicated
<1>8. Y!demosaic_rggb10_pixel(<<x, y>>) = Y!Demosaic(n, x, y)
  BY <1>3 DEF Y!demosaic_rggb10_pixel
<1>9. x + -1 = x - 1 /\ y + -1 = y - 1 /\ x + 0 = x /\ y + 0 = y
  OBVIOUS
<1>10. /\ n[<<0, 0>>] = Y!raw[<<x, y>>]
       /\ n[<<-1, 0>>] = Y!raw[<<Y!Clamp(x - 1, Y!W), y>>]
       /\ n[<<1, 0>>] = Y!raw[<<Y!Clamp(x + 1, Y!W), y>>]
       /\ n[<<0, -1>>] = Y!raw[<<x, Y!Clamp(y - 1, Y!H)>>]
       /\ n[<<0, 1>>] = Y!raw[<<x, Y!Clamp(y + 1, Y!H)>>]
       /\ n[<<-1, -1>>] = Y!raw[<<Y!Clamp(x - 1, Y!W), Y!Clamp(y - 1, Y!H)>>]
       /\ n[<<1, -1>>] = Y!raw[<<Y!Clamp(x + 1, Y!W), Y!Clamp(y - 1, Y!H)>>]
       /\ n[<<-1, 1>>] = Y!raw[<<Y!Clamp(x - 1, Y!W), Y!Clamp(y + 1, Y!H)>>]
       /\ n[<<1, 1>>] = Y!raw[<<Y!Clamp(x + 1, Y!W), Y!Clamp(y + 1, Y!H)>>]
  BY <1>5, <1>6, <1>7, <1>9
<1>11. CASE x % 2 = 0 /\ y % 2 = 0
  BY <1>1, <1>2, <1>5, <1>6, <1>8, <1>10, <1>11 DEF Y!BlockV2, Y!Demosaic, Y!Even, Y!row_p2
<1>12. CASE x % 2 # 0 /\ y % 2 = 0
  <2>1. x % 2 = 1 /\ a + 1 = x /\ (IF a + 2 < Y!W THEN a + 2 ELSE a + 1) = Y!Clamp(x + 1, Y!W)
    BY <1>4, <1>5, <1>12
  <2>. QED BY <1>1, <1>2, <1>5, <1>6, <1>8, <1>10, <1>12, <2>1 DEF Y!BlockV2, Y!Demosaic, Y!Even, Y!row_p2
<1>13. CASE x % 2 = 0 /\ y % 2 # 0
  BY <1>1, <1>2, <1>5, <1>6, <1>8, <1>10, <1>13 DEF Y!BlockV2, Y!Demosaic, Y!Even, Y!row_p2
<1>14. CASE x % 2 # 0 /\ y % 2 # 0
  <2>1. x % 2 = 1 /\ a + 1 = x /\ (IF a + 2 < Y!W THEN a + 2 ELSE a + 1) = Y!Clamp(x + 1, Y!W)
    BY <1>4, <1>5, <1>14
  <2>2. y % 2 = 1 /\ b + 1 = y /\ Y!row_p2(b) = Y!Clamp(y + 1, Y!H)
    BY <1>4, <1>6, <1>14 DEF Y!row_p2
  <2>3. Y!Clamp(x - 1, Y!W) = a /\ Y!Clamp(y - 1, Y!H) = b
    BY <1>5, <1>6, <1>14, <2>1, <2>2
  <2>4. PICK c, e : c = Y!Clamp(x + 1, Y!W) /\ e = Y!Clamp(y + 1, Y!H)
    OBVIOUS
  <2>5. Y!BlockV2(a, b, 1, 1) =
          <<(Y!raw[<<a, b>>] + Y!raw[<<c, b>>] + Y!raw[<<a, e>>] + Y!raw[<<c, e>>]) \div 4,
            (Y!raw[<<a, y>>] + Y!raw[<<c, y>>] + Y!raw[<<x, b>>] + Y!raw[<<x, e>>]) \div 4,
            Y!raw[<<x, y>>]>>
    BY <2>1, <2>2, <2>4 DEF Y!BlockV2
  <2>6. Y!Demosaic(n, x, y) =
          <<(Y!raw[<<a, b>>] + Y!raw[<<c, b>>] + Y!raw[<<a, e>>] + Y!raw[<<c, e>>]) \div 4,
            (Y!raw[<<a, y>>] + Y!raw[<<c, y>>] + Y!raw[<<x, b>>] + Y!raw[<<x, e>>]) \div 4,
            Y!raw[<<x, y>>]>>
    BY <1>10, <1>14, <2>3, <2>4 DEF Y!Demosaic, Y!Even
  <2>. QED BY <1>1, <1>2, <1>8, <2>1, <2>2, <2>5, <2>6
<1>. QED BY <1>11, <1>12, <1>13, <1>14

(* What a pixel reads is in the range of the samples, and so are averages.  *)
LEMMA Triple ==
  ASSUME NEW f, NEW T, NEW i \in 1..3, f[1] \in T, f[2] \in T, f[3] \in T
  PROVE  f[i] \in T
<1>1. i = 1 \/ i = 2 \/ i = 3
  OBVIOUS
<1>. QED BY <1>1

LEMMA DemosaicRange ==
  ASSUME NEW n \in [Y!Around -> Sample10], NEW x \in Int, NEW y \in Int, NEW i \in 1..3
  PROVE  Y!Demosaic(n, x, y)[i] \in Sample10
<1>1. ASSUME NEW j \in -1..1, NEW k \in -1..1 PROVE n[<<j, k>>] \in Sample10
  BY DEF Y!Around
<1>2. PICK h, w, e, u, v, wu, eu, wl, el :
        /\ h = n[<<0, 0>>] /\ w = n[<<-1, 0>>] /\ e = n[<<1, 0>>]
        /\ u = n[<<0, -1>>] /\ v = n[<<0, 1>>] /\ wu = n[<<-1, -1>>]
        /\ eu = n[<<1, -1>>] /\ wl = n[<<-1, 1>>] /\ el = n[<<1, 1>>]
  OBVIOUS
<1>3. /\ h \in Sample10 /\ w \in Sample10 /\ e \in Sample10 /\ u \in Sample10 /\ v \in Sample10
      /\ wu \in Sample10 /\ eu \in Sample10 /\ wl \in Sample10 /\ el \in Sample10
  <2>1. -1 \in -1..1 /\ 0 \in -1..1 /\ 1 \in -1..1
    OBVIOUS
  <2>. QED BY <1>1, <1>2, <2>1
<1>4. PICK c, d, b, a :
        /\ c = (w + e + u + v) \div 4 /\ d = (wu + eu + wl + el) \div 4
        /\ b = (w + e) \div 2 /\ a = (u + v) \div 2
  OBVIOUS
<1>5. c \in Sample10 /\ d \in Sample10 /\ b \in Sample10 /\ a \in Sample10
  <2>1. c \in Sample10 /\ b \in Sample10
    BY <1>3, <1>4 DEF Sample10
  <2>2. d \in Sample10 /\ a \in Sample10
    BY <1>3, <1>4 DEF Sample10
  <2>. QED BY <2>1, <2>2
<1>6. PICK t : t = Y!Demosaic(n, x, y)
  OBVIOUS
<1>7. t = <<h, c, d>> \/ t = <<b, h, a>> \/ t = <<a, h, b>> \/ t = <<d, c, h>>
  BY <1>2, <1>4, <1>6 DEF Y!Demosaic
<1>8. t[1] \in Sample10 /\ t[2] \in Sample10 /\ t[3] \in Sample10
  <2>1. CASE t = <<h, c, d>>
    BY <1>3, <1>5, <2>1
  <2>2. CASE t = <<b, h, a>>
    BY <1>3, <1>5, <2>2
  <2>3. CASE t = <<a, h, b>>
    BY <1>3, <1>5, <2>3
  <2>4. CASE t = <<d, c, h>>
    BY <1>3, <1>5, <2>4
  <2>. QED BY <1>7, <2>1, <2>2, <2>3, <2>4
<1>9. t[i] \in Sample10
  BY <1>8, Triple
<1>. QED BY <1>6, <1>9

(* Every sample read is one of the frame's.                                 *)
LEMMA ReadRange ==
  ASSUME Picture(img), NEW p \in Y!Pixels(Y!W, Y!H)
  PROVE  /\ p = <<p[1], p[2]>> /\ p[1] \in 0..(Y!W - 1) /\ p[2] \in 0..(Y!H - 1)
         /\ \A i \in 1..3 : Y!demosaic_rggb10_pixel(p)[i] \in Sample10
         /\ \A d \in Y!Around : Y!Replicated(p[1] + d[1], p[2] + d[2]) \in Sample10
<1>1. Y!W \in Nat /\ Y!H \in Nat /\ Y!raw \in [Y!Pixels(Y!W, Y!H) -> Sample10]
  BY DEF Picture, Y!W, Y!H, Y!raw
<1>2. p = <<p[1], p[2]>> /\ p[1] \in 0..(Y!W - 1) /\ p[2] \in 0..(Y!H - 1)
  BY DEF Y!Pixels
<1>3. ASSUME NEW d \in Y!Around PROVE Y!Replicated(p[1] + d[1], p[2] + d[2]) \in Sample10
  <2>1. d[1] \in Int /\ d[2] \in Int
    BY DEF Y!Around
  <2>2. Y!Clamp(p[1] + d[1], Y!W) \in 0..(Y!W - 1) /\ Y!Clamp(p[2] + d[2], Y!H) \in 0..(Y!H - 1)
    BY <1>1, <1>2, <2>1 DEF Y!Clamp
  <2>3. <<Y!Clamp(p[1] + d[1], Y!W), Y!Clamp(p[2] + d[2], Y!H)>> \in Y!Pixels(Y!W, Y!H)
    BY <2>2 DEF Y!Pixels
  <2>. QED BY <1>1, <2>3 DEF Y!Replicated
<1>4. PICK n : n = [d \in Y!Around |-> Y!Replicated(p[1] + d[1], p[2] + d[2])]
  OBVIOUS
<1>5. n \in [Y!Around -> Sample10]
  BY <1>3, <1>4
<1>6. p[1] \in Int /\ p[2] \in Int
  BY <1>1, <1>2
<1>7. \A i \in 1..3 : Y!Demosaic(n, p[1], p[2])[i] \in Sample10
  BY <1>5, <1>6, DemosaicRange, SMTT(30)
<1>8. Y!demosaic_rggb10_pixel(p) = Y!Demosaic(n, p[1], p[2])
  BY <1>4 DEF Y!demosaic_rggb10_pixel
<1>. QED BY <1>2, <1>3, <1>7, <1>8, ZenonT(40)

(* The quick rounding, and what a byte keeps of it.                         *)
LEMMA FastRange ==
  ASSUME NEW c, \A i \in 1..3 : c[i] \in Sample10
  PROVE  Y!raw10_to_u8_fast(c) \in [1..3 -> Wide]
<1>1. \A k \in Sample10 : (k + 2) \div 4 \in Wide
  BY DEF Sample10, Wide
<1>2. \A i \in 1..3 : (c[i] + 2) \div 4 \in Wide
  BY <1>1
<1>. QED BY <1>2 DEF Y!raw10_to_u8_fast

LEMMA WideByte ==
  ASSUME NEW k \in Wide
  PROVE  k % 256 = IF k > 255 THEN 0 ELSE k
BY DEF Wide

(* v2 rounds the colours of the pixel-wise demosaic, the scalar versions    *)
(* cut them to bytes.                                                       *)
LEMMA SameColours ==
  ASSUME Picture(img)
  PROVE  /\ Y!V2Colour \in [Y!Pixels(Y!W, Y!H) -> [1..3 -> Wide]]
         /\ Y!ScalarColour = [p \in Y!Pixels(Y!W, Y!H) |-> Y!Byte(Y!V2Colour[p])]
         /\ \A p \in Y!Pixels(Y!W, Y!H) :
              /\ Y!V2Colour[p] = Y!raw10_to_u8_fast(Y!demosaic_rggb10_pixel(p))
              /\ Y!BlockV2(Y!Base(p[1]), Y!Base(p[2]), p[1] % 2, p[2] % 2)
                   = Y!demosaic_rggb10_pixel(p)
<1>1. ASSUME NEW p \in Y!Pixels(Y!W, Y!H)
      PROVE  /\ Y!V2Colour[p] = Y!raw10_to_u8_fast(Y!demosaic_rggb10_pixel(p))
             /\ Y!BlockV2(Y!Base(p[1]), Y!Base(p[2]), p[1] % 2, p[2] % 2)
                  = Y!demosaic_rggb10_pixel(p)
             /\ Y!V2Colour[p] \in [1..3 -> Wide]
             /\ Y!ScalarColour[p] = Y!Byte(Y!V2Colour[p])
  <2>1. /\ p = <<p[1], p[2]>> /\ p[1] \in 0..(Y!W - 1) /\ p[2] \in 0..(Y!H - 1)
        /\ \A i \in 1..3 : Y!demosaic_rggb10_pixel(p)[i] \in Sample10
    BY ReadRange, SMTT(30)
  <2>2. Y!BlockV2(Y!Base(p[1]), Y!Base(p[2]), p[1] % 2, p[2] % 2)
          = Y!demosaic_rggb10_pixel(<<p[1], p[2]>>)
    BY <2>1, SameSamples
  <2>3. Y!V2Colour[p] = Y!raw10_to_u8_fast(Y!demosaic_rggb10_pixel(p))
    BY <2>1, <2>2 DEF Y!V2Colour
  <2>4. Y!raw10_to_u8_fast(Y!demosaic_rggb10_pixel(p)) \in [1..3 -> Wide]
    BY <2>1, FastRange
  <2>. QED BY <2>1, <2>2, <2>3, <2>4 DEF Y!ScalarColour
<1>2. Y!V2Colour = [p \in Y!Pixels(Y!W, Y!H) |-> Y!V2Colour[p]]
  BY DEF Y!V2Colour
<1>3. Y!ScalarColour = [p \in Y!Pixels(Y!W, Y!H) |-> Y!ScalarColour[p]]
  BY DEF Y!ScalarColour
<1>. QED BY <1>1, <1>2, <1>3

(* The four pixels of a block.                                              *)
LEMMA BlockPixels ==
  ASSUME Picture(img), NEW b \in Y!Blocks
  PROVE  /\ b[1] \in Nat /\ b[2] \in Nat
         /\ 2 * b[1] + 1 < Y!W /\ 2 * b[2] + 1 < Y!H
<1>1. Y!W \in Nat /\ Y!W % 2 = 0 /\ Y!H \in Nat /\ Y!H % 2 = 0
  BY DEF Picture, Y!W, Y!H
<1>2. b[1] \in 0..((Y!W \div 2) - 1) /\ b[2] \in 0..((Y!H \div 2) - 1)
  BY DEF Y!Blocks, Y!Pixels
<1>. QED BY <1>1, <1>2

(* The cache of two rows holds the colours of its pixels.                   *)
LEMMA Cached ==
  ASSUME Picture(img)
  PROVE  Y!convert_scalar = Y!aloe_rggb10_to_rgb888_i420_scalar
<1>1. Y!W \in Nat /\ Y!W % 2 = 0 /\ Y!H \in Nat /\ Y!H % 2 = 0
  BY DEF Picture, Y!W, Y!H
<1>2. ASSUME NEW y, NEW p \in Y!Pixels(Y!W, Y!H), p[2] \in {y, y + 1}
      PROVE  Y!Cache(y)[p] = Y!ScalarColour[p]
  <2>1. p \in (0..(Y!W - 1)) \X {y, y + 1}
    BY <1>2 DEF Y!Pixels
  <2>. QED BY <2>1 DEF Y!Cache, Y!ScalarColour
<1>3. ASSUME NEW p \in Y!Pixels(Y!W, Y!H)
      PROVE  Y!Cache(Y!Base(p[2]))[p] = Y!ScalarColour[p]
  <2>1. p[2] \in 0..(Y!H - 1)
    BY DEF Y!Pixels
  <2>2. p[2] \in {Y!Base(p[2]), Y!Base(p[2]) + 1}
    BY <1>1, <2>1 DEF Y!Base
  <2>. QED BY <1>2, <2>2
<1>4. ASSUME NEW b \in Y!Blocks
      PROVE  Y!Average(Y!Cache(2 * b[2]), b) = Y!Average(Y!ScalarColour, b)
  <2>1. /\ b[1] \in Nat /\ b[2] \in Nat
        /\ 2 * b[1] + 1 < Y!W /\ 2 * b[2] + 1 < Y!H
    BY BlockPixels
  <2>2. PICK x, y : x = 2 * b[1] /\ y = 2 * b[2]
    OBVIOUS
  <2>3. x \in Nat /\ y \in Nat /\ x + 1 < Y!W /\ y + 1 < Y!H
    BY <2>1, <2>2
  <2>4. ASSUME NEW c \in {x, x + 1}, NEW d \in {y, y + 1}
        PROVE  Y!Cache(y)[<<c, d>>] = Y!ScalarColour[<<c, d>>]
    <3>1. <<c, d>> \in Y!Pixels(Y!W, Y!H)
      BY <1>1, <2>3 DEF Y!Pixels
    <3>2. <<c, d>>[2] \in {y, y + 1}
      OBVIOUS
    <3>. QED BY <1>2, <3>1, <3>2
  <2>5. /\ Y!Cache(y)[<<x, y>>] = Y!ScalarColour[<<x, y>>]
        /\ Y!Cache(y)[<<x + 1, y>>] = Y!ScalarColour[<<x + 1, y>>]
        /\ Y!Cache(y)[<<x, y + 1>>] = Y!ScalarColour[<<x, y + 1>>]
        /\ Y!Cache(y)[<<x + 1, y + 1>>] = Y!ScalarColour[<<x + 1, y + 1>>]
    BY <2>4
  <2>. QED BY <2>2, <2>5 DEF Y!Average
<1>5. Y!convert_scalar.rgb = Y!ScalarColour
  BY <1>3 DEF Y!convert_scalar, Y!ScalarColour
<1>6. Y!convert_scalar.y = [p \in Y!Pixels(Y!W, Y!H) |-> Y!rgb_to_y(Y!ScalarColour[p])]
  BY <1>3 DEF Y!convert_scalar
<1>7. Y!convert_scalar.uv = Y!Chroma(Y!ScalarColour)
  BY <1>4 DEF Y!convert_scalar, Y!Chroma
<1>8. \E r, l, u : Y!convert_scalar = [rgb |-> r, y |-> l, uv |-> u]
  BY DEF Y!convert_scalar
<1>. QED BY <1>5, <1>6, <1>7, <1>8 DEF Y!aloe_rggb10_to_rgb888_i420_scalar

(* Sixteen bits hold the luma's sum, and a byte the luma.                   *)
LEMMA LumaFits ==
  ASSUME NEW m \in Int, 0 <= m, m <= 56448
  PROVE  /\ m % 65536 = m /\ (m \div 256 + 16) % 256 = m \div 256 + 16
         /\ m \div 256 + 16 \in Int /\ 0 <= m \div 256 + 16 /\ m \div 256 + 16 <= 255
OBVIOUS

LEMMA SameLumas ==
  ASSUME NEW c \in [1..3 -> Wide]
  PROVE  Y!neon_luma(c) = Y!rgb_to_y(c)
<1>1. c[1] \in Wide /\ c[2] \in Wide /\ c[3] \in Wide
  OBVIOUS
<1>2. PICK m : m = 66 * c[1] + 129 * c[2] + 25 * c[3] + 128
  OBVIOUS
<1>3. m \in Int /\ 0 <= m /\ m <= 56448
  <2>1. PICK r, g, b : r = c[1] /\ g = c[2] /\ b = c[3]
    OBVIOUS
  <2>2. r \in Wide /\ g \in Wide /\ b \in Wide
    BY <1>1, <2>1
  <2>3. m = 66 * r + 129 * g + 25 * b + 128
    BY <1>2, <2>1
  <2>. QED BY <2>2, <2>3 DEF Wide
<1>4. /\ m % 65536 = m /\ (m \div 256 + 16) % 256 = m \div 256 + 16
      /\ m \div 256 + 16 \in Int /\ 0 <= m \div 256 + 16 /\ m \div 256 + 16 <= 255
  BY <1>3, LumaFits
<1>5. Y!clamp_u8(m \div 256 + 16) = m \div 256 + 16
  BY <1>4 DEF Y!clamp_u8
<1>. QED BY <1>2, <1>4, <1>5 DEF Y!neon_luma, Y!rgb_to_y

(* The two roundings to eight bits.                                         *)
LEMMA Roundings ==
  ASSUME NEW k \in Sample10
  PROVE  /\ Y!raw10_to_u8(k) \in Wide /\ (k + 2) \div 4 - Y!raw10_to_u8(k) \in -1..1
         /\ (k + 2) \div 4 > 255 => Y!raw10_to_u8(k) = 255
BY DEF Y!raw10_to_u8, Sample10, Wide

(* Colours one step apart have a luma and a chroma one step apart.          *)
LEMMA StepApart ==
  ASSUME NEW a \in Int, NEW b \in Int, a - b \in -255..255, NEW n \in Nat
  PROVE  Y!clamp_u8(a \div 256 + n) - Y!clamp_u8(b \div 256 + n) \in -1..1
<1>1. a \div 256 - b \div 256 \in -1..1 /\ a \div 256 \in Int /\ b \div 256 \in Int
  OBVIOUS
<1>2. PICK x, y : x = a \div 256 /\ y = b \div 256
  OBVIOUS
<1>3. x \in Int /\ y \in Int /\ x - y \in -1..1
  BY <1>1, <1>2
<1>4. Y!clamp_u8(x + n) - Y!clamp_u8(y + n) \in -1..1
  BY <1>3 DEF Y!clamp_u8
<1>. QED BY <1>2, <1>4

LEMMA NearColours ==
  ASSUME NEW c, NEW d, \A i \in 1..3 : c[i] \in Int /\ d[i] \in Int /\ c[i] - d[i] \in -1..1
  PROVE  /\ Y!rgb_to_y(c) - Y!rgb_to_y(d) \in -1..1
         /\ Y!rgb_to_u(c) - Y!rgb_to_u(d) \in -1..1
         /\ Y!rgb_to_v(c) - Y!rgb_to_v(d) \in -1..1
<1>1. PICK r, g, b, rr, gg, bb :
        r = c[1] /\ g = c[2] /\ b = c[3] /\ rr = d[1] /\ gg = d[2] /\ bb = d[3]
  OBVIOUS
<1>2. /\ r \in Int /\ rr \in Int /\ r - rr \in -1..1
      /\ g \in Int /\ gg \in Int /\ g - gg \in -1..1
      /\ b \in Int /\ bb \in Int /\ b - bb \in -1..1
  <2>1. 1 \in 1..3 /\ 2 \in 1..3 /\ 3 \in 1..3
    OBVIOUS
  <2>. QED BY <1>1, <2>1
<1>3. Y!rgb_to_y(c) - Y!rgb_to_y(d) \in -1..1
  <2>1. PICK m, n : m = 66 * r + 129 * g + 25 * b + 128 /\ n = 66 * rr + 129 * gg + 25 * bb + 128
    OBVIOUS
  <2>2. m \in Int /\ n \in Int /\ m - n \in -255..255 /\ 16 \in Nat
    BY <1>2, <2>1
  <2>3. Y!clamp_u8(m \div 256 + 16) - Y!clamp_u8(n \div 256 + 16) \in -1..1
    BY <2>2, StepApart
  <2>. QED BY <1>1, <2>1, <2>3 DEF Y!rgb_to_y
<1>4. Y!rgb_to_u(c) - Y!rgb_to_u(d) \in -1..1
  <2>1. PICK m, n : /\ m = -38 * r - 74 * g + 112 * b + 128
                    /\ n = -38 * rr - 74 * gg + 112 * bb + 128
    OBVIOUS
  <2>2. m \in Int /\ n \in Int /\ m - n \in -255..255 /\ 128 \in Nat
    BY <1>2, <2>1
  <2>3. Y!clamp_u8(m \div 256 + 128) - Y!clamp_u8(n \div 256 + 128) \in -1..1
    BY <2>2, StepApart
  <2>. QED BY <1>1, <2>1, <2>3 DEF Y!rgb_to_u
<1>5. Y!rgb_to_v(c) - Y!rgb_to_v(d) \in -1..1
  <2>1. PICK m, n : /\ m = 112 * r - 94 * g - 18 * b + 128
                    /\ n = 112 * rr - 94 * gg - 18 * bb + 128
    OBVIOUS
  <2>2. m \in Int /\ n \in Int /\ m - n \in -255..255 /\ 128 \in Nat
    BY <1>2, <2>1
  <2>3. Y!clamp_u8(m \div 256 + 128) - Y!clamp_u8(n \div 256 + 128) \in -1..1
    BY <2>2, StepApart
  <2>. QED BY <1>1, <2>1, <2>3 DEF Y!rgb_to_v
<1>. QED BY <1>3, <1>4, <1>5

(* The reference reads the same samples.                                    *)
LEMMA Reference ==
  ASSUME Picture(img), NEW p \in Y!Pixels(Y!W, Y!H), NEW i \in 1..3
  PROVE  Y!RefColour[p][i] = Y!raw10_to_u8(Y!demosaic_rggb10_pixel(p)[i])
<1>1. ASSUME NEW d \in Y!Around
      PROVE  Y!get_pixel(p[1] + d[1], p[2] + d[2]) = Y!Replicated(p[1] + d[1], p[2] + d[2])
  <2>1. Y!Replicated(p[1] + d[1], p[2] + d[2]) \in Sample10
    BY ReadRange, SMTT(30)
  <2>2. \A k \in Sample10 : k % 1024 = k
    BY DEF Sample10
  <2>. QED BY <2>1, <2>2 DEF Y!get_pixel, Y!Replicated, Y!extract_raw10
<1>2. [d \in Y!Around |-> Y!get_pixel(p[1] + d[1], p[2] + d[2])]
        = [d \in Y!Around |-> Y!Replicated(p[1] + d[1], p[2] + d[2])]
  BY <1>1
<1>3. PICK n : n = [d \in Y!Around |-> Y!Replicated(p[1] + d[1], p[2] + d[2])]
  OBVIOUS
<1>4. Y!demosaic_rggb10_pixel(p) = Y!Demosaic(n, p[1], p[2])
  BY <1>3 DEF Y!demosaic_rggb10_pixel
<1>5. Y!RefColour[p] = [j \in 1..3 |-> Y!raw10_to_u8(Y!Demosaic(n, p[1], p[2])[j])]
  BY <1>2, <1>3 DEF Y!RefColour
<1>. QED BY <1>4, <1>5

(* A pixel that is not lit loses nothing when it is cut to bytes.           *)
LEMMA Unlit ==
  ASSUME Picture(img), NEW p \in Y!Pixels(Y!W, Y!H), p \notin Y!Lit
  PROVE  Y!ScalarColour[p] = Y!V2Colour[p]
<1>1. PICK c : c = Y!V2Colour[p]
  OBVIOUS
<1>2. c \in [1..3 -> Wide] /\ Y!ScalarColour[p] = Y!Byte(c)
  BY <1>1, SameColours
<1>3. \A i \in 1..3 : ~(c[i] > 255)
  BY <1>1 DEF Y!Lit, Y!Over
<1>4. \A i \in 1..3 : c[i] \in Wide /\ c[i] % 256 = c[i]
  BY <1>2, <1>3, WideByte
<1>5. Y!Byte(c) = c
  BY <1>2, <1>4 DEF Y!Byte
<1>. QED BY <1>1, <1>2, <1>5

(* The pixels of a block are pixels of the frame.                           *)
LEMMA CornerPixels ==
  ASSUME Picture(img), NEW b \in Y!Blocks
  PROVE  /\ Y!Corners(b) \subseteq Y!Pixels(Y!W, Y!H)
         /\ <<2 * b[1], 2 * b[2]>> \in Y!Corners(b)
         /\ <<2 * b[1] + 1, 2 * b[2]>> \in Y!Corners(b)
         /\ <<2 * b[1], 2 * b[2] + 1>> \in Y!Corners(b)
         /\ <<2 * b[1] + 1, 2 * b[2] + 1>> \in Y!Corners(b)
<1>1. PICK x, y : x = 2 * b[1] /\ y = 2 * b[2]
  OBVIOUS
<1>2. x \in Nat /\ y \in Nat /\ x + 1 < Y!W /\ y + 1 < Y!H /\ Y!W \in Nat /\ Y!H \in Nat
  BY <1>1, BlockPixels DEF Picture, Y!W, Y!H
<1>3. {x, x + 1} \X {y, y + 1} \subseteq Y!Pixels(Y!W, Y!H)
  BY <1>2 DEF Y!Pixels
<1>4. Y!Corners(b) = {x, x + 1} \X {y, y + 1}
  BY <1>1 DEF Y!Corners
<1>. QED BY <1>1, <1>3, <1>4

LEMMA ScalarSame == ASSUME Picture(img) PROVE Y!ScalarAgrees
<1>1. PICK v, s :
        v = Y!aloe_rggb10_to_rgb888_i420_v2 /\ s = Y!aloe_rggb10_to_rgb888_i420_scalar
  OBVIOUS
<1>2. Y!convert_scalar = s
  BY <1>1, Cached
<1>3. /\ v.rgb = [p \in Y!Pixels(Y!W, Y!H) |-> Y!Byte(Y!V2Colour[p])]
      /\ v.y = [p \in Y!Pixels(Y!W, Y!H) |-> Y!rgb_to_y(Y!V2Colour[p])]
      /\ v.uv = Y!Chroma(Y!V2Colour)
  BY <1>1 DEF Y!aloe_rggb10_to_rgb888_i420_v2
<1>4. /\ s.rgb = Y!ScalarColour /\ s.uv = Y!Chroma(Y!ScalarColour)
      /\ s.y = [p \in Y!Pixels(Y!W, Y!H) |-> Y!rgb_to_y(Y!ScalarColour[p])]
  BY <1>1 DEF Y!aloe_rggb10_to_rgb888_i420_scalar
<1>5. s.rgb = v.rgb
  BY <1>3, <1>4, SameColours
<1>6. \A p \in Y!Pixels(Y!W, Y!H) \ Y!Lit : s.y[p] = v.y[p]
  BY <1>3, <1>4, Unlit
<1>7. ASSUME NEW b \in Y!Blocks, Y!Corners(b) \cap Y!Lit = {} PROVE s.uv[b] = v.uv[b]
  <2>1. \A p \in Y!Corners(b) : Y!ScalarColour[p] = Y!V2Colour[p]
    BY <1>7, CornerPixels, Unlit
  <2>2. Y!Average(Y!ScalarColour, b) = Y!Average(Y!V2Colour, b)
    BY <2>1, CornerPixels DEF Y!Average
  <2>. QED BY <1>3, <1>4, <2>2 DEF Y!Chroma
<1>. QED BY <1>1, <1>2, <1>5, <1>6, <1>7 DEF Y!ScalarAgrees

(* In an even column a pixel's own sample is its red or its green.          *)
LEMMA OwnSample ==
  ASSUME Picture(img), NEW x \in 0..(Y!W - 1), NEW y \in 0..(Y!H - 1), Y!Even(x)
  PROVE  /\ Y!Own(Y!V2Colour, x, y) = (Y!raw[<<x, y>>] + 2) \div 4
         /\ Y!raw[<<x, y>>] \in Sample10
<1>1. Y!W \in Nat /\ Y!H \in Nat /\ Y!raw \in [Y!Pixels(Y!W, Y!H) -> Sample10]
  BY DEF Picture, Y!W, Y!H, Y!raw
<1>2. PICK p : p = <<x, y>>
  OBVIOUS
<1>3. p \in Y!Pixels(Y!W, Y!H) /\ p[1] = x /\ p[2] = y
  BY <1>2 DEF Y!Pixels
<1>4. PICK n : n = [d \in Y!Around |-> Y!Replicated(p[1] + d[1], p[2] + d[2])]
  OBVIOUS
<1>5. n[<<0, 0>>] = Y!raw[<<x, y>>]
  <2>1. n[<<0, 0>>] = Y!Replicated(x + 0, y + 0)
    <3>1. <<0, 0>> \in Y!Around /\ <<0, 0>>[1] = 0 /\ <<0, 0>>[2] = 0
      BY DEF Y!Around
    <3>. QED BY <1>3, <1>4, <3>1
  <2>2. x + 0 = x /\ y + 0 = y /\ Y!Clamp(x, Y!W) = x /\ Y!Clamp(y, Y!H) = y
    BY <1>1 DEF Y!Clamp
  <2>. QED BY <2>1, <2>2 DEF Y!Replicated
<1>6. Y!V2Colour[p] = Y!raw10_to_u8_fast(Y!Demosaic(n, x, y))
  BY <1>3, <1>4, SameColours DEF Y!demosaic_rggb10_pixel
<1>7. CASE Y!Even(y)
  <2>1. Y!Demosaic(n, x, y)[1] = n[<<0, 0>>]
    BY <1>7 DEF Y!Demosaic
  <2>2. Y!V2Colour[p][1] = (Y!raw[<<x, y>>] + 2) \div 4
    BY <1>5, <1>6, <2>1 DEF Y!raw10_to_u8_fast
  <2>. QED BY <1>1, <1>2, <1>3, <1>7, <2>2 DEF Y!Own
<1>8. CASE ~Y!Even(y)
  <2>1. Y!Demosaic(n, x, y)[2] = n[<<0, 0>>]
    BY <1>8 DEF Y!Demosaic
  <2>2. Y!V2Colour[p][2] = (Y!raw[<<x, y>>] + 2) \div 4
    BY <1>5, <1>6, <2>1 DEF Y!raw10_to_u8_fast
  <2>. QED BY <1>1, <1>2, <1>3, <1>8, <2>2 DEF Y!Own
<1>. QED BY <1>7, <1>8

(* The rounded mean of two samples and the mean of the two rounded ones.    *)
LEMMA Means ==
  ASSUME NEW g \in Sample10, NEW r \in Sample10
  PROVE  /\ ((g + r) \div 2 + 2) \div 4 \in 0..256
         /\ 2 * (((g + r) \div 2 + 2) \div 4) - (g + 2) \div 4 - (r + 2) \div 4 \in -1..1
BY DEF Sample10

(* The lower left pixels of the kernel, and the rows they read.             *)
Rows(p, m, l) == /\ m = IF p[2] > 1 THEN p[2] - 2 ELSE 0
                 /\ l = IF p[2] + 1 < Y!H THEN p[2] + 1 ELSE p[2]

LEMMA LowerLeft ==
  ASSUME Picture(img), NEW p \in Y!Pixels(Y!W, Y!H), Y!Even(p[1]), ~Y!Even(p[2]),
         NEW m, NEW l, Rows(p, m, l)
  PROVE  \E red \in 0..256 :
           /\ Y!raw10_to_u8_fast(Y!neon_gather(p)) = [Y!V2Colour[p] EXCEPT ![1] = red]
           /\ 2 * red - Y!Own(Y!V2Colour, p[1], m) - Y!Own(Y!V2Colour, p[1], l) \in -1..1
<1>1. PICK x, y : x = p[1] /\ y = p[2]
  OBVIOUS
<1>2. /\ Y!W \in Nat /\ Y!W % 2 = 0 /\ Y!H \in Nat /\ Y!H % 2 = 0
      /\ x \in 0..(Y!W - 1) /\ y \in 0..(Y!H - 1)
  BY <1>1 DEF Picture, Y!W, Y!H, Y!Pixels
<1>3. x % 2 = 0 /\ y % 2 = 1 /\ Y!Base(x) = x /\ Y!Base(y) = y - 1
  BY <1>1, <1>2 DEF Y!Even, Y!Base
<1>4. m \in 0..(Y!H - 1) /\ l \in 0..(Y!H - 1)
  BY <1>1, <1>2 DEF Rows
<1>5. (IF y - 1 > 0 THEN y - 1 - 1 ELSE y - 1) = m /\ Y!row_p2(y - 1) = l
  BY <1>1, <1>2, <1>3 DEF Y!row_p2, Rows
<1>6. PICK c, r, k : /\ c = Y!BlockV2(Y!Base(x), Y!Base(y), x % 2, y % 2)
                     /\ r = (Y!raw[<<x, m>>] + Y!raw[<<x, l>>]) \div 2
                     /\ k = (r + 2) \div 4
  OBVIOUS
<1>7. Y!neon_gather(p) = [c EXCEPT ![1] = r]
  BY <1>1, <1>3, <1>5, <1>6 DEF Y!neon_gather
<1>8. PICK a, g, b : c = <<a, g, b>>
  BY <1>3, <1>6 DEF Y!BlockV2
<1>9. Y!neon_gather(p) = <<r, g, b>>
  BY <1>7, <1>8
<1>10. Y!V2Colour[p] = Y!raw10_to_u8_fast(c)
  BY <1>1, <1>6 DEF Y!V2Colour
<1>11. Y!raw10_to_u8_fast(Y!neon_gather(p)) = [Y!V2Colour[p] EXCEPT ![1] = k]
  BY <1>6, <1>8, <1>9, <1>10 DEF Y!raw10_to_u8_fast
<1>12. /\ Y!Own(Y!V2Colour, x, m) = (Y!raw[<<x, m>>] + 2) \div 4 /\ Y!raw[<<x, m>>] \in Sample10
       /\ Y!Own(Y!V2Colour, x, l) = (Y!raw[<<x, l>>] + 2) \div 4 /\ Y!raw[<<x, l>>] \in Sample10
  BY <1>1, <1>2, <1>4, OwnSample
<1>13. k \in 0..256 /\ 2 * k - Y!Own(Y!V2Colour, x, m) - Y!Own(Y!V2Colour, x, l) \in -1..1
  BY <1>6, <1>12, Means
<1>. QED BY <1>1, <1>11, <1>13, ZenonT(40)

LEMMA NeonSame == ASSUME Picture(img) PROVE Y!NeonAgrees
<1>1. PICK v, s, n :
        /\ v = Y!aloe_rggb10_to_rgb888_i420_v2 /\ s = Y!aloe_rggb10_to_rgb888_i420_scalar
        /\ n = Y!aloe_rggb10_to_rgb888_i420_neon
  OBVIOUS
<1>2. /\ v.rgb = [p \in Y!Pixels(Y!W, Y!H) |-> Y!Byte(Y!V2Colour[p])]
      /\ v.y = [p \in Y!Pixels(Y!W, Y!H) |-> Y!rgb_to_y(Y!V2Colour[p])]
  BY <1>1 DEF Y!aloe_rggb10_to_rgb888_i420_v2
<1>3. /\ s.rgb = v.rgb /\ s.rgb = Y!ScalarColour /\ s.uv = Y!Chroma(Y!ScalarColour)
      /\ s.y = [p \in Y!Pixels(Y!W, Y!H) |-> Y!rgb_to_y(Y!ScalarColour[p])]
  BY <1>1, <1>2, SameColours DEF Y!aloe_rggb10_to_rgb888_i420_scalar
<1>4. PICK lane : lane = [p \in Y!Pixels(Y!W, Y!H) |-> Y!raw10_to_u8_fast(Y!neon_gather(p))]
  OBVIOUS
<1>5. /\ n.uv = s.uv
      /\ \A p \in Y!Pixels(Y!W, Y!H) \ Y!Kernel : n.rgb[p] = s.rgb[p] /\ n.y[p] = s.y[p]
      /\ \A p \in Y!Kernel : n.rgb[p] = Y!Byte(lane[p]) /\ n.y[p] = Y!neon_luma(lane[p])
  <2>1. Y!W \in Nat /\ Y!H \in Nat
    BY DEF Picture, Y!W, Y!H
  <2>2. CASE Y!W < 16 \/ Y!H < 4
    <3>1. n = s
      BY <1>1, <2>2 DEF Y!aloe_rggb10_to_rgb888_i420_neon
    <3>2. Y!Kernel = {}
      BY <2>1, <2>2 DEF Y!Kernel
    <3>. QED BY <3>1, <3>2
  <2>3. CASE ~(Y!W < 16 \/ Y!H < 4)
    <3>1. Y!Kernel = {p \in Y!Pixels(Y!W, Y!H) : p[1] \in Y!NeonColumns}
      BY <2>1, <2>3 DEF Y!Kernel
    <3>2. n =
            [rgb |-> [p \in Y!Pixels(Y!W, Y!H) |-> IF p[1] \in Y!NeonColumns THEN Y!Byte(lane[p])
                                                   ELSE Y!ScalarColour[p]],
             y   |-> [p \in Y!Pixels(Y!W, Y!H) |-> IF p[1] \in Y!NeonColumns THEN Y!neon_luma(lane[p])
                                                   ELSE Y!rgb_to_y(Y!ScalarColour[p])],
             uv  |-> Y!Chroma(Y!ScalarColour)]
      BY <1>1, <1>4, <2>3 DEF Y!aloe_rggb10_to_rgb888_i420_neon
    <3>. QED BY <1>3, <3>1, <3>2
  <2>. QED BY <2>2, <2>3
<1>6. ASSUME NEW p \in Y!Kernel PROVE p \in Y!Pixels(Y!W, Y!H)
  BY DEF Y!Kernel
<1>7. ASSUME NEW p \in Y!Kernel, Y!Even(p[1]), ~Y!Even(p[2]), NEW m, NEW l, Rows(p, m, l)
      PROVE  \E red \in 0..256 :
               /\ n.rgb[p] = [v.rgb[p] EXCEPT ![1] = red % 256]
               /\ n.y[p] = Y!rgb_to_y([Y!V2Colour[p] EXCEPT ![1] = red])
               /\ 2 * red - Y!Own(Y!V2Colour, p[1], m) - Y!Own(Y!V2Colour, p[1], l) \in -1..1
  <2>1. p \in Y!Pixels(Y!W, Y!H)
    BY <1>6
  <2>2. PICK red \in 0..256 :
           /\ Y!raw10_to_u8_fast(Y!neon_gather(p)) = [Y!V2Colour[p] EXCEPT ![1] = red]
           /\ 2 * red - Y!Own(Y!V2Colour, p[1], m) - Y!Own(Y!V2Colour, p[1], l) \in -1..1
    BY <1>7, <2>1, LowerLeft
  <2>3. PICK c : c = Y!V2Colour[p]
    OBVIOUS
  <2>4. c \in [1..3 -> Wide] /\ lane[p] = [c EXCEPT ![1] = red]
    BY <1>4, <2>1, <2>2, <2>3, SameColours
  <2>5. [c EXCEPT ![1] = red] \in [1..3 -> Wide]
    <3>1. red \in Wide
      BY DEF Wide
    <3>. QED BY <2>4, <3>1
  <2>6. Y!Byte([c EXCEPT ![1] = red]) = [Y!Byte(c) EXCEPT ![1] = red % 256]
    BY <2>4 DEF Y!Byte
  <2>7. Y!neon_luma([c EXCEPT ![1] = red]) = Y!rgb_to_y([c EXCEPT ![1] = red])
    BY <2>5, SameLumas
  <2>8. v.rgb[p] = Y!Byte(c)
    BY <1>2, <2>1, <2>3
  <2>9. n.rgb[p] = [v.rgb[p] EXCEPT ![1] = red % 256]
    BY <1>5, <2>4, <2>6, <2>8
  <2>10. n.y[p] = Y!rgb_to_y([Y!V2Colour[p] EXCEPT ![1] = red])
    BY <1>5, <2>3, <2>4, <2>7
  <2>. QED BY <2>2, <2>9, <2>10, ZenonT(40)
<1>8. ASSUME NEW p \in Y!Kernel, ~(Y!Even(p[1]) /\ ~Y!Even(p[2]))
      PROVE  n.rgb[p] = v.rgb[p] /\ n.y[p] = v.y[p]
  <2>1. p \in Y!Pixels(Y!W, Y!H)
    BY <1>6
  <2>2. Y!neon_gather(p) = Y!BlockV2(Y!Base(p[1]), Y!Base(p[2]), p[1] % 2, p[2] % 2)
    BY <1>8 DEF Y!neon_gather
  <2>3. lane[p] = Y!V2Colour[p] /\ Y!V2Colour[p] \in [1..3 -> Wide]
    BY <1>4, <2>1, <2>2, SameColours
  <2>4. Y!neon_luma(Y!V2Colour[p]) = Y!rgb_to_y(Y!V2Colour[p])
    BY <2>3, SameLumas
  <2>. QED BY <1>2, <1>5, <2>1, <2>3, <2>4
<1>9. ASSUME NEW p \in Y!Pixels(Y!W, Y!H), p \notin Y!Kernel
      PROVE  n.rgb[p] = v.rgb[p] /\ n.y[p] = s.y[p]
  <2>1. n.rgb[p] = s.rgb[p] /\ n.y[p] = s.y[p]
    BY <1>5, <1>9
  <2>. QED BY <1>3, <2>1
<1>10. ASSUME NEW p \in Y!Pixels(Y!W, Y!H)
       PROVE  IF p \in Y!Kernel /\ Y!Even(p[1]) /\ ~Y!Even(p[2])
              THEN LET m1 == IF p[2] > 1 THEN p[2] - 2 ELSE 0
                       p2 == IF p[2] + 1 < Y!H THEN p[2] + 1 ELSE p[2]
                   IN  \E red \in 0..256 :
                         /\ n.rgb[p] = [v.rgb[p] EXCEPT ![1] = red % 256]
                         /\ n.y[p] = Y!rgb_to_y([Y!V2Colour[p] EXCEPT ![1] = red])
                         /\ 2 * red - Y!Own(Y!V2Colour, p[1], m1)
                              - Y!Own(Y!V2Colour, p[1], p2) \in -1..1
              ELSE /\ n.rgb[p] = v.rgb[p]
                   /\ n.y[p] = IF p \in Y!Kernel THEN v.y[p] ELSE s.y[p]
  <2>1. CASE p \in Y!Kernel /\ Y!Even(p[1]) /\ ~Y!Even(p[2])
    <3>1. PICK m, l : Rows(p, m, l)
      BY DEF Rows
    <3>2. \E red \in 0..256 :
             /\ n.rgb[p] = [v.rgb[p] EXCEPT ![1] = red % 256]
             /\ n.y[p] = Y!rgb_to_y([Y!V2Colour[p] EXCEPT ![1] = red])
             /\ 2 * red - Y!Own(Y!V2Colour, p[1], m) - Y!Own(Y!V2Colour, p[1], l) \in -1..1
      BY <1>7, <2>1, <3>1, ZenonT(40)
    <3>. QED BY <2>1, <3>1, <3>2, ZenonT(40) DEF Rows
  <2>2. CASE ~(p \in Y!Kernel /\ Y!Even(p[1]) /\ ~Y!Even(p[2]))
    BY <1>8, <1>9, <2>2, ZenonT(40)
  <2>. QED BY <2>1, <2>2, ZenonT(40)
<1>. QED BY <1>1, <1>5, <1>10, ZenonT(40) DEF Y!NeonAgrees

(* The average of four colours moves no further than the colours.           *)
LEMMA NearAverages ==
  ASSUME Picture(img), NEW b \in Y!Blocks, NEW f, NEW h,
         \A p \in Y!Pixels(Y!W, Y!H), i \in 1..3 :
           f[p][i] \in Int /\ h[p][i] \in Int /\ f[p][i] - h[p][i] \in -1..1
  PROVE  \A i \in 1..3 : /\ Y!Average(f, b)[i] \in Int /\ Y!Average(h, b)[i] \in Int
                         /\ Y!Average(f, b)[i] - Y!Average(h, b)[i] \in -1..1
<1>1. SUFFICES ASSUME NEW i \in 1..3
               PROVE  /\ Y!Average(f, b)[i] \in Int /\ Y!Average(h, b)[i] \in Int
                      /\ Y!Average(f, b)[i] - Y!Average(h, b)[i] \in -1..1
  OBVIOUS
<1>2. PICK p, q, r, t : /\ p = <<2 * b[1], 2 * b[2]>> /\ q = <<2 * b[1] + 1, 2 * b[2]>>
                        /\ r = <<2 * b[1], 2 * b[2] + 1>> /\ t = <<2 * b[1] + 1, 2 * b[2] + 1>>
  OBVIOUS
<1>3. /\ p \in Y!Pixels(Y!W, Y!H) /\ q \in Y!Pixels(Y!W, Y!H)
      /\ r \in Y!Pixels(Y!W, Y!H) /\ t \in Y!Pixels(Y!W, Y!H)
  BY <1>2, CornerPixels
<1>4. PICK c, d : /\ c = f[p][i] + f[q][i] + f[r][i] + f[t][i]
                  /\ d = h[p][i] + h[q][i] + h[r][i] + h[t][i]
  OBVIOUS
<1>5. c \in Int /\ d \in Int /\ c - d \in -4..4
  <2>1. PICK j, k, l, m, jj, kk, ll, mm :
          /\ j = f[p][i] /\ k = f[q][i] /\ l = f[r][i] /\ m = f[t][i]
          /\ jj = h[p][i] /\ kk = h[q][i] /\ ll = h[r][i] /\ mm = h[t][i]
    OBVIOUS
  <2>2. /\ j \in Int /\ jj \in Int /\ j - jj \in -1..1 /\ k \in Int /\ kk \in Int /\ k - kk \in -1..1
        /\ l \in Int /\ ll \in Int /\ l - ll \in -1..1 /\ m \in Int /\ mm \in Int /\ m - mm \in -1..1
    BY <1>3, <2>1, ZenonT(40)
  <2>3. c = j + k + l + m /\ d = jj + kk + ll + mm
    BY <1>4, <2>1, ZenonT(40)
  <2>. QED BY <2>2, <2>3
<1>6. Y!Average(f, b)[i] = c \div 4 /\ Y!Average(h, b)[i] = d \div 4
  BY <1>2, <1>4 DEF Y!Average
<1>7. c \div 4 \in Int /\ d \div 4 \in Int /\ c \div 4 - d \div 4 \in -1..1
  BY <1>5
<1>. QED BY <1>6, <1>7

LEMMA ReferenceNear == ASSUME Picture(img) PROVE Y!NearReference
<1>1. PICK v, r : v = Y!aloe_rggb10_to_rgb888_i420_v2 /\ r = Y!aloe_rggb10_to_rgb888_i420
  OBVIOUS
<1>2. /\ v.rgb = [p \in Y!Pixels(Y!W, Y!H) |-> Y!Byte(Y!V2Colour[p])]
      /\ v.y = [p \in Y!Pixels(Y!W, Y!H) |-> Y!rgb_to_y(Y!V2Colour[p])]
      /\ v.uv = Y!Chroma(Y!V2Colour)
  BY <1>1 DEF Y!aloe_rggb10_to_rgb888_i420_v2
<1>3. /\ r.rgb = Y!RefColour /\ r.uv = Y!Chroma(Y!RefColour)
      /\ r.y = [p \in Y!Pixels(Y!W, Y!H) |-> Y!rgb_to_y(Y!RefColour[p])]
  BY <1>1 DEF Y!aloe_rggb10_to_rgb888_i420
<1>4. ASSUME NEW p \in Y!Pixels(Y!W, Y!H), NEW i \in 1..3
      PROVE  /\ Y!V2Colour[p][i] \in Wide /\ Y!RefColour[p][i] \in Wide
             /\ Y!V2Colour[p][i] - Y!RefColour[p][i] \in -1..1
             /\ Y!V2Colour[p][i] > 255 => Y!RefColour[p][i] = 255
             /\ v.rgb[p][i] = IF Y!V2Colour[p][i] > 255 THEN 0 ELSE Y!V2Colour[p][i]
  <2>1. PICK k : k = Y!demosaic_rggb10_pixel(p)[i]
    OBVIOUS
  <2>2. k \in Sample10
    BY <2>1, ReadRange, SMTT(30)
  <2>3. Y!V2Colour[p][i] = (k + 2) \div 4 /\ Y!V2Colour[p][i] \in Wide
    BY <2>1, SameColours DEF Y!raw10_to_u8_fast
  <2>4. Y!RefColour[p][i] = Y!raw10_to_u8(k)
    BY <2>1, Reference
  <2>5. v.rgb[p][i] = Y!V2Colour[p][i] % 256
    BY <1>2 DEF Y!Byte
  <2>. QED BY <2>2, <2>3, <2>4, <2>5, Roundings, WideByte
<1>5. ASSUME NEW p \in Y!Pixels(Y!W, Y!H), NEW i \in 1..3
      PROVE  /\ Y!V2Colour[p][i] \in Int /\ Y!RefColour[p][i] \in Int
             /\ Y!V2Colour[p][i] - Y!RefColour[p][i] \in -1..1
  BY <1>4 DEF Wide
<1>6. ASSUME NEW p \in Y!Pixels(Y!W, Y!H) PROVE v.y[p] - r.y[p] \in -1..1
  <2>1. Y!rgb_to_y(Y!V2Colour[p]) - Y!rgb_to_y(Y!RefColour[p]) \in -1..1
    BY <1>5, NearColours
  <2>. QED BY <1>2, <1>3, <2>1
<1>7. ASSUME NEW b \in Y!Blocks, NEW k \in 1..2 PROVE v.uv[b][k] - r.uv[b][k] \in -1..1
  <2>1. PICK c, d : c = Y!Average(Y!V2Colour, b) /\ d = Y!Average(Y!RefColour, b)
    OBVIOUS
  <2>2. \A i \in 1..3 : c[i] \in Int /\ d[i] \in Int /\ c[i] - d[i] \in -1..1
    BY <1>5, <2>1, NearAverages
  <2>3. Y!rgb_to_u(c) - Y!rgb_to_u(d) \in -1..1 /\ Y!rgb_to_v(c) - Y!rgb_to_v(d) \in -1..1
    BY <2>2, NearColours
  <2>4. v.uv[b] = <<Y!rgb_to_u(c), Y!rgb_to_v(c)>> /\ r.uv[b] = <<Y!rgb_to_u(d), Y!rgb_to_v(d)>>
    BY <1>2, <1>3, <2>1 DEF Y!Chroma
  <2>5. k = 1 \/ k = 2
    OBVIOUS
  <2>. QED BY <2>3, <2>4, <2>5
<1>8. ASSUME NEW p \in Y!Pixels(Y!W, Y!H), NEW i \in 1..3
      PROVE  IF Y!V2Colour[p][i] > 255 THEN v.rgb[p][i] = 0 /\ r.rgb[p][i] = 255
                                       ELSE v.rgb[p][i] - r.rgb[p][i] \in -1..1
  <2>1. PICK a, c, e : a = Y!V2Colour[p][i] /\ c = Y!RefColour[p][i] /\ e = v.rgb[p][i]
    OBVIOUS
  <2>2. /\ a - c \in -1..1 /\ (a > 255 => c = 255)
        /\ e = IF a > 255 THEN 0 ELSE a
    BY <1>4, <2>1
  <2>3. IF a > 255 THEN e = 0 /\ c = 255 ELSE e - c \in -1..1
    BY <2>2
  <2>. QED BY <1>3, <2>1, <2>3, ZenonT(40)
<1>. QED BY <1>1, <1>6, <1>7, <1>8 DEF Y!NearReference

LEMMA BayerAgree == ASSUME Picture(img) PROVE Y!VersionsAgree
BY ScalarSame, NeonSame, ReferenceNear DEF Y!VersionsAgree

(* The frames are pictures in this sense.                                   *)
Pictures == \A f \in BayerFrames : Picture(f)

LEMMA BayerInit == Y!Init => Picture(img)
<1>1. Y!Pixels(0, 0) = {}
  BY DEF Y!Pixels
<1>2. <<>> \in [{} -> Sample10]
  OBVIOUS
<1>3. Y!NoFrame.size[1] = 0 /\ Y!NoFrame.size[2] = 0 /\ Y!NoFrame.raw = <<>>
  BY DEF Y!NoFrame
<1>4. 0 \in Nat /\ 0 % 2 = 0
  OBVIOUS
<1>5. Picture(Y!NoFrame)
  BY <1>1, <1>2, <1>3, <1>4, ZenonT(40) DEF Picture
<1>. QED BY <1>5 DEF Y!Init

LEMMA BayerStep == ASSUME Pictures PROVE Picture(img) /\ [Y!Next]_img => Picture(img)'
<1>1. ASSUME Picture(img), [Y!Next]_img PROVE Picture(img')
  BY <1>1 DEF Pictures, Y!Next
<1>. QED BY <1>1 DEF Picture

-----------------------------------------------------------------------------
Words == {v \in Nat : v <= 65535}

(* A frame of the scaling conversion: multiples of 8 as sides, 16-bit words. *)
Scaled(f) ==
  /\ f.size[1] \in Nat /\ f.size[1] % 8 = 0 /\ f.size[2] \in Nat /\ f.size[2] % 8 = 0
  /\ f.raw \in [(0..(f.size[1] - 1)) \X (0..(f.size[2] - 1)) -> Words]
  /\ f.gain \in [1..3 -> Nat]

-----------------------------------------------------------------------------
(* Rows of a entries one after the other, b of them.                        *)
LEMMA Multiples ==
  ASSUME NEW a \in Nat, NEW m \in Nat, NEW n \in Nat, m < n
  PROVE  m * a \in Nat /\ n * a \in Nat /\ m * a + a <= n * a
OBVIOUS

LEMMA RasterOnto ==
  ASSUME NEW a \in Nat, NEW b \in Nat, NEW k \in Nat, k < b * a
  PROVE  \E x \in 0..(a - 1), y \in 0..(b - 1) : k = y * a + x
<1>1. PICK T : T = {m \in Nat : \A l \in Nat : l < m * a =>
                     \E x \in 0..(a - 1), y \in 0..(m - 1) : l = y * a + x}
  OBVIOUS
<1>2. 0 \in T
  BY <1>1
<1>3. ASSUME NEW m \in Nat, m \in T PROVE m + 1 \in T
  <2>1. (m + 1) * a = m * a + a /\ m * a \in Nat
    OBVIOUS
  <2>2. ASSUME NEW l \in Nat, l < (m + 1) * a
        PROVE  \E x \in 0..(a - 1), y \in 0..m : l = y * a + x
    <3>1. CASE l < m * a
      <4>1. PICK x \in 0..(a - 1), y \in 0..(m - 1) : l = y * a + x
        BY <1>1, <1>3, <3>1
      <4>. QED BY <4>1
    <3>2. CASE ~(l < m * a)
      <4>1. l - m * a \in 0..(a - 1) /\ l = m * a + (l - m * a)
        BY <2>1, <2>2, <3>2
      <4>2. m \in 0..m
        OBVIOUS
      <4>. QED BY <4>1, <4>2
    <3>. QED BY <3>1, <3>2
  <2>3. (m + 1) - 1 = m
    OBVIOUS
  <2>. QED BY <1>1, <2>2, <2>3
<1>4. b \in T
  BY <1>2, <1>3, Induction
<1>. QED BY <1>1, <1>4

LEMMA RasterInto ==
  ASSUME NEW a \in Nat, NEW b \in Nat, NEW x \in 0..(a - 1), NEW y \in 0..(b - 1)
  PROVE  y * a + x \in Nat /\ y * a + x < b * a
<1>1. y \in Nat /\ y < b /\ x \in Nat /\ x < a
  OBVIOUS
<1>2. y * a \in Nat /\ b * a \in Nat /\ y * a + a <= b * a
  BY <1>1, Multiples
<1>. QED BY <1>1, <1>2

LEMMA RasterOnce ==
  ASSUME NEW a \in Nat, NEW x \in 0..(a - 1), NEW u \in 0..(a - 1), NEW y \in Nat, NEW v \in Nat,
         y * a + x = v * a + u
  PROVE  x = u /\ y = v
<1>1. x \in Nat /\ x < a /\ u \in Nat /\ u < a /\ y * a \in Nat /\ v * a \in Nat
  OBVIOUS
<1>2. ~(y < v)
  <2>1. y < v => y * a + a <= v * a
    BY Multiples
  <2>. QED BY <1>1, <2>1
<1>3. ~(v < y)
  <2>1. v < y => v * a + a <= y * a
    BY Multiples
  <2>. QED BY <1>1, <2>1
<1>4. y = v
  BY <1>2, <1>3
<1>. QED BY <1>1, <1>4

(* at gives the entries A an index below n each, all of them used.          *)
Numbers(at, A, n) ==
  /\ n \in Nat
  /\ \A p \in A : at[p] \in Nat /\ at[p] < n
  /\ \A k \in Nat : k < n => \E p \in A : at[p] = k
  /\ \A p, q \in A : at[p] = at[q] => p = q

LEMMA QCardinality == \A T : Q!Cardinality(T) = Cardinality(T)
BY DEF Q!Cardinality, Cardinality

LEMMA FilledProp ==
  ASSUME NEW A, NEW at, NEW val, NEW n, Numbers(at, A, n)
  PROVE  Q!Filled({<<at[p], val[p]>> : p \in A}, n)
<1>1. PICK T : T = {<<at[p], val[p]>> : p \in A}
  OBVIOUS
<1>2. n \in Nat
  BY DEF Numbers
<1>3. {w[1] : w \in T} = 0..(n - 1)
  <2>1. ASSUME NEW k \in {w[1] : w \in T} PROVE k \in 0..(n - 1)
    <3>1. PICK p \in A : k = <<at[p], val[p]>>[1]
      BY <1>1
    <3>2. k = at[p]
      BY <3>1
    <3>. QED BY <1>2, <3>2 DEF Numbers
  <2>2. ASSUME NEW k \in 0..(n - 1) PROVE k \in {w[1] : w \in T}
    <3>1. PICK p \in A : at[p] = k
      BY <1>2 DEF Numbers
    <3>2. <<at[p], val[p]>> \in T /\ <<at[p], val[p]>>[1] = k
      BY <1>1, <3>1
    <3>. QED BY <3>2
  <2>. QED BY <2>1, <2>2
<1>4. PICK f : f = [k \in 0..(n - 1) |-> CHOOSE w \in T : w[1] = k]
  OBVIOUS
<1>5. ASSUME NEW k \in 0..(n - 1) PROVE f[k] \in T /\ f[k][1] = k
  <2>1. \E w \in T : w[1] = k
    BY <1>3
  <2>. QED BY <1>4, <2>1
<1>6. ASSUME NEW w \in T PROVE \E k \in 0..(n - 1) : f[k] = w
  <2>1. PICK p \in A : w = <<at[p], val[p]>>
    BY <1>1
  <2>2. at[p] \in 0..(n - 1)
    BY <1>2 DEF Numbers
  <2>3. f[at[p]] \in T /\ f[at[p]][1] = at[p]
    BY <1>5, <2>2
  <2>4. PICK q \in A : f[at[p]] = <<at[q], val[q]>>
    BY <1>1, <2>3
  <2>5. at[q] = at[p]
    BY <2>3, <2>4
  <2>6. q = p
    BY <2>5 DEF Numbers
  <2>. QED BY <2>1, <2>2, <2>4, <2>6
<1>7. f \in Bijection(0..(n - 1), T)
  <2>1. f \in [0..(n - 1) -> T]
    BY <1>4, <1>5
  <2>2. \A k, l \in 0..(n - 1) : f[k] = f[l] => k = l
    BY <1>5
  <2>. QED BY <1>6, <2>1, <2>2 DEF Bijection, Injection, Surjection, IsInjective
<1>8. IsFiniteSet(0..(n - 1)) /\ Cardinality(0..(n - 1)) = n
  <2>1. 0 \in Int /\ n - 1 \in Int
    BY <1>2
  <2>2. /\ IsFiniteSet(0..(n - 1))
        /\ Cardinality(0..(n - 1)) = IF 0 > n - 1 THEN 0 ELSE (n - 1) - 0 + 1
    BY <2>1, FS_Interval
  <2>. QED BY <1>2, <2>2
<1>9. Cardinality(T) = n
  <2>1. ExistsBijection(0..(n - 1), T)
    BY <1>7 DEF ExistsBijection
  <2>. QED BY <1>8, <2>1, FS_Bijection
<1>. QED BY <1>1, <1>3, <1>9, QCardinality DEF Q!Filled

LEMMA WholeGrid ==
  ASSUME NEW a \in Nat, NEW b \in Nat, NEW at,
         \A p \in (0..(a - 1)) \X (0..(b - 1)) : at[p] = p[2] * a + p[1]
  PROVE  Numbers(at, (0..(a - 1)) \X (0..(b - 1)), b * a)
<1>1. PICK A : A = (0..(a - 1)) \X (0..(b - 1))
  OBVIOUS
<1>2. ASSUME NEW p \in A
      PROVE  p = <<p[1], p[2]>> /\ p[1] \in 0..(a - 1) /\ p[2] \in 0..(b - 1) /\ p[2] \in Nat
  BY <1>1
<1>3. ASSUME NEW p \in A PROVE at[p] \in Nat /\ at[p] < b * a
  BY <1>1, <1>2, RasterInto
<1>4. ASSUME NEW k \in Nat, k < b * a PROVE \E p \in A : at[p] = k
  <2>1. PICK x \in 0..(a - 1), y \in 0..(b - 1) : k = y * a + x
    BY <1>4, RasterOnto
  <2>2. <<x, y>> \in A /\ <<x, y>>[1] = x /\ <<x, y>>[2] = y
    BY <1>1
  <2>3. at[<<x, y>>] = k
    BY <1>1, <2>1, <2>2
  <2>. QED BY <2>2, <2>3
<1>5. ASSUME NEW p \in A, NEW q \in A, at[p] = at[q] PROVE p = q
  <2>1. p[2] * a + p[1] = q[2] * a + q[1]
    BY <1>1, <1>5
  <2>2. p[1] = q[1] /\ p[2] = q[2]
    BY <1>2, <2>1, RasterOnce
  <2>. QED BY <1>2, <2>2
<1>6. b * a \in Nat
  OBVIOUS
<1>. QED BY <1>1, <1>3, <1>4, <1>5, <1>6 DEF Numbers

(* One entry in four, at odd (r = 1) or even (r = 0) coordinates.           *)
Quarter(a, b, r) == {p \in (0..(2 * a - 1)) \X (0..(2 * b - 1)) : p[2] % 2 = r /\ p[1] % 2 = r}

LEMMA Halves ==
  ASSUME NEW n \in Nat, NEW x \in 0..(2 * n - 1)
  PROVE  x \div 2 \in 0..(n - 1) /\ x = 2 * (x \div 2) + (x % 2)
OBVIOUS

LEMMA QuarterGrid ==
  ASSUME NEW a \in Nat, NEW b \in Nat, NEW r \in {0, 1}, NEW at,
         \A p \in Quarter(a, b, r) : at[p] = (p[2] \div 2) * a + p[1] \div 2
  PROVE  Numbers(at, Quarter(a, b, r), b * a)
<1>1. ASSUME NEW p \in Quarter(a, b, r)
      PROVE  /\ p = <<p[1], p[2]>> /\ p[1] \div 2 \in 0..(a - 1) /\ p[2] \div 2 \in 0..(b - 1)
             /\ p[2] \div 2 \in Nat
             /\ p[1] = 2 * (p[1] \div 2) + r /\ p[2] = 2 * (p[2] \div 2) + r
  <2>1. p = <<p[1], p[2]>>
    BY DEF Quarter
  <2>2. /\ p[1] \in 0..(2 * a - 1) /\ p[2] \in 0..(2 * b - 1)
        /\ p[2] % 2 = r /\ p[1] % 2 = r
    BY DEF Quarter
  <2>3. p[1] \div 2 \in 0..(a - 1) /\ p[1] = 2 * (p[1] \div 2) + r
    BY <2>2, Halves
  <2>4. p[2] \div 2 \in 0..(b - 1) /\ p[2] = 2 * (p[2] \div 2) + r
    BY <2>2, Halves
  <2>. QED BY <2>1, <2>3, <2>4
<1>2. ASSUME NEW p \in Quarter(a, b, r) PROVE at[p] \in Nat /\ at[p] < b * a
  BY <1>1, RasterInto
<1>3. ASSUME NEW k \in Nat, k < b * a PROVE \E p \in Quarter(a, b, r) : at[p] = k
  <2>1. PICK x \in 0..(a - 1), y \in 0..(b - 1) : k = y * a + x
    BY <1>3, RasterOnto
  <2>2. PICK u, v : u = 2 * x + r /\ v = 2 * y + r
    OBVIOUS
  <2>3. /\ u \in 0..(2 * a - 1) /\ v \in 0..(2 * b - 1)
        /\ u % 2 = r /\ v % 2 = r /\ u \div 2 = x /\ v \div 2 = y
    BY <2>2
  <2>4. <<u, v>> \in Quarter(a, b, r)
    BY <2>3 DEF Quarter
  <2>5. at[<<u, v>>] = k
    BY <2>1, <2>3, <2>4
  <2>. QED BY <2>4, <2>5
<1>4. ASSUME NEW p \in Quarter(a, b, r), NEW q \in Quarter(a, b, r), at[p] = at[q] PROVE p = q
  <2>1. (p[2] \div 2) * a + p[1] \div 2 = (q[2] \div 2) * a + q[1] \div 2
    BY <1>4
  <2>2. p[1] \div 2 = q[1] \div 2 /\ p[2] \div 2 = q[2] \div 2
    BY <1>1, <2>1, RasterOnce
  <2>. QED BY <1>1, <2>2
<1>5. b * a \in Nat
  OBVIOUS
<1>. QED BY <1>2, <1>3, <1>4, <1>5 DEF Numbers

-----------------------------------------------------------------------------
(* A lane of 32 bits holds two words; shifted by 2 or by 18 its low byte is *)
(* that of one of them.                                                     *)
LEMMA Lanes ==
  ASSUME NEW l \in Int, NEW h \in Int
  PROVE  /\ Q!Shifted(<<l, h>>, 2) % 256 = Q!rg10_u8(l)
         /\ Q!Shifted(<<l, h>>, 18) % 256 = Q!rg10_u8(h)
<1>1. Q!Shifted(<<l, h>>, 2) = (l \div 4 + h * 16384) % 65536
  BY DEF Q!Shifted
<1>2. Q!Shifted(<<l, h>>, 18) = h \div 4
  BY DEF Q!Shifted
<1>3. ((l \div 4 + h * 16384) % 65536) % 256 = (l \div 4) % 256
  OBVIOUS
<1>. QED BY <1>1, <1>2, <1>3 DEF Q!rg10_u8

LEMMA OutPixel ==
  ASSUME Scaled(frame), NEW p \in Q!Out
  PROVE  /\ p[1] \in Nat /\ p[2] \in Nat /\ 4 * p[1] + 3 < Q!W /\ 4 * p[2] + 3 < Q!H
         /\ \A i, j \in 0..1 : Q!Sample(4 * p[1] + i, 4 * p[2] + j) \in Words
<1>1. /\ Q!W \in Nat /\ Q!W % 8 = 0 /\ Q!H \in Nat /\ Q!H % 8 = 0
      /\ frame.raw \in [(0..(Q!W - 1)) \X (0..(Q!H - 1)) -> Words]
  BY DEF Scaled, Q!W, Q!H
<1>2. p[1] \in 0..((Q!W \div 4) - 1) /\ p[2] \in 0..((Q!H \div 4) - 1)
  BY DEF Q!Out
<1>3. p[1] \in Nat /\ p[2] \in Nat /\ 4 * p[1] + 3 < Q!W /\ 4 * p[2] + 3 < Q!H
  BY <1>1, <1>2
<1>4. ASSUME NEW i \in 0..1, NEW j \in 0..1
      PROVE  Q!Sample(4 * p[1] + i, 4 * p[2] + j) \in Words
  <2>1. <<4 * p[1] + i, 4 * p[2] + j>> \in (0..(Q!W - 1)) \X (0..(Q!H - 1))
    BY <1>1, <1>3
  <2>. QED BY <1>1, <2>1 DEF Q!Sample
<1>. QED BY <1>3, <1>4

LEMMA Colour5Bytes ==
  ASSUME Scaled(frame), NEW p \in Q!Out
  PROVE  Q!Colour5(p) \in [1..3 -> 0..255]
<1>1. /\ p[1] \in Nat /\ p[2] \in Nat
      /\ \A i, j \in 0..1 : Q!Sample(4 * p[1] + i, 4 * p[2] + j) \in Words
  BY OutPixel
<1>2. \A v \in Words : Q!rg10_u8(v) \in 0..255
  BY DEF Words, Q!rg10_u8
<1>3. PICK a, b, c : a = Q!Sample(4 * p[1], 4 * p[2]) /\ b = Q!Sample(4 * p[1] + 1, 4 * p[2])
                      /\ c = Q!Sample(4 * p[1] + 1, 4 * p[2] + 1)
  OBVIOUS
<1>4. a \in Words /\ b \in Words /\ c \in Words
  <2>1. 4 * p[1] + 0 = 4 * p[1] /\ 4 * p[2] + 0 = 4 * p[2] /\ 0 \in 0..1 /\ 1 \in 0..1
    BY <1>1
  <2>. QED BY <1>1, <1>3, <2>1
<1>5. Q!Colour5(p) = <<Q!rg10_u8(a), Q!rg10_u8(b), Q!rg10_u8(c)>>
  BY <1>3 DEF Q!Colour5
<1>6. Q!rg10_u8(a) \in 0..255 /\ Q!rg10_u8(b) \in 0..255 /\ Q!rg10_u8(c) \in 0..255
  BY <1>2, <1>4
<1>. QED BY <1>5, <1>6

(* The eight colours of a chunk are those of its pixels.                    *)
LEMMA PairAt ==
  ASSUME NEW x \in Int, NEW y, NEW i \in 0..7
  PROVE  (IF i < 4 THEN Q!rg10_v6_pairs(4 * x + 16 * 0, y)[i]
                   ELSE Q!rg10_v6_pairs(4 * x + 16 * 1, y)[i - 4])
           = <<Q!Sample(4 * (x + i), y), Q!Sample(4 * (x + i) + 1, y)>>
<1>1. CASE i < 4
  <2>1. i \in 0..3 /\ (4 * x + 16 * 0) + 4 * i = 4 * (x + i)
    BY <1>1
  <2>2. Q!rg10_v6_pairs(4 * x + 16 * 0, y)[i]
          = <<Q!Sample((4 * x + 16 * 0) + 4 * i, y), Q!Sample((4 * x + 16 * 0) + 4 * i + 1, y)>>
    BY <2>1 DEF Q!rg10_v6_pairs
  <2>. QED BY <1>1, <2>1, <2>2
<1>2. CASE ~(i < 4)
  <2>1. i - 4 \in 0..3 /\ (4 * x + 16 * 1) + 4 * (i - 4) = 4 * (x + i)
    BY <1>2
  <2>2. Q!rg10_v6_pairs(4 * x + 16 * 1, y)[i - 4]
          = <<Q!Sample((4 * x + 16 * 1) + 4 * (i - 4), y),
              Q!Sample((4 * x + 16 * 1) + 4 * (i - 4) + 1, y)>>
    BY <2>1 DEF Q!rg10_v6_pairs
  <2>. QED BY <1>2, <2>1, <2>2
<1>. QED BY <1>1, <1>2

LEMMA ChunkColours ==
  ASSUME Scaled(frame), NEW p \in Q!Out, NEW x, x = p[1] - (p[1] % 8)
  PROVE  [i \in 1..3 |-> Q!Chunk6(x, p[2])[i][p[1] % 8]] = Q!Colour5(p)
<1>1. /\ p[1] \in Nat /\ p[2] \in Nat
      /\ \A i, j \in 0..1 : Q!Sample(4 * p[1] + i, 4 * p[2] + j) \in Words
  BY OutPixel
<1>2. PICK k : k = p[1] % 8
  OBVIOUS
<1>3. k \in 0..7 /\ x \in Int /\ x + k = p[1]
  <2>1. PICK n \in Nat : n = p[1]
    BY <1>1
  <2>2. k = n % 8 /\ x = n - k
    BY <1>2, <2>1
  <2>3. k \in 0..7
    BY <2>2
  <2>. QED BY <2>1, <2>2, <2>3
<1>4. ASSUME NEW y, NEW s
      PROVE  Q!rg10_v6_channel(Q!rg10_v6_pairs(4 * x + 16 * 0, y), Q!rg10_v6_pairs(4 * x + 16 * 1, y), s)[k]
               = Q!Shifted(<<Q!Sample(4 * p[1], y), Q!Sample(4 * p[1] + 1, y)>>, s) % 256
  BY <1>3, PairAt, ZenonT(40) DEF Q!rg10_v6_channel
<1>5. PICK a, b, c, d :
        /\ a = Q!Sample(4 * p[1], 4 * p[2]) /\ b = Q!Sample(4 * p[1] + 1, 4 * p[2])
        /\ c = Q!Sample(4 * p[1], 4 * p[2] + 1) /\ d = Q!Sample(4 * p[1] + 1, 4 * p[2] + 1)
  OBVIOUS
<1>6. a \in Int /\ b \in Int /\ c \in Int /\ d \in Int
  <2>1. 4 * p[1] + 0 = 4 * p[1] /\ 4 * p[2] + 0 = 4 * p[2] /\ 0 \in 0..1 /\ 1 \in 0..1
    BY <1>1
  <2>2. a \in Words /\ b \in Words /\ c \in Words /\ d \in Words
    BY <1>1, <1>5, <2>1
  <2>. QED BY <2>2 DEF Words
<1>7. /\ Q!Chunk6(x, p[2])[1][k] = Q!rg10_u8(a) /\ Q!Chunk6(x, p[2])[2][k] = Q!rg10_u8(b)
      /\ Q!Chunk6(x, p[2])[3][k] = Q!rg10_u8(d)
  <2>1. Q!Chunk6(x, p[2])[1][k] = Q!Shifted(<<a, b>>, 2) % 256
    BY <1>4, <1>5 DEF Q!Chunk6
  <2>2. Q!Chunk6(x, p[2])[2][k] = Q!Shifted(<<a, b>>, 18) % 256
    BY <1>4, <1>5 DEF Q!Chunk6
  <2>3. Q!Chunk6(x, p[2])[3][k] = Q!Shifted(<<c, d>>, 18) % 256
    BY <1>4, <1>5 DEF Q!Chunk6
  <2>. QED BY <1>6, <2>1, <2>2, <2>3, Lanes
<1>8. Q!Colour5(p) = <<Q!rg10_u8(a), Q!rg10_u8(b), Q!rg10_u8(d)>>
  BY <1>5 DEF Q!Colour5
<1>9. ASSUME NEW f, f = [i \in 1..3 |-> Q!Chunk6(x, p[2])[i][k]]
      PROVE  f = <<Q!rg10_u8(a), Q!rg10_u8(b), Q!rg10_u8(d)>>
  BY <1>7, <1>9
<1>. QED BY <1>2, <1>8, <1>9

(* Each fourth word of the chunk is in the same NEON register.              *)
LEMMA NeonColours ==
  ASSUME Scaled(frame), NEW p \in Q!Out, NEW x, x = p[1] - (p[1] % 8)
  PROVE  [i \in 1..3 |-> Q!ChunkNeon(x, p[2])[i][p[1] % 8]] = Q!Colour5(p)
<1>1. p[1] \in Nat /\ p[2] \in Nat
  BY OutPixel
<1>2. PICK k, c, y : k = p[1] % 8 /\ c = Q!ChunkNeon(x, p[2]) /\ y = 4 * p[2]
  OBVIOUS
<1>3. k \in 0..7 /\ 4 * x + 4 * k + 0 = 4 * p[1] /\ 4 * x + 4 * k + 1 = 4 * p[1] + 1
  <2>1. PICK n \in Nat : n = p[1]
    BY <1>1
  <2>2. k = n % 8 /\ x = n - k
    BY <1>2, <2>1
  <2>3. k \in 0..7
    BY <2>2
  <2>4. PICK m : m = x
    OBVIOUS
  <2>5. m = n - k
    BY <2>2, <2>4, ZenonT(40)
  <2>6. 4 * m + 4 * k + 0 = 4 * n /\ 4 * m + 4 * k + 1 = 4 * n + 1
    BY <2>3, <2>5
  <2>. QED BY <2>1, <2>3, <2>4, <2>6, ZenonT(40)
<1>4. ASSUME NEW v, NEW j \in 0..3
      PROVE  Q!vmovn_u16(Q!vld4q_u16(4 * x, v)[j])[k]
               = (Q!Sample(4 * x + 4 * k + j, v) \div 4) % 256
  BY <1>3 DEF Q!vmovn_u16, Q!vld4q_u16
<1>5. c = <<Q!vmovn_u16(Q!vld4q_u16(4 * x, y)[0]), Q!vmovn_u16(Q!vld4q_u16(4 * x, y)[1]),
            Q!vmovn_u16(Q!vld4q_u16(4 * x, y + 1)[1])>>
  BY <1>2 DEF Q!ChunkNeon
<1>6. /\ c[1][k] = Q!rg10_u8(Q!Sample(4 * p[1], y))
      /\ c[2][k] = Q!rg10_u8(Q!Sample(4 * p[1] + 1, y))
      /\ c[3][k] = Q!rg10_u8(Q!Sample(4 * p[1] + 1, y + 1))
  <2>1. 0 \in 0..3 /\ 1 \in 0..3
    OBVIOUS
  <2>2. /\ Q!vmovn_u16(Q!vld4q_u16(4 * x, y)[0])[k] = Q!rg10_u8(Q!Sample(4 * p[1], y))
        /\ Q!vmovn_u16(Q!vld4q_u16(4 * x, y)[1])[k] = Q!rg10_u8(Q!Sample(4 * p[1] + 1, y))
        /\ Q!vmovn_u16(Q!vld4q_u16(4 * x, y + 1)[1])[k] = Q!rg10_u8(Q!Sample(4 * p[1] + 1, y + 1))
    BY <1>3, <1>4, <2>1, ZenonT(40) DEF Q!rg10_u8
  <2>3. PICK a, b, d :
          /\ a = Q!vmovn_u16(Q!vld4q_u16(4 * x, y)[0]) /\ b = Q!vmovn_u16(Q!vld4q_u16(4 * x, y)[1])
          /\ d = Q!vmovn_u16(Q!vld4q_u16(4 * x, y + 1)[1])
    OBVIOUS
  <2>4. c[1] = a /\ c[2] = b /\ c[3] = d
    <3>1. c = <<a, b, d>>
      BY <1>5, <2>3, ZenonT(40)
    <3>. QED BY <3>1
  <2>. QED BY <2>2, <2>3, <2>4, ZenonT(40)
<1>7. Q!Colour5(p) = <<Q!rg10_u8(Q!Sample(4 * p[1], y)), Q!rg10_u8(Q!Sample(4 * p[1] + 1, y)),
                       Q!rg10_u8(Q!Sample(4 * p[1] + 1, y + 1))>>
  BY <1>2 DEF Q!Colour5
<1>8. ASSUME NEW f, f = [i \in 1..3 |-> c[i][k]]
      PROVE  f = <<c[1][k], c[2][k], c[3][k]>>
  BY <1>8
<1>. QED BY <1>2, <1>6, <1>7, <1>8

LEMMA AdjustBytes ==
  ASSUME Scaled(frame), NEW c \in [1..3 -> 0..255]
  PROVE  Q!Adjust(c) \in [1..3 -> 0..255]
<1>1. CASE frame.gain = <<4, 4, 4>>
  BY <1>1 DEF Q!Adjust
<1>2. CASE frame.gain # <<4, 4, 4>>
  <2>1. \A v \in Int : Q!clamp_u8(v) \in 0..255
    BY DEF Q!clamp_u8
  <2>2. ASSUME NEW i \in 1..3 PROVE Q!clamp_u8((c[i] * frame.gain[i] + 2) \div 4) \in 0..255
    <3>1. c[i] \in Int /\ frame.gain[i] \in Int
      BY DEF Scaled
    <3>2. (c[i] * frame.gain[i] + 2) \div 4 \in Int
      BY <3>1
    <3>. QED BY <2>1, <3>2
  <2>. QED BY <1>2, <2>2 DEF Q!Adjust
<1>. QED BY <1>1, <1>2

(* However a chunk gets its colours.                                        *)
LEMMA Colour6Same ==
  ASSUME Scaled(frame), NEW p \in Q!Out, NEW vector
  PROVE  Q!Colour6(p, vector) = Q!Adjust(Q!Colour5(p))
<1>1. PICK x : x = p[1] - (p[1] % 8)
  OBVIOUS
<1>2. [i \in 1..3 |-> Q!Chunk6(x, p[2])[i][p[1] % 8]] = Q!Colour5(p)
  BY <1>1, ChunkColours
<1>3. [i \in 1..3 |-> Q!ChunkNeon(x, p[2])[i][p[1] % 8]] = Q!Colour5(p)
  BY <1>1, NeonColours
<1>4. PICK c : c = IF vector = "sse2" THEN Q!Chunk6(x, p[2]) ELSE Q!ChunkNeon(x, p[2])
  OBVIOUS
<1>5. [i \in 1..3 |-> c[i][p[1] % 8]] = Q!Colour5(p)
  BY <1>2, <1>3, <1>4
<1>6. Q!Colour6(p, vector)
        = Q!Adjust(IF Q!InChunk(p) /\ vector # "scalar" THEN [i \in 1..3 |-> c[i][p[1] % 8]]
                   ELSE Q!Colour5(p))
  BY <1>1, <1>4 DEF Q!Colour6
<1>. QED BY <1>5, <1>6

LEMMA LumaSame ==
  ASSUME NEW c \in [1..3 -> 0..255]
  PROVE  /\ Q!rgb_y_sse2_8(c) = Q!Byte(Q!Luma(c))
         /\ Q!rgb_y_neon_8(c) = Q!Byte(Q!Luma(c))
<1>1. PICK r, g, b : r = c[1] /\ g = c[2] /\ b = c[3]
  OBVIOUS
<1>2. r \in 0..255 /\ g \in 0..255 /\ b \in 0..255
  BY <1>1
<1>3. PICK m : m = 66 * r + 129 * g + 25 * b + 128
  OBVIOUS
<1>4. m \in Int /\ 0 <= m /\ m <= 56228
  BY <1>2, <1>3
<1>5. /\ m % 65536 = m /\ (m \div 256 + 16) % 256 = m \div 256 + 16
      /\ m \div 256 + 16 \in Int /\ 0 <= m \div 256 + 16 /\ m \div 256 + 16 <= 255
  BY <1>4, LumaFits
<1>6. Q!clamp_u8(m \div 256 + 16) = m \div 256 + 16
  BY <1>5 DEF Q!clamp_u8
<1>7. Q!Byte(Q!Luma(c)) = m \div 256 + 16
  BY <1>1, <1>3, <1>4, <1>5 DEF Q!Byte, Q!Luma, Q!Quot256
<1>. QED BY <1>1, <1>3, <1>5, <1>6, <1>7 DEF Q!rgb_y_sse2_8, Q!rgb_y_neon_8, Q!Byte

LEMMA LumaAny ==
  ASSUME NEW c \in [1..3 -> 0..255], NEW p, NEW vector
  PROVE  Q!LumaOf(p, c, vector) = Q!Byte(Q!Luma(c))
BY LumaSame DEF Q!LumaOf

LEMMA ChromaFits ==
  ASSUME NEW m \in Int, 0 - 28432 <= m, m <= 28688
  PROVE  Q!clamp_u8(Q!Quot256(m) + 128) = Q!Byte(Q!Quot256(m) + 128)
<1>1. Q!Quot256(m) \in Int /\ 0 <= Q!Quot256(m) + 128 /\ Q!Quot256(m) + 128 <= 255
  BY DEF Q!Quot256
<1>2. PICK k : k = Q!Quot256(m) + 128
  OBVIOUS
<1>3. k \in Int /\ 0 <= k /\ k <= 255
  BY <1>1, <1>2
<1>4. Q!clamp_u8(k) = k /\ Q!Byte(k) = k
  BY <1>3 DEF Q!clamp_u8, Q!Byte
<1>. QED BY <1>2, <1>4

LEMMA ChromaSame ==
  ASSUME NEW c \in [1..3 -> 0..255]
  PROVE  /\ Q!clamp_u8(Q!ChromaU(c)) = Q!Byte(Q!ChromaU(c))
         /\ Q!clamp_u8(Q!ChromaV(c)) = Q!Byte(Q!ChromaV(c))
<1>1. PICK r, g, b : r = c[1] /\ g = c[2] /\ b = c[3]
  OBVIOUS
<1>2. r \in 0..255 /\ g \in 0..255 /\ b \in 0..255
  BY <1>1
<1>3. PICK m, n : m = -38 * r - 74 * g + 112 * b + 128 /\ n = 112 * r - 94 * g - 18 * b + 128
  OBVIOUS
<1>4. m \in Int /\ 0 - 28432 <= m /\ m <= 28688
  BY <1>2, <1>3
<1>5. n \in Int /\ 0 - 28432 <= n /\ n <= 28688
  BY <1>2, <1>3
<1>6. Q!ChromaU(c) = Q!Quot256(m) + 128 /\ Q!ChromaV(c) = Q!Quot256(n) + 128
  BY <1>1, <1>3 DEF Q!ChromaU, Q!ChromaV
<1>. QED BY <1>4, <1>5, <1>6, ChromaFits

(* What every version of v6 writes.                                         *)
Kept5 == {p \in Q!Out : p[2] % 2 = 1 /\ p[1] % 2 = 1}
V6 ==
  [rgb |-> {<<Q!At(p), Q!Adjust(Q!Colour5(p))>> : p \in Q!Out},
   y   |-> {<<Q!At(p), Q!Byte(Q!Luma(Q!Adjust(Q!Colour5(p))))>> : p \in Q!Out},
   u   |-> {<<Q!ChromaAt(p), Q!Byte(Q!ChromaU(Q!Adjust(Q!Colour5(p))))>> : p \in Kept5},
   v   |-> {<<Q!ChromaAt(p), Q!Byte(Q!ChromaV(Q!Adjust(Q!Colour5(p))))>> : p \in Kept5}]

LEMMA V6Same ==
  ASSUME Scaled(frame), NEW vector
  PROVE  Q!aloe_rg10_rgb8_i420_v6(vector) = V6
<1>1. ASSUME NEW p \in Q!Out
      PROVE  /\ Q!Colour6(p, vector) = Q!Adjust(Q!Colour5(p))
             /\ Q!LumaOf(p, Q!Colour6(p, vector), vector)
                  = Q!Byte(Q!Luma(Q!Adjust(Q!Colour5(p))))
  <2>1. Q!Adjust(Q!Colour5(p)) \in [1..3 -> 0..255]
    BY AdjustBytes, Colour5Bytes
  <2>. QED BY <2>1, Colour6Same, LumaAny
<1>2. PICK o : o = Q!aloe_rg10_rgb8_i420_v6(vector)
  OBVIOUS
<1>3. o.rgb = V6.rgb
  BY <1>1, <1>2 DEF Q!aloe_rg10_rgb8_i420_v6, V6
<1>4. o.y = V6.y
  BY <1>1, <1>2 DEF Q!aloe_rg10_rgb8_i420_v6, V6
<1>5. o.u = V6.u
  BY <1>1, <1>2 DEF Q!aloe_rg10_rgb8_i420_v6, V6, Kept5
<1>6. o.v = V6.v
  BY <1>1, <1>2 DEF Q!aloe_rg10_rgb8_i420_v6, V6, Kept5
<1>7. o = [rgb |-> o.rgb, y |-> o.y, u |-> o.u, v |-> o.v]
  BY <1>2 DEF Q!aloe_rg10_rgb8_i420_v6
<1>8. V6 = [rgb |-> V6.rgb, y |-> V6.y, u |-> V6.u, v |-> V6.v]
  BY DEF V6
<1>. QED BY <1>2, <1>3, <1>4, <1>5, <1>6, <1>7, <1>8

LEMMA V5Same ==
  ASSUME Scaled(frame), frame.gain = <<4, 4, 4>>, NEW vector
  PROVE  Q!aloe_rg10_rgb8_i420_v5(vector) = V6
<1>1. ASSUME NEW p \in Q!Out
      PROVE  /\ Q!Adjust(Q!Colour5(p)) = Q!Colour5(p)
             /\ Q!LumaOf(p, Q!Colour5(p), vector) = Q!Byte(Q!Luma(Q!Colour5(p)))
             /\ Q!clamp_u8(Q!ChromaU(Q!Colour5(p))) = Q!Byte(Q!ChromaU(Q!Colour5(p)))
             /\ Q!clamp_u8(Q!ChromaV(Q!Colour5(p))) = Q!Byte(Q!ChromaV(Q!Colour5(p)))
  <2>1. Q!Colour5(p) \in [1..3 -> 0..255]
    BY Colour5Bytes
  <2>2. Q!Adjust(Q!Colour5(p)) = Q!Colour5(p)
    BY DEF Q!Adjust
  <2>. QED BY <2>1, <2>2, LumaAny, ChromaSame
<1>2. PICK o : o = Q!aloe_rg10_rgb8_i420_v5(vector)
  OBVIOUS
<1>3. o.rgb = V6.rgb
  BY <1>1, <1>2 DEF Q!aloe_rg10_rgb8_i420_v5, V6
<1>4. o.y = V6.y
  BY <1>1, <1>2 DEF Q!aloe_rg10_rgb8_i420_v5, V6
<1>5. o.u = V6.u
  BY <1>1, <1>2 DEF Q!aloe_rg10_rgb8_i420_v5, V6, Kept5
<1>6. o.v = V6.v
  BY <1>1, <1>2 DEF Q!aloe_rg10_rgb8_i420_v5, V6, Kept5
<1>7. o = [rgb |-> o.rgb, y |-> o.y, u |-> o.u, v |-> o.v]
  BY <1>2 DEF Q!aloe_rg10_rgb8_i420_v5
<1>8. V6 = [rgb |-> V6.rgb, y |-> V6.y, u |-> V6.u, v |-> V6.v]
  BY DEF V6
<1>. QED BY <1>2, <1>3, <1>4, <1>5, <1>6, <1>7, <1>8

-----------------------------------------------------------------------------
(* Every byte of the planes is written, and once.                           *)
LEMMA Sides ==
  ASSUME Scaled(frame)
  PROVE  \E a, b \in Nat :
           /\ Q!W = 8 * a /\ Q!H = 8 * b
           /\ Q!W \div 8 = a /\ Q!H \div 8 = b
           /\ Q!W \div 4 = 2 * a /\ Q!H \div 4 = 2 * b
           /\ Q!W \div 2 = 4 * a /\ Q!H \div 2 = 4 * b
<1>1. Q!W \in Nat /\ Q!W % 8 = 0 /\ Q!H \in Nat /\ Q!H % 8 = 0
  BY DEF Scaled, Q!W, Q!H
<1>2. PICK w, h : w = Q!W /\ h = Q!H
  OBVIOUS
<1>3. PICK a, b : a = w \div 8 /\ b = h \div 8
  OBVIOUS
<1>4. a \in Nat /\ b \in Nat /\ w = 8 * a /\ h = 8 * b
  BY <1>1, <1>2, <1>3
<1>5. /\ w \div 8 = a /\ h \div 8 = b /\ w \div 4 = 2 * a /\ h \div 4 = 2 * b
      /\ w \div 2 = 4 * a /\ h \div 2 = 4 * b
  BY <1>4
<1>. QED BY <1>2, <1>4, <1>5

LEMMA Areas ==
  ASSUME NEW a \in Nat, NEW b \in Nat
  PROVE  /\ (2 * a) * (2 * b) = (2 * b) * (2 * a)
         /\ ((2 * a) * (2 * b)) \div 4 = b * a
<1>1. PICK m : m = b * a
  OBVIOUS
<1>2. m \in Nat /\ (2 * a) * (2 * b) = 4 * m
  BY <1>1
<1>3. (4 * m) \div 4 = m
  BY <1>2
<1>. QED BY <1>1, <1>2, <1>3

(* A plane with a value for each pixel of the output.                       *)
LEMMA PlaneFilled ==
  ASSUME Scaled(frame), NEW val
  PROVE  Q!Filled({<<Q!At(p), val[p]>> : p \in Q!Out}, (Q!W \div 4) * (Q!H \div 4))
<1>1. PICK c, d : c = Q!W \div 4 /\ d = Q!H \div 4
  OBVIOUS
<1>2. c \in Nat /\ d \in Nat /\ c * d = d * c
  BY <1>1 DEF Scaled, Q!W, Q!H
<1>3. PICK o : o = Q!Out
  OBVIOUS
<1>4. o = (0..(c - 1)) \X (0..(d - 1))
  BY <1>1, <1>3 DEF Q!Out
<1>5. PICK at : at = [p \in o |-> Q!At(p)]
  OBVIOUS
<1>6. \A p \in o : at[p] = p[2] * c + p[1]
  BY <1>1, <1>5 DEF Q!At
<1>7. Numbers(at, o, d * c)
  BY <1>2, <1>4, <1>6, WholeGrid
<1>8. Q!Filled({<<at[p], val[p]>> : p \in o}, d * c)
  BY <1>7, FilledProp
<1>9. {<<at[p], val[p]>> : p \in o} = {<<Q!At(p), val[p]>> : p \in Q!Out}
  BY <1>3, <1>5
<1>. QED BY <1>1, <1>2, <1>8, <1>9

(* The chroma of v5 and v6: from the odd columns of the odd rows.           *)
LEMMA OddFilled ==
  ASSUME Scaled(frame), NEW val
  PROVE  Q!Filled({<<Q!ChromaAt(p), val[p]>> : p \in Kept5}, ((Q!W \div 4) * (Q!H \div 4)) \div 4)
<1>1. PICK a \in Nat, b \in Nat :
        Q!W \div 8 = a /\ Q!W \div 4 = 2 * a /\ Q!H \div 4 = 2 * b
  BY Sides
<1>2. PICK o : o = Kept5
  OBVIOUS
<1>3. o = Quarter(a, b, 1)
  BY <1>1, <1>2 DEF Kept5, Q!Out, Quarter
<1>4. PICK at : at = [p \in o |-> Q!ChromaAt(p)]
  OBVIOUS
<1>5. \A p \in o : at[p] = (p[2] \div 2) * a + p[1] \div 2
  BY <1>1, <1>4 DEF Q!ChromaAt
<1>6. Numbers(at, o, b * a)
  BY <1>3, <1>5, QuarterGrid
<1>7. Q!Filled({<<at[p], val[p]>> : p \in o}, b * a)
  BY <1>6, FilledProp
<1>8. {<<at[p], val[p]>> : p \in o} = {<<Q!ChromaAt(p), val[p]>> : p \in Kept5}
  BY <1>2, <1>4
<1>9. ((Q!W \div 4) * (Q!H \div 4)) \div 4 = b * a
  BY <1>1, Areas
<1>. QED BY <1>7, <1>8, <1>9

(* The chroma of v4: from the even columns of the even rows.                *)
Kept4 == {p \in (0..(Q!W \div 2 - 1)) \X (0..(Q!H \div 2 - 1)) : p[1] % 2 = 0 /\ p[2] % 2 = 0}
Kept4At(p) == (p[2] \div 2) * ((Q!W \div 2) \div 2) + p[1] \div 2

LEMMA EvenFilled ==
  ASSUME Scaled(frame), NEW val
  PROVE  Q!Filled({<<Kept4At(p), val[p]>> : p \in Kept4}, (Q!W \div 4) * (Q!H \div 4))
<1>. DEFINE o == Kept4
<1>1. PICK a \in Nat, b \in Nat :
        /\ Q!W \div 4 = 2 * a /\ Q!H \div 4 = 2 * b
        /\ Q!W \div 2 = 4 * a /\ Q!H \div 2 = 4 * b
  BY Sides
<1>2. PICK c, d : c = 2 * a /\ d = 2 * b
  OBVIOUS
<1>3. /\ c \in Nat /\ d \in Nat /\ Q!W \div 2 = 2 * c /\ Q!H \div 2 = 2 * d
      /\ (Q!W \div 2) \div 2 = c
  BY <1>1, <1>2
<1>4. o = Quarter(c, d, 0)
  BY <1>3 DEF Quarter, Kept4
<1>5. PICK at : at = [p \in o |-> (p[2] \div 2) * c + p[1] \div 2]
  OBVIOUS
<1>6. \A p \in o : at[p] = (p[2] \div 2) * c + p[1] \div 2
  BY <1>5
<1>7. Numbers(at, o, d * c)
  BY <1>3, <1>4, <1>6, QuarterGrid
<1>8. Q!Filled({<<at[p], val[p]>> : p \in o}, d * c)
  BY <1>7, FilledProp
<1>9. {<<at[p], val[p]>> : p \in o}
        = {<<Kept4At(p), val[p]>> : p \in Kept4}
  BY <1>3, <1>6 DEF Kept4At
<1>10. (Q!W \div 4) * (Q!H \div 4) = d * c
  BY <1>1, <1>2, Areas
<1>. QED BY <1>8, <1>9, <1>10

(* A plane of v4 with a value for each pixel of its output.                 *)
Out4 == (0..(Q!W \div 2 - 1)) \X (0..(Q!H \div 2 - 1))

LEMMA Plane4Filled ==
  ASSUME Scaled(frame), NEW val
  PROVE  Q!Filled({<<p[2] * (Q!W \div 2) + p[1], val[p]>> : p \in Out4},
                  4 * ((Q!W \div 4) * (Q!H \div 4)))
<1>1. PICK a \in Nat, b \in Nat :
        /\ Q!W \div 4 = 2 * a /\ Q!H \div 4 = 2 * b
        /\ Q!W \div 2 = 4 * a /\ Q!H \div 2 = 4 * b
  BY Sides
<1>2. PICK c, d : c = 4 * a /\ d = 4 * b
  OBVIOUS
<1>3. c \in Nat /\ d \in Nat /\ Q!W \div 2 = c /\ Q!H \div 2 = d
  BY <1>1, <1>2
<1>4. 4 * ((Q!W \div 4) * (Q!H \div 4)) = d * c
  <2>1. PICK m : m = b * a
    OBVIOUS
  <2>2. m \in Nat /\ (2 * a) * (2 * b) = 4 * m /\ (4 * b) * (4 * a) = 16 * m
    BY <2>1
  <2>. QED BY <1>1, <1>2, <2>2
<1>5. PICK o : o = Out4
  OBVIOUS
<1>6. o = (0..(c - 1)) \X (0..(d - 1))
  BY <1>3, <1>5 DEF Out4
<1>7. PICK at : at = [p \in o |-> p[2] * c + p[1]]
  OBVIOUS
<1>8. \A p \in o : at[p] = p[2] * c + p[1]
  BY <1>7
<1>9. Numbers(at, o, d * c)
  BY <1>3, <1>6, <1>8, WholeGrid
<1>10. Q!Filled({<<at[p], val[p]>> : p \in o}, d * c)
  BY <1>9, FilledProp
<1>11. {<<at[p], val[p]>> : p \in o} = {<<p[2] * (Q!W \div 2) + p[1], val[p]>> : p \in Out4}
  BY <1>3, <1>5, <1>8
<1>. QED BY <1>4, <1>10, <1>11

LEMMA V6Filled ==
  ASSUME Scaled(frame), NEW n, n = (Q!W \div 4) * (Q!H \div 4)
  PROVE  /\ Q!Filled(V6.rgb, n) /\ Q!Filled(V6.y, n)
         /\ Q!Filled(V6.u, n \div 4) /\ Q!Filled(V6.v, n \div 4)
<1>1. Q!Filled(V6.rgb, n)
  <2>1. PICK val : val = [p \in Q!Out |-> Q!Adjust(Q!Colour5(p))]
    OBVIOUS
  <2>2. V6.rgb = {<<Q!At(p), val[p]>> : p \in Q!Out}
    BY <2>1 DEF V6
  <2>. QED BY <2>2, PlaneFilled
<1>2. Q!Filled(V6.y, n)
  <2>1. PICK val : val = [p \in Q!Out |-> Q!Byte(Q!Luma(Q!Adjust(Q!Colour5(p))))]
    OBVIOUS
  <2>2. V6.y = {<<Q!At(p), val[p]>> : p \in Q!Out}
    BY <2>1 DEF V6
  <2>. QED BY <2>2, PlaneFilled
<1>3. Q!Filled(V6.u, n \div 4)
  <2>1. PICK val : val = [p \in Kept5 |-> Q!Byte(Q!ChromaU(Q!Adjust(Q!Colour5(p))))]
    OBVIOUS
  <2>2. V6.u = {<<Q!ChromaAt(p), val[p]>> : p \in Kept5}
    BY <2>1 DEF V6
  <2>. QED BY <2>2, OddFilled
<1>4. Q!Filled(V6.v, n \div 4)
  <2>1. PICK val : val = [p \in Kept5 |-> Q!Byte(Q!ChromaV(Q!Adjust(Q!Colour5(p))))]
    OBVIOUS
  <2>2. V6.v = {<<Q!ChromaAt(p), val[p]>> : p \in Kept5}
    BY <2>1 DEF V6
  <2>. QED BY <2>2, OddFilled
<1>. QED BY <1>1, <1>2, <1>3, <1>4

LEMMA V4Filled ==
  ASSUME Scaled(frame), NEW n, n = (Q!W \div 4) * (Q!H \div 4),
         NEW o, o = Q!aloe_rg10_rgb8_i420_v4
  PROVE  /\ Q!Filled(o.rgb, 4 * n) /\ Q!Filled(o.y, 4 * n)
         /\ Q!Filled(o.u, n) /\ Q!Filled(o.v, n)
<1>1. Q!Filled(o.u, n)
  <2>1. PICK val : val = [p \in Kept4 |-> Q!clamp_u8(Q!ChromaU(Q!Colour4(p[1], p[2])))]
    OBVIOUS
  <2>2. o.u = {<<Kept4At(p), val[p]>> : p \in Kept4}
    BY <2>1 DEF Q!aloe_rg10_rgb8_i420_v4, Kept4, Kept4At
  <2>. QED BY <2>2, EvenFilled
<1>2. Q!Filled(o.v, n)
  <2>1. PICK val : val = [p \in Kept4 |-> Q!clamp_u8(Q!ChromaV(Q!Colour4(p[1], p[2])))]
    OBVIOUS
  <2>2. o.v = {<<Kept4At(p), val[p]>> : p \in Kept4}
    BY <2>1 DEF Q!aloe_rg10_rgb8_i420_v4, Kept4, Kept4At
  <2>. QED BY <2>2, EvenFilled
<1>3. Q!Filled(o.rgb, 4 * n)
  <2>1. PICK val : val = [p \in Out4 |-> [i \in 1..3 |-> Q!Byte(Q!Colour4(p[1], p[2])[i])]]
    OBVIOUS
  <2>2. o.rgb = {<<p[2] * (Q!W \div 2) + p[1], val[p]>> : p \in Out4}
    BY <2>1 DEF Q!aloe_rg10_rgb8_i420_v4, Out4
  <2>. QED BY <2>2, Plane4Filled
<1>4. Q!Filled(o.y, 4 * n)
  <2>1. PICK val : val = [p \in Out4 |-> Q!clamp_u8(Q!Luma(Q!Colour4(p[1], p[2])))]
    OBVIOUS
  <2>2. o.y = {<<p[2] * (Q!W \div 2) + p[1], val[p]>> : p \in Out4}
    BY <2>1 DEF Q!aloe_rg10_rgb8_i420_v4, Out4
  <2>. QED BY <2>2, Plane4Filled
<1>. QED BY <1>1, <1>2, <1>3, <1>4

(* What the run checks of the scaling conversions, of any frame.            *)
LEMMA ScalingAgree == ASSUME Scaled(frame) PROVE Q!V6SameAsV5
<1>1. PICK n, o : n = (Q!W \div 4) * (Q!H \div 4) /\ o = Q!aloe_rg10_rgb8_i420_v4
  OBVIOUS
<1>2. /\ Q!Filled(V6.rgb, n) /\ Q!Filled(V6.y, n)
      /\ Q!Filled(V6.u, n \div 4) /\ Q!Filled(V6.v, n \div 4)
  BY <1>1, V6Filled
<1>3. /\ Q!Filled(o.rgb, 4 * n) /\ Q!Filled(o.y, 4 * n)
      /\ Q!Filled(o.u, n) /\ Q!Filled(o.v, n)
  BY <1>1, V4Filled
<1>4. \A vector \in {"scalar", "sse2", "neon"} :
         Q!aloe_rg10_rgb8_i420_v6(vector) = V6
  BY V6Same
<1>5. ASSUME frame.gain = <<4, 4, 4>>
      PROVE  \A vector \in {"scalar", "sse2", "neon"} : Q!aloe_rg10_rgb8_i420_v5(vector) = V6
  BY <1>5, V5Same
<1>6. Q!aloe_rg10_rgb8_i420_v6("scalar") = V6
  BY V6Same
<1>. QED BY <1>1, <1>2, <1>3, <1>4, <1>5, <1>6, ZenonT(40) DEF Q!V6SameAsV5

(* The frames of the scaling conversions are of this kind.                  *)
Scalings == \A f \in Rg10Frames : Scaled(f)

LEMMA ScalingInit == Q!Init => Scaled(frame)
<1>1. (0..(0 - 1)) \X (0..(0 - 1)) = {}
  OBVIOUS
<1>2. <<>> \in [{} -> Words]
  OBVIOUS
<1>3. /\ Q!NoFrame.size[1] = 0 /\ Q!NoFrame.size[2] = 0 /\ Q!NoFrame.raw = <<>>
      /\ Q!NoFrame.gain = <<4, 4, 4>>
  BY DEF Q!NoFrame
<1>4. 0 \in Nat /\ 0 % 8 = 0
  OBVIOUS
<1>5. <<4, 4, 4>> \in [1..3 -> Nat]
  OBVIOUS
<1>6. Scaled(Q!NoFrame)
  BY <1>1, <1>2, <1>3, <1>4, <1>5 DEF Scaled
<1>. QED BY <1>6 DEF Q!Init

LEMMA ScalingStep == ASSUME Scalings PROVE Scaled(frame) /\ [Q!Next]_frame => Scaled(frame)'
<1>1. ASSUME Scaled(frame), [Q!Next]_frame PROVE Scaled(frame')
  BY <1>1 DEF Scalings, Q!Next
<1>. QED BY <1>1 DEF Scaled

(* The image conversions, for frames of any size and number and all samples *)
(* of ten bits: v2 of rggb10_rgb888_i420.cpp stays within one step of the   *)
(* reference in RGB, luma and chroma, but writes 0 for a colour that rounds *)
(* to 256; both scalar versions under simd/ and the NEON one write v2's RGB *)
(* bytes, and its luma and chroma where no colour does, but for the red of  *)
(* the kernel's lower left pixels, which is the mean of other samples; v6   *)
(* of rg10_rgb8_i420_v4.cpp writes what v5 writes, whichever instructions   *)
(* they use, and every byte of the planes is written once.                  *)
THEOREM ConversionsAgree ==
  ASSUME Pictures, Scalings PROVE Y!Spec /\ Q!Spec => []VersionsAgree
<1>1. Y!Init /\ Q!Init => Picture(img) /\ Scaled(frame)
  BY BayerInit, ScalingInit
<1>2. Picture(img) /\ [Y!Next]_img => Picture(img)'
  BY BayerStep
<1>3. Scaled(frame) /\ [Q!Next]_frame => Scaled(frame)'
  BY ScalingStep
<1>4. Picture(img) /\ Scaled(frame) => VersionsAgree
  BY BayerAgree, ScalingAgree DEF VersionsAgree
<1>. QED BY <1>1, <1>2, <1>3, <1>4, PTL DEF Y!Spec, Q!Spec
=============================================================================

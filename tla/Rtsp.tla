-------------------------------- MODULE Rtsp --------------------------------
(***************************************************************************)
(* tester_v4l2rtsp2.cpp with v4l2_capture.cpp and x264_encoder.cpp: frames *)
(* of the camera are encoded on demand and handed to Live555 one NAL unit  *)
(* at a time.  The driver fills queued buffers, each newer than the last,  *)
(* at any time, also between two calls of the read handler.                *)
(* Live555 and x264 are external: the first asks for the next frame, stops *)
(* and closes the source; the second makes 0..MaxNal units of a frame.     *)
(***************************************************************************)
EXTENDS Naturals, Sequences, FiniteSets

CONSTANTS Buf,       \* the buffers VIDIOC_REQBUFS granted
          MaxNal,    \* units per frame
          MaxFrames  \* bound on the frames the camera takes

VARIABLES queued, filled,   \* the driver's buffers: a set, and a sequence of filled ones
          frameOf, frames,  \* the frame a filled or dequeued buffer holds; frames taken
          source,           \* the framed source exists
          awaiting,         \* Live555 waits for doGetNextFrame's answer
          reading,          \* fHaveStartedReading: the read handler is registered
          handler,          \* the read handler: "off", "drain", "requeue" (the drain is
                            \* done), "refused" (a VIDIOC_DQBUF ended it) or "encode"
          buf, stale,       \* bufIndex and staleBuffers
          nalQueue,         \* units of the encoded frame not yet delivered
          last,             \* the unit delivered last
          lost              \* buffers whose VIDIOC_QBUF failed

driver == <<queued, filled, frameOf, frames>>
client == <<source, awaiting, reading>>
vars == <<driver, client, handler, buf, stale, nalQueue, last, lost>>

NoNal == [frame |-> 0, nal |-> 0, of |-> 0, charged |-> TRUE]

Init ==
    /\ queued = Buf /\ filled = <<>> /\ frameOf = [b \in Buf |-> 0] /\ frames = 0
    /\ source = FALSE /\ awaiting = FALSE /\ reading = FALSE
    /\ handler = "off" /\ buf = 0 /\ stale = <<>>
    /\ nalQueue = <<>> /\ last = NoNal /\ lost = {}

\* External: the camera completes a frame in a queued buffer.
Capture(b) ==
    /\ frames < MaxFrames /\ b \in queued
    /\ frames' = frames + 1 /\ frameOf' = [frameOf EXCEPT ![b] = frames + 1]
    /\ queued' = queued \ {b} /\ filled' = Append(filled, b)
    /\ UNCHANGED <<client, handler, buf, stale, nalQueue, last, lost>>

\* External: a client's SETUP makes the source; the units of the source before it are gone.
createNewStreamSource ==
    /\ ~source /\ source' = TRUE /\ last' = NoNal
    /\ UNCHANGED <<driver, awaiting, reading, handler, buf, stale, nalQueue, lost>>

\* The frame interval is charged with the last unit of the image.
Deliver(q) ==
    /\ awaiting' = FALSE /\ nalQueue' = Tail(q)
    /\ last' = [Head(q) EXCEPT !.charged = Tail(q) = <<>>]

deliverQueuedNal == nalQueue # <<>> /\ Deliver(nalQueue)

\* The next unit, or the read handler is registered to make one.
doGetNextFrame ==
    \/ deliverQueuedNal /\ UNCHANGED reading
    \/ nalQueue = <<>> /\ reading' = TRUE /\ awaiting' = TRUE /\ UNCHANGED <<nalQueue, last>>

\* External: Live555 asks for a frame.
GetNextFrame ==
    /\ source /\ ~awaiting /\ handler = "off"
    /\ doGetNextFrame
    /\ UNCHANGED <<driver, source, handler, buf, stale, lost>>

\* External: the last client has gone; the handler and the units are dropped.
doStopGettingFrames ==
    /\ source /\ handler = "off"
    /\ source' = FALSE /\ awaiting' = FALSE /\ reading' = FALSE /\ nalQueue' = <<>>
    /\ UNCHANGED <<driver, handler, buf, stale, last, lost>>

\* VIDIOC_DQBUF, and VIDIOC_QBUF, which may fail.
dequeueBuffer == filled' = Tail(filled) /\ buf' = Head(filled)
enqueueBuffer(bufs) ==
    \E failed \in SUBSET bufs :
        /\ queued' = queued \cup (bufs \ failed)
        /\ lost' = lost \cup failed
Range(s) == {s[i] : i \in DOMAIN s}

\* The event loop finds the device readable; the handler does nothing unless a frame is
\* wanted, nor when its first VIDIOC_DQBUF fails.
v4l2ReadableHandler ==
    /\ reading /\ awaiting /\ handler = "off" /\ filled # <<>>
    /\ dequeueBuffer /\ stale' = <<>> /\ handler' = "drain"
    /\ UNCHANGED <<queued, frameOf, frames, client, nalQueue, last, lost>>

\* Mutant: each older buffer goes back to the driver at once.
DrainOlder_requeues ==
    /\ handler = "drain"
    /\ IF filled # <<>> /\ Len(stale) + 1 < Cardinality(Buf)
       THEN /\ buf' = Head(filled) /\ filled' = Tail(filled) /\ stale' = Append(stale, buf)
            /\ queued' = queued \cup {buf} /\ UNCHANGED handler
       ELSE handler' = "requeue" /\ UNCHANGED <<filled, buf, stale, queued>>
    /\ UNCHANGED <<frameOf, frames, client, nalQueue, last, lost>>

\* Newer frames replace it, up to the number of buffers; a VIDIOC_DQBUF that fails for
\* whatever reason ends the drain like an empty queue.
DrainOlder ==
    /\ handler = "drain"
    /\ IF filled # <<>> /\ Len(stale) + 1 < Cardinality(Buf)
       THEN \/ dequeueBuffer /\ stale' = Append(stale, buf) /\ UNCHANGED handler
            \/ handler' = "refused" /\ UNCHANGED <<filled, buf, stale>>
       ELSE handler' = "requeue" /\ UNCHANGED <<filled, buf, stale>>
    /\ UNCHANGED <<queued, frameOf, frames, client, nalQueue, last, lost>>

\* The older ones go back and the handler is taken off the descriptor.
RequeueStale ==
    /\ handler \in {"requeue", "refused"} /\ handler' = "encode"
    /\ enqueueBuffer(Range(stale)) /\ reading' = FALSE
    /\ UNCHANGED <<filled, frameOf, frames, source, awaiting, buf, stale, nalQueue, last>>

\* The units of a frame's Annex B stream.
splitAnnexBNals(f, n) ==
    [i \in 1..n |-> [frame |-> f, nal |-> i, of |-> n, charged |-> FALSE]]

\* Mutant: the handler ends without asking for the frame again.
Encode_ends ==
    /\ handler = "encode" /\ handler' = "off" /\ enqueueBuffer({buf})
    /\ \E n \in 0..MaxNal :
          nalQueue' = nalQueue \o splitAnnexBNals(frameOf[buf], n)
    /\ UNCHANGED <<filled, frameOf, frames, client, buf, stale, last>>

\* The frame is converted, encoded and split; its buffer goes back; the first unit is
\* delivered, or the handler registered again when there is none (an error, or a buffer of
\* an unexpected size).
Encode ==
    /\ handler = "encode" /\ handler' = "off" /\ enqueueBuffer({buf})
    /\ \E n \in 0..MaxNal :
          LET q == nalQueue \o splitAnnexBNals(frameOf[buf], n)
          IN  IF q = <<>>
              THEN reading' = TRUE /\ nalQueue' = q /\ UNCHANGED <<awaiting, last>>
              ELSE Deliver(q) /\ UNCHANGED reading
    /\ UNCHANGED <<filled, frameOf, frames, source, buf, stale>>

Next ==
    \/ \E b \in Buf : Capture(b)
    \/ createNewStreamSource \/ GetNextFrame \/ doStopGettingFrames
    \/ v4l2ReadableHandler \/ DrainOlder \/ RequeueStale \/ Encode

Spec == Init /\ [][Next]_vars

-----------------------------------------------------------------------------
\* A waiting client is never forgotten: outside the handler, a frame that is awaited has
\* the read handler registered (it is taken off at every frame), and every buffer is with
\* the driver unless a VIDIOC_QBUF has failed.
NoStall ==
    handler = "off" =>
      /\ awaiting => reading
      /\ Buf \ lost = queued \cup Range(filled)

\* Units leave in order: those of one image follow each other, all of them, the interval
\* is charged with the last one only, and the next image is a later one; it is later than
\* every one the drain passed over and, unless the driver refused a VIDIOC_DQBUF, the
\* newest the driver had completed when the drain ended, since no older frame goes back
\* before (deliverQueuedNal, v4l2ReadableHandler).
FrameStep ==
    /\ last' # last /\ last'.frame # 0 =>
         /\ last'.charged <=> last'.nal = last'.of
         /\ IF last.charged THEN last'.frame > last.frame /\ last'.nal = 1
                            ELSE last'.frame = last.frame /\ last'.nal = last.nal + 1
    /\ handler = "drain" /\ handler' # "drain" =>
         /\ \A b \in Range(stale) : frameOf[b] < frameOf[buf]
         /\ handler' = "requeue" => \A b \in Range(filled) : frameOf[b] < frameOf[buf]
FrameOrder == [][FrameStep]_vars
=============================================================================

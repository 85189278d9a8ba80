-------------------------------- MODULE V4l2 --------------------------------
(***************************************************************************)
(* v4l2.cpp: the capture service of the tester program, a client of the    *)
(* event loop with a start and a stop command.  The driver is external: a  *)
(* buffer is the program's ("app"), queued, or filled; a buffer that is    *)
(* queued already cannot be queued again, STREAMOFF gives all of them      *)
(* back, and every call may fail.  The encoder and its file are made by    *)
(* the start in v4l2_init, without which there is no service, and kept     *)
(* until v4l2_close: the later starts find them.                           *)
(***************************************************************************)
EXTENDS Integers

CONSTANT Buf        \* indexes of the buffers the driver grants, 0..n-1

VARIABLES state,    \* v4l2->state, or "none" when there is no v4l2_t
          fd,       \* the device is open, the buffers requested and mapped
          ev,       \* the registration of v4l2_streamcap_cb
          drv, on,  \* the driver: each buffer's owner; streaming
          cb,       \* the callback: NoCb, Dequeuing, or the buffer it has dequeued
          lost,     \* buffers whose VIDIOC_QBUF failed in the callback
          half,     \* history: a start or stop that failed has left buffers with the driver
          unstopped \* history: the last VIDIOC_STREAMOFF has failed

vars == <<state, fd, ev, drv, on, cb, lost, half, unstopped>>
history == <<half, unstopped>>

NoCb == -1
Dequeuing == -2
Idle == cb = NoCb

\* Every variable has its type.
TypeOK ==
    /\ state \in {"none", "OPEN", "START"}
    /\ fd \in BOOLEAN /\ ev \in BOOLEAN /\ on \in BOOLEAN
    /\ half \in BOOLEAN /\ unstopped \in BOOLEAN
    /\ drv \in [Buf -> {"app", "queued", "filled"}]
    /\ lost \subseteq Buf /\ cb \in Buf \cup {NoCb, Dequeuing}

Init ==
    /\ state = "none" /\ fd = FALSE /\ ev = FALSE
    /\ drv = [b \in Buf |-> "app"] /\ on = FALSE
    /\ cb = NoCb /\ lost = {} /\ half = FALSE /\ unstopped = FALSE

WithDriver(d) == {b \in Buf : d[b] # "app"}

\* VIDIOC_STREAMOFF on the buffers d.
StreamOff(ok, d) ==
    /\ on' = ~ok /\ unstopped' = ~ok
    /\ drv' = IF ok THEN [b \in Buf |-> "app"] ELSE d

\* close(): whatever the calls before it returned, the device is released.
v4l2_close ==
    /\ fd' = FALSE /\ ev' = FALSE
    /\ on' = FALSE /\ drv' = [b \in Buf |-> "app"] /\ lost' = {}
    /\ half' = FALSE /\ unstopped' = FALSE

\* v4l2_queue_all: in index order, up to the first buffer that is refused.
Refused(failed) == {b \in Buf : drv[b] # "app" \/ b \in failed}
v4l2_queue_all(failed) ==
    [b \in Buf |-> IF \A c \in Refused(failed) : b < c THEN "queued" ELSE drv[b]]

\* Buffers are left with the driver, though nothing captures.
Leaves == half' = (WithDriver(drv') # {})

\* Mutant: the stream is left on when the event cannot be registered.
v4l2_start_leaves(failed, streams, added) ==
    IF Refused(failed) # {} \/ ~streams
    THEN drv' = v4l2_queue_all(failed) /\ Leaves /\ UNCHANGED <<state, ev, on, lost, unstopped>>
    ELSE /\ drv' = v4l2_queue_all(failed) /\ on' = TRUE /\ lost' = {}
         /\ ev' = (added = "yes") /\ state' = (IF added = "yes" THEN "START" ELSE state)
         /\ UNCHANGED history

\* streams: VIDIOC_STREAMON succeeds; added: evconn_add_read does ("yes"), or fails and
\* VIDIOC_STREAMOFF takes the buffers back ("no") or fails too ("stuck").  A start that
\* fails at VIDIOC_QBUF or VIDIOC_STREAMON takes back nothing.
v4l2_start(failed, streams, added) ==
    IF Refused(failed) # {} \/ ~streams
    THEN drv' = v4l2_queue_all(failed) /\ Leaves /\ UNCHANGED <<state, ev, on, lost, unstopped>>
    ELSE IF added = "yes"
    THEN /\ drv' = v4l2_queue_all(failed) /\ on' = TRUE /\ lost' = {}
         /\ ev' = TRUE /\ state' = "START" /\ UNCHANGED history
    ELSE StreamOff(added = "no", v4l2_queue_all(failed)) /\ Leaves /\ UNCHANGED <<state, ev, lost>>

\* The command; v4l2_start returns early unless the state is OPEN.
CliStart ==
    /\ Idle /\ state = "OPEN"
    /\ \E failed \in SUBSET Buf, streams \in BOOLEAN, added \in {"yes", "no", "stuck"} :
         v4l2_start(failed, streams, added)
    /\ UNCHANGED <<fd, cb>>

v4l2_stop(ok) ==
    /\ state = "START" /\ state' = "OPEN" /\ ev' = FALSE
    /\ StreamOff(ok, drv) /\ Leaves
    /\ lost' = (IF ok THEN {} ELSE lost)
    /\ UNCHANGED fd

CliStop == Idle /\ \E ok \in BOOLEAN : v4l2_stop(ok) /\ UNCHANGED cb

\* The device is opened, its format set and its buffers mapped.
v4l2_open == fd' = TRUE

\* v4l2_open and v4l2_start; whatever fails, v4l2_init destroys the object again.
v4l2_init ==
    /\ Idle /\ state = "none"
    /\ v4l2_open /\ state' = "START" /\ ev' = TRUE
    /\ on' = TRUE /\ drv' = [b \in Buf |-> "queued"]
    /\ UNCHANGED <<cb, lost, history>>

v4l2_destroy ==
    /\ Idle /\ state # "none"
    /\ v4l2_close /\ state' = "none" /\ UNCHANGED cb

-----------------------------------------------------------------------------
\* External: the driver fills a queued buffer while it streams.
Fill(b) ==
    /\ on /\ drv[b] = "queued" /\ drv' = [drv EXCEPT ![b] = "filled"]
    /\ UNCHANGED <<state, fd, ev, on, cb, lost, history>>

\* The event loop calls back for the readable descriptor.
v4l2_streamcap_cb ==
    /\ Idle /\ ev /\ \E b \in Buf : drv[b] = "filled"
    /\ cb' = Dequeuing
    /\ UNCHANGED <<state, fd, ev, drv, on, lost, history>>

\* VIDIOC_DQBUF: a filled buffer; EAGAIN, EINTR or another error ends the callback.
v4l2_streamcap_deq ==
    /\ cb = Dequeuing
    /\ \/ \E b \in Buf : drv[b] = "filled" /\ drv' = [drv EXCEPT ![b] = "app"] /\ cb' = b
       \/ cb' = NoCb /\ UNCHANGED drv
    /\ UNCHANGED <<state, fd, ev, on, lost, history>>

\* After the frame is encoded the buffer goes back; when that fails the callback ends.
v4l2_streamcap_enq ==
    /\ cb \in Buf
    /\ \/ drv' = [drv EXCEPT ![cb] = "queued"] /\ cb' = Dequeuing /\ UNCHANGED lost
       \/ lost' = lost \cup {cb} /\ cb' = NoCb /\ UNCHANGED drv
    /\ UNCHANGED <<state, fd, ev, on, history>>

Next ==
    \/ v4l2_init \/ v4l2_destroy \/ CliStart \/ CliStop
    \/ v4l2_streamcap_cb \/ v4l2_streamcap_deq \/ v4l2_streamcap_enq
    \/ \E b \in Buf : Fill(b)

Spec == Init /\ [][Next]_vars

-----------------------------------------------------------------------------
\* The state names the capture: START, and only START, has the event registered, and
\* then the device streams and each buffer is with the driver or lost by a failed QBUF.
\* In OPEN nothing streams, unless STREAMOFF has failed, and every buffer is the program's,
\* so that a start can queue them all, unless a start or a stop has failed half-way.  Such a
\* one is never made up for: a failed QBUF or STREAMON leaves the first buffers queued, and
\* every later start is refused at one of those, until the device is closed.
CaptureExact ==
    Idle =>
      /\ ev <=> state = "START"
      /\ fd <=> state # "none"
      /\ state = "START" => on /\ \A b \in Buf \ lost : drv[b] \in {"queued", "filled"}
      /\ state = "OPEN" => /\ on => unstopped
                           /\ ~half => WithDriver(drv) = {}
                           /\ ~on => \A b \in WithDriver(drv), c \in Buf : c <= b => drv[c] = "queued"
      /\ half => state = "OPEN" /\ WithDriver(drv) # {}
=============================================================================

-------------------------------- MODULE Evb2 --------------------------------
(***************************************************************************)
(* The event loop of aloe/sys_linux/evb2.c.                                *)
(*                                                                         *)
(* One loop thread owns the context: it calls aloe_evb2_run_once, and the  *)
(* callbacks it runs call the API again.  Any number of other threads      *)
(* call aloe_evb2_add_oneshot_timer, the sole cross-thread entry point.    *)
(*                                                                         *)
(* pc is where the loop thread is:                                         *)
(*   "gone"      no context exists                                         *)
(*   "user"      application code: outside run_once, or in an event        *)
(*               callback (notifying), or in a CANCELLED callback          *)
(*               (cancelling)                                              *)
(*   "lock"      about to take async_lock in evb2_install_async            *)
(*   "install"   the loop of evb2_install_async, async_lock held           *)
(*   "poll"      run_once computes the epoll_wait timeout                  *)
(*   "wait"      blocked in epoll_wait                                     *)
(*   "scan"      the loop over the returned epoll events                   *)
(*   "expire"    the loop over the due timers                              *)
(*   "dispatch"  the loop over ready_list                                  *)
(*   "cancelfd"  the loops of aloe_evb2_cancel_fd                          *)
(*   "final"     the loops of evb2_finalize                                *)
(*   "closed"    finalized, the context not yet freed                      *)
(* Between two of its steps another thread may take one.                   *)
(***************************************************************************)
EXTENDS Qent

CONSTANTS
  Handle,      \* handle records the allocator may return to the application
  WakeH,       \* the internal handle of the wake pipe
  NULL,        \* the null pointer
  Fd,          \* descriptors the application registers
  PipeFd,      \* async_pipe[0]
  TimerFd,     \* ALOE_EVB2_FD_TIMER
  Thread,      \* threads other than the loop thread
  Requests,    \* event masks the application asks for
  Masks,       \* event masks epoll_wait reports for one descriptor
  Timeouts,    \* finite timeout_ms values the application uses
  UINT64_MAX,  \* also ALOE_EVB2_INFINITE
  MaxTime,     \* bound on the clock
  PipeCap      \* bytes the wake pipe holds

Handles == Handle \cup {WakeH}
Fds     == Fd \cup {PipeFd}
ReqFlag == {"READ", "WRITE", "EXCEPT"}
EpollEv == {"IN", "RDHUP", "OUT", "PRI", "ERR", "HUP"}
NotiFlag == ReqFlag \cup {"TIMEOUT"}
INFINITE == UINT64_MAX

ASSUME ConstantsAssumption ==
  /\ WakeH \notin Handle /\ NULL \notin Handles /\ NULL \notin Fds
  /\ PipeFd \notin Fd /\ TimerFd \notin Fds
  /\ Requests \subseteq SUBSET ReqFlag
  /\ Masks \subseteq SUBSET EpollEv
  /\ UINT64_MAX \in Nat /\ MaxTime \in Nat /\ MaxTime < UINT64_MAX
  /\ Timeouts \subseteq 0..(UINT64_MAX - 1)
  /\ PipeCap \in Nat \ {0}

VARIABLES
  alloc,       \* handle records allocated and not freed
  hs,          \* their fields
  fdmon,       \* fdmon_list   (links through fdmon_ent)
  timer,       \* timer_list   (links through timer_ent)
  ready,       \* ready_list   (links through fdmon_ent)
  async,       \* async_list   (links through fdmon_ent)
  interest,    \* epoll: the events it may report for a descriptor
  pipe,        \* bytes in the wake pipe
  now,         \* CLOCK_MONOTONIC, in milliseconds
  tnow,        \* run_once's sample of it after epoll_wait
  deadline,    \* when epoll_wait times out
  evs,         \* events epoll_wait returned and the scan has yet to handle
  cur,         \* descriptor of the inner loop (scan and cancel_fd)
  notifying, cancelling,
  stopping, in_run, finalized,
  pc,
  caller       \* per thread: its handle inside add_oneshot_timer, or NULL

lists == <<fdmon, timer, ready, async>>
flags == <<stopping, in_run, finalized>>
vars == <<alloc, hs, lists, interest, pipe, now, tnow, deadline, evs, cur,
          notifying, cancelling, flags, pc, caller>>

Record == [fd : Fds \cup {TimerFd}, flag : SUBSET ReqFlag,
           timeout_ms : 0..UINT64_MAX, timeout_at : 0..UINT64_MAX,
           oneshot : BOOLEAN, dead : BOOLEAN, noti : SUBSET NotiFlag]

(* calloc: a zeroed record with fd set by handle_alloc; freed records keep *)
(* this value, nothing may look at it.                                     *)
Blank == [fd |-> TimerFd, flag |-> {}, timeout_ms |-> 0, timeout_at |-> 0,
          oneshot |-> FALSE, dead |-> FALSE, noti |-> {}]

At(f) == [h \in Handles |-> f[h].timeout_at]
NoEvents == [f \in Fds |-> {}]
-----------------------------------------------------------------------------
(* Helpers of evb2.c. *)

(* evb2_set_timeout: the absolute deadline, saturated. *)
Deadline(ms, t) ==
  IF ms = INFINITE \/ ms > UINT64_MAX - t THEN UINT64_MAX ELSE t + ms

(* evb2_arm_timer's deadline: a zero interval is re-armed one millisecond  *)
(* ahead.                                                                  *)
RearmAt(ms, t) ==
  IF ms = 0 THEN (IF 1 > UINT64_MAX - t THEN UINT64_MAX ELSE t + 1)
            ELSE Deadline(ms, t)

to_epoll(req) == (IF "READ" \in req THEN {"IN", "RDHUP"} ELSE {})
            \cup (IF "WRITE" \in req THEN {"OUT"} ELSE {})
            \cup (IF "EXCEPT" \in req THEN {"PRI"} ELSE {})

from_epoll(e) == (IF e \cap {"IN", "RDHUP", "HUP"} # {} THEN {"READ"} ELSE {})
            \cup (IF "OUT" \in e THEN {"WRITE"} ELSE {})
            \cup (IF e \cap {"PRI", "ERR", "HUP"} # {} THEN {"EXCEPT"} ELSE {})

(* epoll_refresh: what epoll monitors for f, given the records r and the   *)
(* list l.  The kernel always adds ERR and HUP to a registered descriptor; *)
(* no event at all stands for an unregistered one.                         *)
Wanted(f, r, l) ==
  LET on == {h \in Elems(l) : r[h].fd = f}
  IN  IF on = {} THEN {}
      ELSE to_epoll(UNION {r[h].flag : h \in on}) \cup {"ERR", "HUP"}

epoll_refresh(f, r, l) ==
  IF f = TimerFd THEN interest ELSE [interest EXCEPT ![f] = Wanted(f, r, l)]

(* evb2_wake: one byte, dropped by EAGAIN when the pipe is full. *)
evb2_wake(p) == IF p < PipeCap THEN p + 1 ELSE p

(* timer_list with h (re)linked at the deadline r gives it, or off it. *)
TimerSet(l, r, h) ==
  IF r[h].timeout_at # UINT64_MAX
  THEN timer_insert(qent_remove(l, h), At(r), h)
  ELSE qent_remove(l, h)

Free(h) == /\ alloc' = alloc \ {h}
           /\ hs' = [hs EXCEPT ![h] = Blank]
-----------------------------------------------------------------------------
Init ==
  /\ alloc = {} /\ hs = [h \in Handles |-> Blank]
  /\ fdmon = <<>> /\ timer = <<>> /\ ready = <<>> /\ async = <<>>
  /\ interest = NoEvents /\ pipe = 0
  /\ now = 0 /\ tnow = 0 /\ deadline = 0 /\ evs = NoEvents /\ cur = NULL
  /\ notifying = NULL /\ cancelling = NULL
  /\ stopping = FALSE /\ in_run = FALSE /\ finalized = FALSE
  /\ pc = "gone" /\ caller = [t \in Thread |-> NULL]

(* aloe_evb2_create: the wake pipe is the first registered descriptor. *)
Create ==
  /\ pc = "gone"
  /\ alloc' = alloc \cup {WakeH}
  /\ hs' = [hs EXCEPT ![WakeH] =
              [Blank EXCEPT !.fd = PipeFd, !.flag = {"READ"},
                            !.timeout_ms = INFINITE,
                            !.timeout_at = UINT64_MAX]]
  /\ fdmon' = <<WakeH>>
  /\ interest' = epoll_refresh(PipeFd, hs', fdmon')
  /\ pc' = "user"
  /\ UNCHANGED <<timer, ready, async, pipe, now, tnow, deadline, evs, cur,
                 notifying, cancelling, flags, caller>>
-----------------------------------------------------------------------------
(* The API, called by application code on the loop thread.  The callback   *)
(* of the internal handle is async_handler, which calls none of it.        *)

UserCode == pc = "user" /\ cancelling # WakeH
Known(h) == h \in alloc \cap Handle /\ \A t \in Thread : caller[t] # h

(* aloe_evb2_add_fd, aloe_evb2_add_oneshot_fd and aloe_evb2_add_timer.     *)
(* A refused call (stopping, a timer without a timeout, allocation or      *)
(* epoll_ctl failure) leaves everything as it was.                         *)
AddFd(h, f, req, ms, one) ==
  /\ UserCode /\ h \in Handle \ alloc
  /\ ~stopping /\ ~finalized
  /\ ~(f = TimerFd /\ ms = INFINITE)
  /\ f = TimerFd => req = {}
  /\ alloc' = alloc \cup {h}
  /\ hs' = [hs EXCEPT ![h] =
              [Blank EXCEPT !.fd = f, !.flag = req, !.timeout_ms = ms,
                            !.timeout_at = Deadline(ms, now),
                            !.oneshot = one]]
  /\ fdmon' = IF f # TimerFd THEN Append(fdmon, h) ELSE fdmon
  /\ timer' = IF hs'[h].timeout_at # UINT64_MAX
              THEN timer_insert(timer, At(hs'), h) ELSE timer
  /\ interest' = epoll_refresh(f, hs', fdmon')
  /\ UNCHANGED <<ready, async, pipe, now, tnow, deadline, evs, cur,
                 notifying, cancelling, flags, pc, caller>>

(* aloe_evb2_add_oneshot_timer before it takes the lock: the record is     *)
(* filled and its deadline is measured from the call.                      *)
OneshotTimer(h, ms) ==
  /\ h \in Handle \ alloc /\ ms # INFINITE
  /\ alloc' = alloc \cup {h}
  /\ hs' = [hs EXCEPT ![h] =
              [Blank EXCEPT !.timeout_ms = ms,
                            !.timeout_at = Deadline(ms, now),
                            !.oneshot = TRUE]]

(* aloe_evb2_add_oneshot_timer called on the loop thread itself. *)
AddOneshotTimer(h, ms) ==
  /\ UserCode /\ ~stopping /\ ~finalized
  /\ OneshotTimer(h, ms)
  /\ async' = Append(async, h)
  /\ pipe' = evb2_wake(pipe)
  /\ UNCHANGED <<fdmon, timer, ready, interest, now, tnow, deadline, evs, cur,
                 notifying, cancelling, flags, pc, caller>>

(* aloe_evb2_cancel in the handle's own callback: released when it returns.*)
CancelSelf(h) ==
  /\ UserCode /\ Known(h) /\ notifying = h
  /\ hs' = [hs EXCEPT ![h].dead = TRUE]
  /\ UNCHANGED <<alloc, lists, interest, pipe, now, tnow, deadline, evs, cur,
                 notifying, cancelling, flags, pc, caller>>

(* aloe_evb2_cancel of a timer the loop has yet to install. *)
CancelAsync(h) ==
  /\ UserCode /\ Known(h) /\ notifying # h
  /\ qent_contains(async, h)
  /\ async' = qent_remove(async, h)
  /\ Free(h)
  /\ UNCHANGED <<fdmon, timer, ready, interest, pipe, now, tnow, deadline,
                 evs, cur, notifying, cancelling, flags, pc, caller>>

(* Mutant: a handle already waiting for dispatch stays on ready_list. *)
Unlink_ready(h) ==
  /\ qent_contains(fdmon, h) \/ qent_contains(ready, h) \/ qent_contains(timer, h)
  /\ fdmon' = qent_remove(fdmon, h)
  /\ timer' = qent_remove(timer, h)
  /\ interest' = epoll_refresh(hs[h].fd, hs, fdmon')
  /\ Free(h) /\ UNCHANGED ready

(* aloe_evb2_cancel of a handle on the loop's own lists; on none of them   *)
(* it returns -1.                                                          *)
Unlink(h) ==
  /\ qent_contains(fdmon, h) \/ qent_contains(ready, h) \/ qent_contains(timer, h)
  /\ fdmon' = qent_remove(fdmon, h)
  /\ ready' = qent_remove(ready, h)
  /\ timer' = qent_remove(timer, h)
  /\ interest' = epoll_refresh(hs[h].fd, hs, fdmon')
  /\ Free(h)

Cancel(h) ==
  /\ UserCode /\ Known(h) /\ notifying # h
  /\ ~qent_contains(async, h)
  /\ Unlink(h)
  /\ UNCHANGED <<async, pipe, now, tnow, deadline, evs, cur,
                 notifying, cancelling, flags, pc, caller>>

(* aloe_evb2_cancel_fd: every handle of the descriptor that is on a list.  *)
CancelFd(f) ==
  /\ UserCode /\ pc' = "cancelfd" /\ cur' = f
  /\ UNCHANGED <<alloc, hs, lists, interest, pipe, now, tnow, deadline, evs,
                 notifying, cancelling, flags, caller>>

OnFd(f) == {h \in Elems(fdmon) \cup Elems(timer) \cup Elems(ready) : hs[h].fd = f}

CancelFdStep ==
  /\ pc = "cancelfd"
  /\ \E h \in OnFd(cur) : Unlink(h)
  /\ UNCHANGED <<async, pipe, now, tnow, deadline, evs, cur,
                 notifying, cancelling, flags, pc, caller>>

CancelFdDone ==
  /\ pc = "cancelfd" /\ OnFd(cur) = {}
  /\ pc' = "user" /\ cur' = NULL
  /\ UNCHANGED <<alloc, hs, lists, interest, pipe, now, tnow, deadline, evs,
                 notifying, cancelling, flags, caller>>

(* aloe_evb2_set_timeout. *)
SetTimeout(h, ms) ==
  /\ UserCode /\ Known(h)
  /\ ~hs[h].dead /\ ~stopping /\ ~finalized
  /\ ~(hs[h].fd = TimerFd /\ ms = INFINITE)
  /\ hs' = [hs EXCEPT ![h].timeout_ms = ms,
                      ![h].timeout_at = Deadline(ms, now)]
  /\ timer' = IF notifying = h \/ qent_contains(async, h) \/ qent_contains(ready, h)
              THEN timer ELSE TimerSet(timer, hs', h)
  /\ UNCHANGED <<alloc, fdmon, ready, async, interest, pipe, now, tnow,
                 deadline, evs, cur, notifying, cancelling, flags, pc, caller>>

(* aloe_evb2_destroy: deferred to run_once's return when it is running. *)
Destroy ==
  /\ UserCode
  /\ stopping' = TRUE
  /\ in_run' = TRUE
  /\ pipe' = evb2_wake(pipe)
  /\ pc' = IF in_run THEN pc ELSE "final"
  /\ finalized' = (finalized \/ ~in_run)
  /\ UNCHANGED <<alloc, hs, lists, interest, now, tnow, deadline, evs, cur,
                 notifying, cancelling, caller>>
-----------------------------------------------------------------------------
(* aloe_evb2_run_once *)

RunOnce ==
  /\ UserCode
  /\ ~stopping /\ ~finalized /\ ~in_run
  /\ in_run' = TRUE
  /\ pc' = "lock"
  /\ UNCHANGED <<alloc, hs, lists, interest, pipe, now, tnow, deadline, evs,
                 cur, notifying, cancelling, stopping, finalized, caller>>

(* A persistent handle goes back to its lists after its callback. *)
Rearm(h) ==
  /\ hs' = [hs EXCEPT ![h].noti = {},
                      ![h].timeout_at = RearmAt(hs[h].timeout_ms, now)]
  /\ fdmon' = IF hs[h].fd # TimerFd THEN Append(fdmon, h) ELSE fdmon
  /\ timer' = TimerSet(timer, hs', h)
  /\ interest' = epoll_refresh(hs[h].fd, hs', fdmon')
  /\ UNCHANGED alloc

(* Mutants of AfterCallback: a one-shot handle is dropped without free; a  *)
(* loop that is stopping is not looked at before re-arming.                *)
AfterCallback_leak(h) ==
  /\ notifying' = NULL /\ pc' = "dispatch"
  /\ IF stopping \/ hs[h].dead THEN Free(h) /\ UNCHANGED <<fdmon, timer, interest>>
     ELSE IF hs[h].oneshot THEN UNCHANGED <<alloc, hs, fdmon, timer, interest>>
     ELSE Rearm(h)

AfterCallback_stopping(h) ==
  /\ notifying' = NULL /\ pc' = "dispatch"
  /\ IF hs[h].dead \/ hs[h].oneshot
     THEN Free(h) /\ UNCHANGED <<fdmon, timer, interest>> ELSE Rearm(h)

(* The part of run_once that follows a callback of handle h. *)
AfterCallback(h) ==
  /\ notifying' = NULL
  /\ pc' = "dispatch"
  /\ IF stopping \/ hs[h].dead \/ hs[h].oneshot
     THEN Free(h) /\ UNCHANGED <<fdmon, timer, interest>>
     ELSE Rearm(h)

(* evb2_install_async *)
InstallLock ==
  /\ pc = "lock"
  /\ pc' = "install"
  /\ UNCHANGED <<alloc, hs, lists, interest, pipe, now, tnow, deadline, evs,
                 cur, notifying, cancelling, flags, caller>>

(* The next pending timer goes to timer_list; while stopping, or when its  *)
(* deadline saturated, it gets a CANCELLED callback with the lock dropped. *)
InstallOne ==
  /\ pc = "install" /\ async # <<>>
  /\ async' = Tail(async)
  /\ LET h == Head(async)
     IN  IF stopping \/ hs[h].timeout_at = UINT64_MAX
         THEN cancelling' = h /\ pc' = "user" /\ UNCHANGED timer
         ELSE /\ timer' = timer_insert(timer, At(hs), h)
              /\ UNCHANGED <<cancelling, pc>>
  /\ UNCHANGED <<alloc, hs, fdmon, ready, interest, pipe, now, tnow, deadline,
                 evs, cur, notifying, flags, caller>>

(* The list is empty: run_once goes on to epoll_wait, async_handler        *)
(* returns to the dispatch loop.                                           *)
InstallDone ==
  /\ pc = "install" /\ async = <<>>
  /\ IF notifying = NULL
     THEN pc' = "poll" /\ UNCHANGED <<alloc, hs, fdmon, timer, interest, notifying>>
     ELSE AfterCallback(notifying)
  /\ UNCHANGED <<ready, async, pipe, now, tnow, deadline, evs, cur,
                 cancelling, flags, caller>>

(* Mutant: the caller's limit replaces the timers' deadline. *)
WaitUntil_limit(ut) ==
  IF ut # INFINITE THEN now + ut
  ELSE IF timer = <<>> THEN UINT64_MAX ELSE hs[Head(timer)].timeout_at

(* The epoll_wait timeout: until the earliest deadline, cut by the         *)
(* caller's limit ut.                                                      *)
WaitUntil(ut) ==
  LET due == IF timer = <<>> THEN UINT64_MAX
             ELSE IF hs[Head(timer)].timeout_at <= now THEN now
             ELSE hs[Head(timer)].timeout_at
  IN  IF ut # INFINITE /\ now + ut < due THEN now + ut ELSE due

Poll(ut) ==
  /\ pc = "poll"
  /\ deadline' = WaitUntil(ut)
  /\ pc' = "wait"
  /\ UNCHANGED <<alloc, hs, lists, interest, pipe, now, tnow, evs, cur,
                 notifying, cancelling, flags, caller>>

(* epoll_wait returns events.  It is level-triggered: the wake pipe is     *)
(* reported whenever it holds a byte and is monitored.                     *)
PipeReady == pipe > 0 /\ "IN" \in interest[PipeFd]

EpollEvents(e) ==
  /\ pc = "wait"
  /\ e # NoEvents
  /\ \A f \in Fds : e[f] \subseteq interest[f]
  /\ e[PipeFd] = IF PipeReady THEN {"IN"} ELSE {}
  /\ evs' = e /\ tnow' = now /\ deadline' = 0 /\ pc' = "scan"
  /\ UNCHANGED <<alloc, hs, lists, interest, pipe, now, cur,
                 notifying, cancelling, flags, caller>>

EpollTimeout ==
  /\ pc = "wait" /\ ~PipeReady
  /\ deadline # UINT64_MAX /\ now >= deadline
  /\ evs' = NoEvents /\ tnow' = now /\ deadline' = 0 /\ pc' = "scan"
  /\ UNCHANGED <<alloc, hs, lists, interest, pipe, now, cur,
                 notifying, cancelling, flags, caller>>

(* Mutant: run_once returns without finishing a requested destroy. *)
RunLeave_forgets ==
  /\ pc' = "user" /\ in_run' = FALSE /\ UNCHANGED finalized

(* evb2_run_leave *)
RunLeave ==
  /\ pc' = IF stopping THEN "final" ELSE "user"
  /\ in_run' = stopping
  /\ finalized' = stopping

(* epoll_wait fails, with EINTR or another error. *)
EpollError ==
  /\ pc = "wait"
  /\ RunLeave /\ deadline' = 0
  /\ UNCHANGED <<alloc, hs, lists, interest, pipe, now, tnow, evs, cur,
                 notifying, cancelling, stopping, caller>>

(* The flags a handle is notified of for the events e of its descriptor. *)
Noti(h, e) ==
  LET n == from_epoll(e) \cap hs[h].flag
      m == IF e \cap {"ERR", "HUP"} # {} /\ n = {} THEN {"EXCEPT"} ELSE n
  IN  m \cup (IF hs[h].timeout_at <= tnow THEN {"TIMEOUT"} ELSE {})

(* Handles of descriptor f that the scan moves, by position on fdmon_list. *)
Hits(f) == {i \in 1..Len(fdmon) : hs[fdmon[i]].fd = f /\ Noti(fdmon[i], evs[f]) # {}}

(* Mutants: the ready handle stays on timer_list; epoll is not refreshed. *)
ToReady_timer(h, n) ==
  /\ fdmon' = qent_remove(fdmon, h)
  /\ hs' = [hs EXCEPT ![h].noti = n]
  /\ ready' = Append(ready, h)
  /\ interest' = epoll_refresh(hs[h].fd, hs, fdmon')
  /\ timer' = IF hs[h].fd = TimerFd THEN qent_remove(timer, h) ELSE timer

ToReady_norefresh(h, n) ==
  /\ fdmon' = qent_remove(fdmon, h)
  /\ timer' = qent_remove(timer, h)
  /\ hs' = [hs EXCEPT ![h].noti = n]
  /\ ready' = Append(ready, h)
  /\ UNCHANGED interest

(* handle_to_ready, and the same steps of the fd scan. *)
ToReady(h, n) ==
  /\ fdmon' = qent_remove(fdmon, h)
  /\ timer' = qent_remove(timer, h)
  /\ hs' = [hs EXCEPT ![h].noti = n]
  /\ ready' = Append(ready, h)
  /\ interest' = epoll_refresh(hs[h].fd, hs, fdmon')

(* The scan of one returned descriptor, in list order; the refresh that    *)
(* the code does once after the descriptor's last hit is repeated here for *)
(* every hit, to the same effect.                                          *)
ScanHit(f) ==
  /\ pc = "scan" /\ cur \in {NULL, f} /\ evs[f] # {}
  /\ \E i \in Hits(f) :
       /\ \A j \in Hits(f) : i <= j
       /\ ToReady(fdmon[i], Noti(fdmon[i], evs[f]))
  /\ cur' = f
  /\ UNCHANGED <<alloc, async, pipe, now, tnow, deadline, evs,
                 notifying, cancelling, flags, pc, caller>>

ScanNext(f) ==
  /\ pc = "scan" /\ cur \in {NULL, f} /\ evs[f] # {}
  /\ Hits(f) = {}
  /\ evs' = [evs EXCEPT ![f] = {}]
  /\ cur' = NULL
  /\ UNCHANGED <<alloc, hs, lists, interest, pipe, now, tnow, deadline,
                 notifying, cancelling, flags, pc, caller>>

ScanDone ==
  /\ pc = "scan" /\ evs = NoEvents
  /\ pc' = "expire"
  /\ UNCHANGED <<alloc, hs, lists, interest, pipe, now, tnow, deadline, evs,
                 cur, notifying, cancelling, flags, caller>>

Due == timer # <<>> /\ hs[Head(timer)].timeout_at <= tnow

Expire ==
  /\ pc = "expire" /\ Due
  /\ ToReady(Head(timer), {"TIMEOUT"})
  /\ UNCHANGED <<alloc, async, pipe, now, tnow, deadline, evs, cur,
                 notifying, cancelling, flags, pc, caller>>

ExpireDone ==
  /\ pc = "expire" /\ ~Due
  /\ pc' = "dispatch" /\ tnow' = 0
  /\ UNCHANGED <<alloc, hs, lists, interest, pipe, now, deadline, evs,
                 cur, notifying, cancelling, flags, caller>>

(* The dispatch loop pops a handle and calls back; async_handler drains    *)
(* the pipe first.                                                         *)
Dispatch ==
  /\ pc = "dispatch" /\ ready # <<>>
  /\ ready' = Tail(ready)
  /\ notifying' = Head(ready)
  /\ IF Head(ready) = WakeH
     THEN pipe' = 0 /\ pc' = "lock"
     ELSE pc' = "user" /\ UNCHANGED pipe
  /\ UNCHANGED <<alloc, hs, fdmon, timer, async, interest, now, tnow,
                 deadline, evs, cur, cancelling, flags, caller>>

EventReturn ==
  /\ pc = "user" /\ cancelling = NULL /\ notifying # NULL
  /\ AfterCallback(notifying)
  /\ UNCHANGED <<ready, async, pipe, now, tnow, deadline, evs, cur,
                 cancelling, flags, caller>>

DispatchDone ==
  /\ pc = "dispatch" /\ ready = <<>>
  /\ RunLeave
  /\ UNCHANGED <<alloc, hs, lists, interest, pipe, now, tnow, deadline, evs, cur,
                 notifying, cancelling, stopping, caller>>
-----------------------------------------------------------------------------
(* evb2_finalize, evb2_notify_cancel and evb2_free *)

FinalList == IF fdmon # <<>> THEN fdmon ELSE IF timer # <<>> THEN timer ELSE ready

(* handle_detach, then the CANCELLED callback. *)
FinalizeOne ==
  /\ pc = "final" /\ FinalList # <<>>
  /\ LET h == Head(FinalList)
     IN  /\ fdmon' = qent_remove(fdmon, h)
         /\ timer' = qent_remove(timer, h)
         /\ ready' = qent_remove(ready, h)
         /\ cancelling' = h
  /\ pc' = "user"
  /\ UNCHANGED <<alloc, hs, async, interest, pipe, now, tnow, deadline, evs,
                 cur, notifying, flags, caller>>

FinalizeAsync ==
  /\ pc = "final" /\ FinalList = <<>> /\ async # <<>>
  /\ async' = Tail(async)
  /\ cancelling' = Head(async)
  /\ pc' = "user"
  /\ UNCHANGED <<alloc, hs, fdmon, timer, ready, interest, pipe, now, tnow,
                 deadline, evs, cur, notifying, flags, caller>>

(* The CANCELLED callback returns and evb2_notify_cancel frees the handle. *)
CancelReturn ==
  /\ pc = "user" /\ cancelling # NULL
  /\ Free(cancelling)
  /\ cancelling' = NULL
  /\ pc' = IF finalized THEN "final" ELSE "install"
  /\ UNCHANGED <<lists, interest, pipe, now, tnow, deadline, evs, cur,
                 notifying, flags, caller>>

FinalizeClose ==
  /\ pc = "final" /\ FinalList = <<>> /\ async = <<>>
  /\ interest' = NoEvents /\ pipe' = 0
  /\ pc' = "closed"
  /\ UNCHANGED <<alloc, hs, lists, now, tnow, deadline, evs, cur,
                 notifying, cancelling, flags, caller>>

(* free(evb).  The documented contract: a thread starts                    *)
(* aloe_evb2_add_oneshot_timer only on a context that stays alive for the  *)
(* whole call, so none is inside it here.                                  *)
FreeCtx ==
  /\ pc = "closed" /\ \A t \in Thread : caller[t] = NULL
  /\ stopping' = FALSE /\ in_run' = FALSE /\ finalized' = FALSE
  /\ pc' = "gone"
  /\ UNCHANGED <<alloc, hs, lists, interest, pipe, now, tnow, deadline, evs,
                 cur, notifying, cancelling, caller>>
-----------------------------------------------------------------------------
(* aloe_evb2_add_oneshot_timer on another thread: up to the lock, and the  *)
(* critical section.                                                       *)

ThreadAlloc(t, h, ms) ==
  /\ pc \notin {"gone", "closed"} /\ caller[t] = NULL
  /\ OneshotTimer(h, ms)
  /\ caller' = [caller EXCEPT ![t] = h]
  /\ UNCHANGED <<lists, interest, pipe, now, tnow, deadline, evs, cur,
                 notifying, cancelling, flags, pc>>

(* Mutant: no wake-up. *)
ThreadEnqueue_silent(t) ==
  /\ caller[t] # NULL /\ pc # "install"
  /\ IF stopping \/ finalized
     THEN Free(caller[t]) /\ UNCHANGED async
     ELSE async' = Append(async, caller[t]) /\ UNCHANGED <<alloc, hs>>
  /\ caller' = [caller EXCEPT ![t] = NULL]
  /\ UNCHANGED <<fdmon, timer, ready, interest, pipe, now, tnow, deadline, evs,
                 cur, notifying, cancelling, flags, pc>>

ThreadEnqueue(t) ==
  /\ caller[t] # NULL /\ pc # "install"
  /\ IF stopping \/ finalized
     THEN Free(caller[t]) /\ UNCHANGED <<async, pipe>>
     ELSE /\ async' = Append(async, caller[t])
          /\ pipe' = evb2_wake(pipe)
          /\ UNCHANGED <<alloc, hs>>
  /\ caller' = [caller EXCEPT ![t] = NULL]
  /\ UNCHANGED <<fdmon, timer, ready, interest, now, tnow, deadline, evs, cur,
                 notifying, cancelling, flags, pc>>

(* The clock. *)
Tick ==
  /\ now < MaxTime
  /\ now' = now + 1
  /\ UNCHANGED <<alloc, hs, lists, interest, pipe, tnow, deadline, evs, cur,
                 notifying, cancelling, flags, pc, caller>>
-----------------------------------------------------------------------------
Api ==
  \/ \E h \in Handle, f \in Fd \cup {TimerFd}, req \in Requests \cup {{}},
        ms \in Timeouts \cup {INFINITE}, one \in BOOLEAN : AddFd(h, f, req, ms, one)
  \/ \E h \in Handle, ms \in Timeouts : AddOneshotTimer(h, ms)
  \/ \E h \in Handle : CancelSelf(h) \/ CancelAsync(h) \/ Cancel(h)
  \/ \E f \in Fd : CancelFd(f)
  \/ \E h \in Handle, ms \in Timeouts \cup {INFINITE} : SetTimeout(h, ms)
  \/ Destroy

Epoll ==
  \/ \E e \in [Fds -> Masks \cup {{}}] : EpollEvents(e)
  \/ EpollTimeout

Loop ==
  \/ InstallLock \/ InstallOne \/ InstallDone
  \/ \E ut \in Timeouts \cup {INFINITE} : Poll(ut)
  \/ \E f \in Fds : ScanHit(f) \/ ScanNext(f)
  \/ ScanDone \/ Expire \/ ExpireDone \/ Dispatch \/ DispatchDone
  \/ EventReturn \/ CancelReturn \/ CancelFdStep \/ CancelFdDone
  \/ FinalizeOne \/ FinalizeAsync \/ FinalizeClose \/ FreeCtx

Threads ==
  \/ \E t \in Thread, h \in Handle, ms \in Timeouts : ThreadAlloc(t, h, ms)
  \/ \E t \in Thread : ThreadEnqueue(t)

Next == Create \/ RunOnce \/ Api \/ Epoll \/ EpollError \/ Loop \/ Threads \/ Tick

Spec == Init /\ [][Next]_vars

(* The application's main loop calls run_once again and again, callbacks   *)
(* return whatever they call first, and threads finish their calls; a      *)
(* pending event or an expired timeout ends epoll_wait unless signals      *)
(* interrupt every single wait; the clock advances.  Nothing is assumed of *)
(* the rest of the API.                                                    *)
FairSpec ==
  /\ Spec
  /\ WF_vars(Loop) /\ SF_vars(RunOnce) /\ WF_vars(Tick)
  /\ SF_vars(EventReturn) /\ SF_vars(CancelReturn)
  /\ SF_vars(EpollTimeout) /\ SF_vars(PipeReady /\ Epoll)
  /\ \A t \in Thread : WF_vars(ThreadEnqueue(t))
-----------------------------------------------------------------------------
(* What the header promises of a handle's life (EvbLifecycle), and the     *)
(* state of the loop that stands for it.                                   *)
AbsState ==
  [h \in Handle |->
     IF h \notin alloc \/ h \in {caller[t] : t \in Thread} THEN "none"
     ELSE IF h = notifying THEN "firing"
     ELSE IF h = cancelling THEN "cancelled" ELSE "armed"]
AbsLoop == IF pc = "gone" THEN "absent" ELSE IF stopping THEN "stopping" ELSE "running"

AbsDoomed == {h \in alloc \cap Handle : hs[h].dead}
AbsPersistent == {h \in alloc \cap Handle : ~hs[h].oneshot}

Lifecycle == INSTANCE EvbLifecycle
  WITH st <- AbsState, loop <- AbsLoop, doomed <- AbsDoomed,
       persistent <- AbsPersistent
-----------------------------------------------------------------------------
(* Properties *)

Pcs == {"gone", "user", "lock", "install", "poll", "wait", "scan", "expire",
        "dispatch", "cancelfd", "final", "closed"}

TypeOK ==
  /\ alloc \subseteq Handles
  /\ hs \in [Handles -> Record]
  /\ fdmon \in Seq(Handles) /\ timer \in Seq(Handles)
  /\ ready \in Seq(Handles) /\ async \in Seq(Handles)
  /\ interest \in [Fds -> SUBSET EpollEv] /\ evs \in [Fds -> SUBSET EpollEv]
  /\ pipe \in 0..PipeCap
  /\ now \in 0..MaxTime /\ tnow \in 0..MaxTime /\ deadline \in 0..UINT64_MAX
  /\ cur \in Fds \cup {NULL}
  /\ notifying \in Handles \cup {NULL} /\ cancelling \in Handles \cup {NULL}
  /\ stopping \in BOOLEAN /\ in_run \in BOOLEAN /\ finalized \in BOOLEAN
  /\ pc \in Pcs
  /\ caller \in [Thread -> Handle \cup {NULL}]

(* fdmon_list, ready_list and async_list share the link fdmon_ent, so no   *)
(* handle may be on two of them or twice on one, whatever callbacks and    *)
(* threads do; a handle waiting for dispatch or for installation is not on *)
(* timer_list either.                                                      *)
LinkExclusive ==
  /\ NoDup(fdmon) /\ NoDup(timer) /\ NoDup(ready) /\ NoDup(async)
  /\ Elems(fdmon) \cap Elems(ready) = {}
  /\ Elems(fdmon) \cap Elems(async) = {}
  /\ Elems(ready) \cap Elems(async) = {}
  /\ Elems(timer) \cap (Elems(ready) \cup Elems(async)) = {}

Linked == Elems(fdmon) \cup Elems(timer) \cup Elems(ready) \cup Elems(async)
Held   == {caller[t] : t \in Thread} \ {NULL}
Busy   == {notifying, cancelling} \ {NULL}

(* No list, no running callback and no thread's call holds a freed handle, *)
(* and the handle being called back is on no list, so that freeing it      *)
(* after the callback leaves nothing dangling.                             *)
NoDangling ==
  /\ Linked \cup Held \cup Busy \subseteq alloc
  /\ Linked \cap (Held \cup Busy) = {}

(* Every handle the loop owns can still be reached: it will fire, be       *)
(* cancelled or be released by evb2_finalize, and none outlives its        *)
(* context.                                                                *)
NoLeak ==
  /\ alloc = Linked \cup Held \cup Busy
  /\ pc = "gone" => alloc = {}

(* epoll_wait never sleeps past the deadline of a timer on the list.       *)
NoOversleep ==
  pc = "wait" => \A h \in Elems(timer) : deadline <= hs[h].timeout_at \/ deadline <= now

(* The loop never sleeps on work handed to it: with a timer queued by      *)
(* another thread, or a destroy requested, the wake pipe is readable and   *)
(* monitored.                                                              *)
NoLostWake == pc = "wait" /\ (async # <<>> \/ stopping) => PipeReady

(* When the loop waits, epoll monitors for each descriptor exactly what    *)
(* its registered handles ask for.                                         *)
InterestExact ==
  pc \in {"wait", "user"} /\ ~finalized => \A f \in Fds : interest[f] = Wanted(f, hs, fdmon)

(* Constants under which no deadline saturates: every finite timeout used  *)
(* fits between the clock and UINT64_MAX.                                  *)
TimeoutsFit ==
  /\ MaxTime + 1 < UINT64_MAX
  /\ \A ms \in Timeouts : ms < UINT64_MAX - MaxTime

(* A one-shot timer that another thread hands over fires, is cancelled or  *)
(* is put off beyond the horizon; it never stays queued.                   *)
QueuedTimerFires ==
  \A h \in Handle :
    h \in Elems(async) ~>
      (h \notin Elems(async) \cup Elems(timer) \/ hs[h].timeout_at > MaxTime)

(* A requested destroy completes. *)
DestroyCompletes == stopping ~> pc = "gone"

(* The loop implements the lifecycle evb2.h describes for handles. *)
ImplementsLifecycle == Lifecycle!Spec

(* evb2.h on aloe_evb2_cancel_fd: "Cancel every handle monitoring a file   *)
(* descriptor."  When it returns, no handle of the descriptor is left      *)
(* that would be called back again.                                        *)
CancelFdComplete ==
  [][pc = "cancelfd" /\ pc' = "user" =>
       \A h \in alloc' \cap Handle : hs'[h].fd = cur => hs'[h].dead \/ h = cancelling]_vars

(* evb2.h on aloe_evb2_destroy: "Remaining callbacks receive               *)
(* ALOE_EVB2_FLAG_CANCELLED."  Once destroy was called, run_once starts no *)
(* ordinary event callback.                                                *)
OnlyCancelledAfterDestroy ==
  [][stopping /\ notifying' # notifying => notifying' \in {NULL, WakeH}]_vars
=============================================================================

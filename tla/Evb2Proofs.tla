----------------------------- MODULE Evb2Proofs -----------------------------
(***************************************************************************)
(* Invariants of Evb2 for any number of handles, descriptors and threads.  *)
(*                                                                         *)
(* LinkExclusive, NoDangling and NoLeak are not inductive by themselves:   *)
(* whether a callback may free its handle depends on where the loop        *)
(* thread is (Control), and whether a handle is on some list depends on    *)
(* its deadline not being saturated (Deadlines), which TimeoutsFit gives.  *)
(*                                                                         *)
(* On top of that invariant, WInv says what sleeping in epoll_wait rests   *)
(* on: the timer list is sorted, the wake pipe's handle is armed, a queued *)
(* timer has a byte in the pipe, and epoll monitors what the list asks     *)
(* for.  Both together show that every step refines EvbLifecycle.          *)
(***************************************************************************)
EXTENDS Evb2, QentProofs

(* Where the loop thread can be while it runs a callback or is stopping. *)
Control ==
  /\ cancelling # NULL => /\ pc \in {"user", "cancelfd"} /\ stopping
                          /\ notifying \in {NULL, WakeH}
                          /\ notifying # cancelling
  /\ notifying # NULL => pc \in {"user", "cancelfd", "lock", "install"}
  /\ notifying # NULL \/ cancelling # NULL => in_run
  /\ pc \notin {"gone", "user", "cancelfd", "closed"} => in_run
  /\ pc \in {"lock", "install"} => notifying \in {NULL, WakeH}
  /\ pc \in {"user", "cancelfd"} /\ notifying = WakeH => cancelling # NULL
  /\ finalized => /\ stopping /\ notifying = NULL
                  /\ pc \in {"user", "cancelfd", "final", "closed"}
                  /\ pc \in {"user", "cancelfd"} => cancelling # NULL
  /\ pc \in {"final", "closed"} => finalized
  /\ pc \in {"gone", "closed"} =>
       fdmon = <<>> /\ timer = <<>> /\ ready = <<>> /\ async = <<>>
  /\ pc = "gone" => Held = {}
  /\ pc = "cancelfd" => cur \in Fd

(* No two threads share a handle, nor a thread and a running callback. *)
CallersDistinct ==
  /\ \A t, u \in Thread : caller[t] # NULL /\ caller[t] = caller[u] => t = u
  /\ Held \cap Busy = {}

(* Deadlines of timer-only handles are finite; a handle with a descriptor  *)
(* is on timer_list only while it is on fdmon_list too.                    *)
Deadlines ==
  /\ \A h \in alloc : hs[h].fd = TimerFd =>
       hs[h].timeout_ms \in Timeouts /\ hs[h].timeout_at < UINT64_MAX
  /\ \A h \in Elems(async) \cup Held : hs[h].fd = TimerFd
  /\ \A h \in Elems(timer) : hs[h].fd = TimerFd \/ h \in Elems(fdmon)

Owned == alloc = Linked \cup Held \cup Busy

IInv == /\ TypeOK /\ LinkExclusive /\ NoDangling /\ Owned
        /\ Control /\ CallersDistinct /\ Deadlines
-----------------------------------------------------------------------------
(* The lists, the handles and their holders: the part of the state that    *)
(* the invariants other than TypeOK and Control are about.                 *)
held == <<alloc, hs, lists, caller, notifying, cancelling>>

(* A saturated deadline is still a 64-bit one, and a timeout that fits is  *)
(* not saturated.                                                          *)
LEMMA DeadlineType ==
  ASSUME NEW ms \in 0..UINT64_MAX, NEW t \in 0..MaxTime
  PROVE  /\ Deadline(ms, t) \in 0..UINT64_MAX
         /\ RearmAt(ms, t) \in 0..UINT64_MAX
         /\ TimeoutsFit /\ ms \in Timeouts =>
              Deadline(ms, t) < UINT64_MAX /\ RearmAt(ms, t) < UINT64_MAX
<1>1. UINT64_MAX \in Nat /\ MaxTime \in Nat /\ MaxTime < UINT64_MAX
  BY ConstantsAssumption
<1>2. Deadline(ms, t) \in 0..UINT64_MAX /\ RearmAt(ms, t) \in 0..UINT64_MAX
  BY <1>1 DEF Deadline, RearmAt, INFINITE
<1>3. ASSUME TimeoutsFit, ms \in Timeouts
      PROVE  Deadline(ms, t) < UINT64_MAX /\ RearmAt(ms, t) < UINT64_MAX
  BY <1>1, <1>3 DEF TimeoutsFit, Deadline, RearmAt, INFINITE
<1>. QED BY <1>2, <1>3

(* epoll_refresh keeps a table of event masks. *)
LEMMA RefreshType ==
  ASSUME NEW f, NEW r, NEW l, interest \in [Fds -> SUBSET EpollEv]
  PROVE  epoll_refresh(f, r, l) \in [Fds -> SUBSET EpollEv]
<1>1. Wanted(f, r, l) \subseteq EpollEv
  BY DEF Wanted, to_epoll, EpollEv
<1>. QED BY <1>1 DEF epoll_refresh

(* Facts about the constants that the steps below use. *)
LEMMA Constants ==
  /\ WakeH \in Handles /\ WakeH \notin Handle /\ NULL \notin Handles
  /\ Handle \subseteq Handles /\ NULL \notin Fds /\ PipeFd \in Fds
  /\ PipeFd # TimerFd /\ TimerFd \notin Fd
  /\ UINT64_MAX \in Nat /\ MaxTime \in Nat /\ MaxTime < UINT64_MAX
  /\ Timeouts \subseteq 0..UINT64_MAX /\ INFINITE \in 0..UINT64_MAX
  /\ PipeCap \in Nat /\ PipeCap # 0
  /\ Blank \in Record /\ Blank.fd = TimerFd
BY ConstantsAssumption DEF Handles, Fds, INFINITE, Blank, Record

(* A step that leaves the handles, their lists and their holders alone     *)
(* keeps the invariants about them.                                        *)
LEMMA HeldSame ==
  ASSUME IInv, UNCHANGED held
  PROVE  LinkExclusive' /\ NoDangling' /\ Owned' /\ CallersDistinct' /\ Deadlines'
BY DEF IInv, held, lists, LinkExclusive, NoDangling, Owned, CallersDistinct,
       Deadlines, Linked, Held, Busy

(* The initial state: no context, no handle. *)
LEMMA InitIInv == Init => IInv
<1>. SUFFICES ASSUME Init PROVE IInv
  OBVIOUS
<1>. USE DEF Init
<1>1. Elems(<<>>) = {} /\ NoDup(<<>>)
  BY EmptySeq DEF Elems, NoDup
<1>2. Held = {} /\ Busy = {} /\ Linked = {}
  BY <1>1 DEF Held, Busy, Linked
<1>3. TypeOK
  <2>1. <<>> \in Seq(Handles)
    BY EmptySeq
  <2>2. hs \in [Handles -> Record] /\ caller \in [Thread -> Handle \cup {NULL}]
    BY Constants
  <2>3. /\ pipe \in 0..PipeCap /\ now \in 0..MaxTime /\ tnow \in 0..MaxTime
        /\ deadline \in 0..UINT64_MAX
    BY Constants
  <2>. QED BY <2>1, <2>2, <2>3 DEF TypeOK, NoEvents, Pcs
<1>4. LinkExclusive
  BY <1>1 DEF LinkExclusive
<1>5. NoDangling /\ Owned /\ Control /\ CallersDistinct /\ Deadlines
  BY <1>1, <1>2 DEF NoDangling, Owned, Control, CallersDistinct, Deadlines
<1>. QED BY <1>3, <1>4, <1>5 DEF IInv

(* The steps of the loop, the application and the clock that only move     *)
(* control, flags or the epoll results.                                    *)
LEMMA QuietSteps ==
  ASSUME IInv,
         \/ RunOnce \/ InstallLock \/ EpollTimeout \/ EpollError \/ ScanDone
         \/ ExpireDone \/ DispatchDone \/ CancelFdDone \/ Destroy \/ Tick
         \/ \E ut \in Timeouts \cup {INFINITE} : Poll(ut)
         \/ \E e \in [Fds -> Masks \cup {{}}] : EpollEvents(e)
         \/ \E f \in Fds : ScanNext(f)
         \/ \E f \in Fd : CancelFd(f)
  PROVE  IInv'
<1>. USE Constants
<1>0. TypeOK /\ Control
  BY DEF IInv
<1>1. CASE RunOnce
  <2>1. UNCHANGED held
    BY <1>1 DEF RunOnce, UserCode, held, lists
  <2>2. TypeOK'
    BY <1>1, <1>0 DEF RunOnce, UserCode, TypeOK, Pcs, lists, flags
  <2>3. Control'
    BY <1>1, <1>0 DEF RunOnce, UserCode, Control, Held, lists, flags
  <2>. QED BY <2>1, <2>2, <2>3, HeldSame DEF IInv
<1>2. CASE InstallLock
  <2>1. UNCHANGED held
    BY <1>2 DEF InstallLock, held, lists
  <2>2. TypeOK'
    BY <1>2, <1>0 DEF InstallLock, TypeOK, Pcs, lists, flags
  <2>3. Control'
    BY <1>2, <1>0 DEF InstallLock, Control, Held, lists, flags
  <2>. QED BY <2>1, <2>2, <2>3, HeldSame DEF IInv
<1>3. CASE \E ut \in Timeouts \cup {INFINITE} : Poll(ut)
  <2>1. UNCHANGED held
    BY <1>3 DEF Poll, held, lists
  <2>2. TypeOK'
    <3>1. PICK ut \in Timeouts \cup {INFINITE} : Poll(ut)
      BY <1>3
    <3>2. timer # <<>> => hs[Head(timer)].timeout_at \in 0..UINT64_MAX
      BY <1>0, HeadTailProperties DEF TypeOK, Record
    <3>3. WaitUntil(ut) \in 0..UINT64_MAX
      BY <1>0, <3>2 DEF WaitUntil, TypeOK
    <3>. QED BY <3>1, <3>3, <1>0 DEF Poll, TypeOK, Pcs, lists, flags
  <2>3. Control'
    BY <1>3, <1>0 DEF Poll, Control, Held, lists, flags
  <2>. QED BY <2>1, <2>2, <2>3, HeldSame DEF IInv
<1>4. CASE \E e \in [Fds -> Masks \cup {{}}] : EpollEvents(e)
  <2>1. UNCHANGED held
    BY <1>4 DEF EpollEvents, held, lists
  <2>2. TypeOK'
    BY <1>4, <1>0 DEF EpollEvents, TypeOK, Pcs, lists, flags
  <2>3. Control'
    BY <1>4, <1>0 DEF EpollEvents, Control, Held, lists, flags
  <2>. QED BY <2>1, <2>2, <2>3, HeldSame DEF IInv
<1>5. CASE EpollTimeout
  <2>1. UNCHANGED held
    BY <1>5 DEF EpollTimeout, held, lists
  <2>2. TypeOK'
    BY <1>5, <1>0 DEF EpollTimeout, NoEvents, TypeOK, Pcs, lists, flags
  <2>3. Control'
    BY <1>5, <1>0 DEF EpollTimeout, NoEvents, Control, Held, lists, flags
  <2>. QED BY <2>1, <2>2, <2>3, HeldSame DEF IInv
<1>6. CASE EpollError
  <2>1. UNCHANGED held
    BY <1>6 DEF EpollError, RunLeave, held, lists
  <2>2. TypeOK'
    BY <1>6, <1>0 DEF EpollError, RunLeave, TypeOK, Pcs, lists, flags
  <2>3. Control'
    BY <1>6, <1>0 DEF EpollError, RunLeave, Control, Held, lists, flags
  <2>. QED BY <2>1, <2>2, <2>3, HeldSame DEF IInv
<1>7. CASE \E f \in Fds : ScanNext(f)
  <2>1. UNCHANGED held
    BY <1>7 DEF ScanNext, held, lists
  <2>2. TypeOK'
    BY <1>7, <1>0 DEF ScanNext, TypeOK, Pcs, lists, flags
  <2>3. Control'
    BY <1>7, <1>0 DEF ScanNext, Control, Held, lists, flags
  <2>. QED BY <2>1, <2>2, <2>3, HeldSame DEF IInv
<1>8. CASE ScanDone
  <2>1. UNCHANGED held
    BY <1>8 DEF ScanDone, held, lists
  <2>2. TypeOK'
    BY <1>8, <1>0 DEF ScanDone, TypeOK, Pcs, lists, flags
  <2>3. Control'
    BY <1>8, <1>0 DEF ScanDone, Control, Held, lists, flags
  <2>. QED BY <2>1, <2>2, <2>3, HeldSame DEF IInv
<1>9. CASE ExpireDone
  <2>1. UNCHANGED held
    BY <1>9 DEF ExpireDone, held, lists
  <2>2. TypeOK'
    BY <1>9, <1>0 DEF ExpireDone, TypeOK, Pcs, lists, flags
  <2>3. Control'
    BY <1>9, <1>0 DEF ExpireDone, Control, Held, lists, flags
  <2>. QED BY <2>1, <2>2, <2>3, HeldSame DEF IInv
<1>10. CASE DispatchDone
  <2>1. UNCHANGED held
    BY <1>10 DEF DispatchDone, RunLeave, held, lists
  <2>2. TypeOK'
    BY <1>10, <1>0 DEF DispatchDone, RunLeave, TypeOK, Pcs, lists, flags
  <2>3. Control'
    BY <1>10, <1>0 DEF DispatchDone, RunLeave, Control, Held, lists, flags
  <2>. QED BY <2>1, <2>2, <2>3, HeldSame DEF IInv
<1>11. CASE \E f \in Fd : CancelFd(f)
  <2>1. UNCHANGED held
    BY <1>11 DEF CancelFd, UserCode, held, lists
  <2>2. TypeOK'
    BY <1>11, <1>0 DEF CancelFd, UserCode, TypeOK, Pcs, lists, flags, Fds
  <2>3. Control'
    BY <1>11, <1>0 DEF CancelFd, UserCode, Control, Held, lists, flags
  <2>. QED BY <2>1, <2>2, <2>3, HeldSame DEF IInv
<1>12. CASE CancelFdDone
  <2>1. UNCHANGED held
    BY <1>12 DEF CancelFdDone, held, lists
  <2>2. TypeOK'
    BY <1>12, <1>0 DEF CancelFdDone, TypeOK, Pcs, lists, flags
  <2>3. Control'
    BY <1>12, <1>0 DEF CancelFdDone, Control, Held, lists, flags
  <2>. QED BY <2>1, <2>2, <2>3, HeldSame DEF IInv
<1>13. CASE Destroy
  <2>1. UNCHANGED held
    BY <1>13 DEF Destroy, UserCode, evb2_wake, held, lists
  <2>2. TypeOK'
    BY <1>13, <1>0 DEF Destroy, UserCode, evb2_wake, TypeOK, Pcs, lists, flags
  <2>3. Control'
    BY <1>13, <1>0 DEF Destroy, UserCode, evb2_wake, Control, Held, lists, flags
  <2>. QED BY <2>1, <2>2, <2>3, HeldSame DEF IInv
<1>14. CASE Tick
  <2>1. UNCHANGED held
    BY <1>14 DEF Tick, held, lists
  <2>2. TypeOK'
    BY <1>14, <1>0 DEF Tick, TypeOK, Pcs, lists, flags
  <2>3. Control'
    BY <1>14, <1>0 DEF Tick, Control, Held, lists, flags
  <2>. QED BY <2>1, <2>2, <2>3, HeldSame DEF IInv
<1>. QED BY <1>1, <1>2, <1>3, <1>4, <1>5, <1>6, <1>7, <1>8, <1>9, <1>10, <1>11, <1>12, <1>13, <1>14


(* What the invariant says of one list: a list over Handles, no duplicate. *)
LEMMA ListFacts ==
  ASSUME IInv
  PROVE  /\ fdmon \in Seq(Handles) /\ timer \in Seq(Handles)
         /\ ready \in Seq(Handles) /\ async \in Seq(Handles)
         /\ NoDup(fdmon) /\ NoDup(timer) /\ NoDup(ready) /\ NoDup(async)
         /\ Elems(fdmon) \subseteq Handles /\ Elems(timer) \subseteq Handles
         /\ Elems(ready) \subseteq Handles /\ Elems(async) \subseteq Handles
BY ElemsType DEF IInv, TypeOK, LinkExclusive

(* Unlinking a handle of the loop's lists and freeing it, the common part  *)
(* of aloe_evb2_cancel and aloe_evb2_cancel_fd.                            *)
LEMMA UnlinkStep ==
  ASSUME IInv, NEW h, Unlink(h), h \notin Elems(async),
         UNCHANGED <<async, pipe, now, tnow, deadline, evs, cur,
                     notifying, cancelling, flags, pc, caller>>
  PROVE  IInv'
<1>. USE Constants
<1>0. TypeOK /\ LinkExclusive /\ NoDangling /\ Owned /\ Control /\ CallersDistinct /\ Deadlines
  BY DEF IInv
<1>1. h \in Elems(fdmon) \cup Elems(timer) \cup Elems(ready) /\ h \in Handles
  BY ListFacts, ContainsElems DEF Unlink
<1>2. /\ fdmon' \in Seq(Handles) /\ NoDup(fdmon') /\ Elems(fdmon') = Elems(fdmon) \ {h}
      /\ timer' \in Seq(Handles) /\ NoDup(timer') /\ Elems(timer') = Elems(timer) \ {h}
      /\ ready' \in Seq(Handles) /\ NoDup(ready') /\ Elems(ready') = Elems(ready) \ {h}
  BY ListFacts, RemoveProp DEF Unlink
<1>3. /\ alloc' = alloc \ {h} /\ hs' = [hs EXCEPT ![h] = Blank]
      /\ interest' \in [Fds -> SUBSET EpollEv] /\ async' = async
  BY <1>0, RefreshType DEF Unlink, Free, TypeOK
<1>4. TypeOK'
  BY <1>0, <1>1, <1>2, <1>3 DEF TypeOK, flags
<1>5. LinkExclusive'
  BY <1>0, <1>2, <1>3 DEF LinkExclusive
<1>6. Linked' = Linked \ {h} /\ Held' = Held /\ Busy' = Busy
  BY <1>2, <1>3 DEF Linked, Held, Busy
<1>7. h \in Linked
  BY <1>1 DEF Linked
<1>8. NoDangling' /\ Owned'
  BY <1>0, <1>3, <1>6, <1>7 DEF NoDangling, Owned
<1>9. Control'
  <2>1. pc \notin {"gone", "closed"}
    BY <1>0, <1>1, ElemsType, EmptySeq DEF Control, TypeOK
  <2>. QED BY <1>0, <1>6, <2>1 DEF Control, flags
<1>10. CallersDistinct'
  BY <1>0, <1>6 DEF CallersDistinct
<1>11. Deadlines'
  <2>1. \A x \in alloc' : x \in alloc /\ x # h /\ x \in Handles /\ hs'[x] = hs[x]
    BY <1>0, <1>3 DEF TypeOK
  <2>2. Elems(async') \cup Held' \subseteq alloc' /\ Elems(timer') \subseteq alloc'
    BY <1>8 DEF NoDangling, Linked
  <2>. QED BY <1>0, <1>2, <1>3, <1>6, <2>1, <2>2 DEF Deadlines
<1>. QED BY <1>4, <1>5, <1>8, <1>9, <1>10, <1>11 DEF IInv


(* Moving a handle to ready_list, the common part of the scan of epoll     *)
(* events and of handle_to_ready.                                          *)
LEMMA ToReadyStep ==
  ASSUME IInv, NEW h, NEW n, h \in Elems(fdmon) \cup Elems(timer),
         n \subseteq NotiFlag, pc \in {"scan", "expire"}, ToReady(h, n),
         cur' \in Fds \cup {NULL},
         UNCHANGED <<alloc, async, pipe, now, tnow, deadline, evs,
                     notifying, cancelling, flags, pc, caller>>
  PROVE  IInv'
<1>. USE Constants
<1>0. TypeOK /\ LinkExclusive /\ NoDangling /\ Owned /\ Control /\ CallersDistinct /\ Deadlines
  BY DEF IInv
<1>1. h \in Handles /\ h \notin Elems(ready) /\ h \notin Elems(async)
  BY <1>0, ListFacts DEF LinkExclusive
<1>2. /\ fdmon' \in Seq(Handles) /\ NoDup(fdmon') /\ Elems(fdmon') = Elems(fdmon) \ {h}
      /\ timer' \in Seq(Handles) /\ NoDup(timer') /\ Elems(timer') = Elems(timer) \ {h}
  BY ListFacts, RemoveProp DEF ToReady
<1>3. ready' \in Seq(Handles) /\ NoDup(ready') /\ Elems(ready') = Elems(ready) \cup {h}
  BY <1>1, ListFacts, AppendProp DEF ToReady
<1>4. /\ hs' = [hs EXCEPT ![h].noti = n] /\ alloc' = alloc
      /\ interest' \in [Fds -> SUBSET EpollEv]
  BY <1>0, RefreshType DEF ToReady, TypeOK
<1>5. /\ hs' \in [Handles -> Record]
      /\ \A x \in Handles : /\ hs'[x].fd = hs[x].fd
                            /\ hs'[x].timeout_ms = hs[x].timeout_ms
                            /\ hs'[x].timeout_at = hs[x].timeout_at
  BY <1>0, <1>1, <1>4 DEF TypeOK, Record
<1>6. TypeOK'
  BY <1>0, <1>2, <1>3, <1>4, <1>5 DEF TypeOK, flags
<1>7. LinkExclusive'
  BY <1>0, <1>1, <1>2, <1>3 DEF LinkExclusive
<1>8. Linked' = Linked /\ Held' = Held /\ Busy' = Busy
  BY <1>2, <1>3 DEF Linked, Held, Busy
<1>9. NoDangling' /\ Owned'
  BY <1>0, <1>4, <1>8 DEF NoDangling, Owned
<1>10. Control'
  BY <1>0, <1>8 DEF Control, flags
<1>11. CallersDistinct'
  BY <1>0, <1>8 DEF CallersDistinct
<1>12. Deadlines'
  <2>1. alloc \subseteq Handles /\ Elems(async) \cup Held \subseteq alloc /\ Elems(timer) \subseteq alloc
    BY <1>0 DEF NoDangling, Linked, TypeOK
  <2>. QED BY <1>0, <1>2, <1>4, <1>5, <1>8, <2>1 DEF Deadlines
<1>. QED BY <1>6, <1>7, <1>9, <1>10, <1>11, <1>12 DEF IInv

(* timer_list after arming h at its record's deadline. *)
LEMMA TimerSetProp ==
  ASSUME NEW l \in Seq(Handles), NoDup(l), NEW r, NEW h \in Handles
  PROVE  /\ TimerSet(l, r, h) \in Seq(Handles) /\ NoDup(TimerSet(l, r, h))
         /\ Elems(TimerSet(l, r, h)) =
              IF r[h].timeout_at # UINT64_MAX THEN Elems(l) \cup {h} ELSE Elems(l) \ {h}
<1>. DEFINE m == qent_remove(l, h)
<1>1. m \in Seq(Handles) /\ NoDup(m) /\ Elems(m) = Elems(l) \ {h}
  BY RemoveProp
<1>. HIDE DEF m
<1>2. LET i == timer_insert(m, At(r), h)
      IN  i \in Seq(Handles) /\ NoDup(i) /\ Elems(i) = Elems(l) \cup {h}
  BY <1>1, InsertProp
<1>. QED BY <1>1, <1>2 DEF TimerSet, m

(* The end of a callback: the handle is released, or re-armed. *)
LEMMA AfterCallbackStep ==
  ASSUME IInv, TimeoutsFit, notifying # NULL, cancelling = NULL,
         AfterCallback(notifying),
         UNCHANGED <<ready, async, pipe, now, tnow, deadline, evs, cur,
                     cancelling, flags, caller>>
  PROVE  IInv'
<1>. USE Constants
<1>. DEFINE h == notifying
<1>0. TypeOK /\ LinkExclusive /\ NoDangling /\ Owned /\ Control /\ CallersDistinct /\ Deadlines
  BY DEF IInv
<1>1. /\ h \in Handles /\ h \in alloc /\ h \notin Linked /\ h \notin Held
      /\ ~finalized /\ pc \in {"user", "cancelfd", "lock", "install"}
  <2>1. h \in Busy
    BY DEF Busy
  <2>. QED BY <1>0, <2>1 DEF NoDangling, Control, CallersDistinct, TypeOK
<1>2. /\ Busy' = {} /\ Held' = Held /\ Busy = {h} /\ h \notin Elems(ready)
      /\ h \notin Elems(async) /\ h \notin Elems(fdmon) /\ h \notin Elems(timer)
  BY <1>1 DEF AfterCallback, Busy, Held, Linked
<1>3. Control'
  BY <1>0, <1>2 DEF AfterCallback, Control, flags
<1>4. CallersDistinct'
  BY <1>0, <1>2 DEF CallersDistinct
<1>5. CASE stopping \/ hs[h].dead \/ hs[h].oneshot
  <2>1. /\ alloc' = alloc \ {h} /\ hs' = [hs EXCEPT ![h] = Blank]
        /\ UNCHANGED <<fdmon, timer, interest>>
    BY <1>5 DEF AfterCallback, Free
  <2>2. Linked' = Linked
    BY <2>1 DEF Linked
  <2>3. TypeOK'
    BY <1>0, <1>1, <2>1 DEF TypeOK, flags, AfterCallback, Pcs
  <2>4. LinkExclusive'
    BY <1>0, <2>1 DEF LinkExclusive
  <2>5. NoDangling' /\ Owned'
    BY <1>0, <1>1, <1>2, <2>1, <2>2 DEF NoDangling, Owned
  <2>6. Deadlines'
    <3>1. \A x \in alloc' : x \in alloc /\ x # h /\ x \in Handles /\ hs'[x] = hs[x]
      BY <1>0, <2>1 DEF TypeOK
    <3>2. Elems(async') \cup Held' \subseteq alloc' /\ Elems(timer') \subseteq alloc'
      BY <2>5 DEF NoDangling, Linked
    <3>. QED BY <1>0, <1>2, <2>1, <3>1, <3>2 DEF Deadlines
  <2>. QED BY <1>3, <1>4, <2>3, <2>4, <2>5, <2>6 DEF IInv
<1>6. CASE ~(stopping \/ hs[h].dead \/ hs[h].oneshot)
  <2>. DEFINE d == RearmAt(hs[h].timeout_ms, now)
  <2>1. /\ alloc' = alloc
        /\ hs' = [hs EXCEPT ![h].noti = {}, ![h].timeout_at = d]
        /\ fdmon' = IF hs[h].fd # TimerFd THEN Append(fdmon, h) ELSE fdmon
        /\ timer' = TimerSet(timer, hs', h)
        /\ interest' = epoll_refresh(hs[h].fd, hs', fdmon')
    BY <1>6 DEF AfterCallback, Rearm
  <2>0. interest' \in [Fds -> SUBSET EpollEv]
    <3>1. interest' = epoll_refresh(hs[h].fd, hs', fdmon')
      BY <2>1
    <3>2. interest \in [Fds -> SUBSET EpollEv]
      BY <1>0 DEF TypeOK
    <3>. QED BY <3>1, <3>2, RefreshType
  <2>2. hs[h] \in Record /\ hs[h].timeout_ms \in 0..UINT64_MAX
    BY <1>0, <1>1 DEF TypeOK, Record
  <2>3. d \in 0..UINT64_MAX /\ (hs[h].fd = TimerFd => d < UINT64_MAX)
    BY <1>0, <1>1, <2>2, DeadlineType DEF TypeOK, Deadlines
  <2>. HIDE DEF d
  <2>4. /\ hs' \in [Handles -> Record]
        /\ hs'[h].timeout_at = d /\ hs'[h].fd = hs[h].fd
        /\ hs'[h].timeout_ms = hs[h].timeout_ms
        /\ \A x \in Handles : x # h => hs'[x] = hs[x]
    BY <1>0, <1>1, <2>1, <2>2, <2>3 DEF TypeOK, Record
  <2>5. /\ fdmon' \in Seq(Handles) /\ NoDup(fdmon')
        /\ Elems(fdmon') = IF hs[h].fd # TimerFd THEN Elems(fdmon) \cup {h} ELSE Elems(fdmon)
    BY <1>1, <1>2, <2>1, ListFacts, AppendProp
  <2>6. /\ timer' \in Seq(Handles) /\ NoDup(timer')
        /\ Elems(timer') = IF d # UINT64_MAX THEN Elems(timer) \cup {h} ELSE Elems(timer) \ {h}
    <3>1. timer' = TimerSet(timer, hs', h) /\ hs'[h].timeout_at = d
      BY <2>1, <2>4
    <3>2. timer \in Seq(Handles) /\ NoDup(timer) /\ h \in Handles
      BY <1>1, ListFacts
    <3>. QED BY <3>1, <3>2, TimerSetProp
  <2>7. TypeOK'
    BY <1>0, <2>0, <2>1, <2>4, <2>5, <2>6 DEF TypeOK, flags, AfterCallback, Pcs
  <2>8. LinkExclusive'
    BY <1>0, <1>2, <2>5, <2>6 DEF LinkExclusive
  <2>9. Linked' = Linked \cup {h}
    BY <1>2, <2>3, <2>5, <2>6 DEF Linked
  <2>10. NoDangling' /\ Owned'
    BY <1>0, <1>1, <1>2, <2>1, <2>9 DEF NoDangling, Owned
  <2>11. Deadlines'
    <3>1. \A x \in alloc' : hs'[x].fd = TimerFd =>
             hs'[x].timeout_ms \in Timeouts /\ hs'[x].timeout_at < UINT64_MAX
      BY <1>0, <1>1, <2>1, <2>3, <2>4 DEF Deadlines, TypeOK
    <3>2. \A x \in Elems(async') \cup Held' : hs'[x].fd = TimerFd
      <4>1. Elems(async) \cup Held \subseteq Handles /\ h \notin Elems(async) \cup Held
        BY <1>0, <1>1, <1>2, ListFacts DEF NoDangling, TypeOK
      <4>. QED BY <1>0, <1>2, <2>4, <4>1 DEF Deadlines
    <3>3. \A x \in Elems(timer') : hs'[x].fd = TimerFd \/ x \in Elems(fdmon')
      <4>1. Elems(timer) \subseteq Handles
        BY ListFacts
      <4>. QED BY <1>0, <1>2, <2>4, <2>5, <2>6, <4>1 DEF Deadlines
    <3>. QED BY <3>1, <3>2, <3>3 DEF Deadlines
  <2>. QED BY <1>3, <1>4, <2>7, <2>8, <2>10, <2>11 DEF IInv
<1>. QED BY <1>5, <1>6


(* aloe_evb2_create: the first and only handle is the wake pipe's. *)
LEMMA CreateStep == ASSUME IInv, Create PROVE IInv'
<1>. USE Constants
<1>0. TypeOK /\ LinkExclusive /\ NoDangling /\ Owned /\ Control /\ CallersDistinct /\ Deadlines
  BY DEF IInv
<1>1. /\ fdmon = <<>> /\ timer = <<>> /\ ready = <<>> /\ async = <<>>
      /\ notifying = NULL /\ cancelling = NULL /\ Held = {} /\ ~finalized
  BY <1>0 DEF Create, Control
<1>2. Elems(<<>>) = {} /\ NoDup(<<>>) /\ <<>> \in Seq(Handles)
  BY EmptySeq DEF Elems, NoDup
<1>3. fdmon' = <<WakeH>> /\ Elems(<<WakeH>>) = {WakeH} /\ NoDup(<<WakeH>>) /\ <<WakeH>> \in Seq(Handles)
  <2>1. Len(<<WakeH>>) = 1 /\ <<WakeH>>[1] = WakeH /\ <<WakeH>> \in Seq(Handles)
    OBVIOUS
  <2>. QED BY <2>1 DEF Create, Elems, NoDup
<1>4. Linked' = {WakeH} /\ Held' = {} /\ Busy' = {} /\ Linked = {} /\ Busy = {}
  BY <1>1, <1>2, <1>3 DEF Create, Linked, Held, Busy
<1>5. alloc = {} /\ alloc' = {WakeH}
  BY <1>0, <1>1, <1>4 DEF Owned, Create
<1>6. hs' \in [Handles -> Record] /\ hs'[WakeH].fd = PipeFd
  <2>. DEFINE new == [Blank EXCEPT !.fd = PipeFd, !.flag = {"READ"},
                                   !.timeout_ms = INFINITE, !.timeout_at = UINT64_MAX]
  <2>1. new \in Record /\ new.fd = PipeFd
    <3>1. {"READ"} \in SUBSET ReqFlag /\ UINT64_MAX \in 0..UINT64_MAX /\ 0 \in 0..UINT64_MAX
      BY DEF ReqFlag
    <3>. QED BY <3>1 DEF Record, Blank
  <2>2. hs' = [hs EXCEPT ![WakeH] = new] /\ hs \in [Handles -> Record]
    BY <1>0 DEF Create, TypeOK
  <2>. HIDE DEF new
  <2>. QED BY <2>1, <2>2
<1>7. interest' \in [Fds -> SUBSET EpollEv]
  <2>1. interest' = epoll_refresh(PipeFd, hs', fdmon') /\ interest \in [Fds -> SUBSET EpollEv]
    BY <1>0 DEF Create, TypeOK
  <2>. QED BY <2>1, RefreshType
<1>8. TypeOK'
  BY <1>0, <1>3, <1>5, <1>6, <1>7 DEF Create, TypeOK, Pcs, flags
<1>9. LinkExclusive'
  BY <1>1, <1>2, <1>3 DEF Create, LinkExclusive
<1>10. NoDangling' /\ Owned'
  BY <1>4, <1>5 DEF NoDangling, Owned
<1>11. Control' /\ CallersDistinct'
  BY <1>0, <1>1, <1>4 DEF Create, Control, CallersDistinct, flags
<1>12. Deadlines'
  BY <1>1, <1>2, <1>4, <1>5, <1>6 DEF Create, Deadlines
<1>. QED BY <1>8, <1>9, <1>10, <1>11, <1>12 DEF IInv

(* Registration of a new handle by aloe_evb2_add_fd and its variants. *)
LEMMA AddFdStep ==
  ASSUME IInv, TimeoutsFit, NEW h \in Handle, NEW f \in Fd \cup {TimerFd},
         NEW req \in Requests \cup {{}}, NEW ms \in Timeouts \cup {INFINITE},
         NEW one \in BOOLEAN, AddFd(h, f, req, ms, one)
  PROVE  IInv'
<1>. USE Constants
<1>0. TypeOK /\ LinkExclusive /\ NoDangling /\ Owned /\ Control /\ CallersDistinct /\ Deadlines
  BY DEF IInv
<1>. DEFINE d == Deadline(ms, now)
            new == [Blank EXCEPT !.fd = f, !.flag = req, !.timeout_ms = ms,
                                 !.timeout_at = d, !.oneshot = one]
<1>1. /\ h \notin alloc /\ h \in Handles /\ h \notin Linked /\ h \notin Held
      /\ h \notin Busy /\ alloc' = alloc \cup {h} /\ hs' = [hs EXCEPT ![h] = new]
      /\ h \notin Elems(fdmon) /\ h \notin Elems(timer) /\ h \notin Elems(ready)
      /\ h \notin Elems(async)
  BY <1>0 DEF AddFd, NoDangling, Linked
<1>2. d \in 0..UINT64_MAX /\ (f = TimerFd => ms \in Timeouts /\ d < UINT64_MAX)
  BY <1>0, DeadlineType DEF AddFd, TypeOK
<1>3. new \in Record /\ new.fd = f /\ new.timeout_ms = ms /\ new.timeout_at = d
  <2>1. req \in SUBSET ReqFlag
    BY ConstantsAssumption
  <2>2. f \in Fds \cup {TimerFd}
    BY DEF Fds
  <2>. HIDE DEF d
  <2>. QED BY <1>2, <2>1, <2>2 DEF Record, Blank
<1>. HIDE DEF new, d
<1>4. hs' \in [Handles -> Record] /\ hs'[h] = new /\ \A x \in Handles : x # h => hs'[x] = hs[x]
  BY <1>0, <1>1, <1>3 DEF TypeOK
<1>5. /\ fdmon' \in Seq(Handles) /\ NoDup(fdmon')
      /\ Elems(fdmon') = IF f # TimerFd THEN Elems(fdmon) \cup {h} ELSE Elems(fdmon)
  <2>1. fdmon' = IF f # TimerFd THEN Append(fdmon, h) ELSE fdmon
    BY DEF AddFd
  <2>. QED BY <1>1, <2>1, ListFacts, AppendProp
<1>6. /\ timer' \in Seq(Handles) /\ NoDup(timer')
      /\ Elems(timer') = IF d # UINT64_MAX THEN Elems(timer) \cup {h} ELSE Elems(timer)
  <2>0. timer' = IF hs'[h].timeout_at # UINT64_MAX THEN timer_insert(timer, At(hs'), h) ELSE timer
    BY DEF AddFd
  <2>1. timer' = IF d # UINT64_MAX THEN timer_insert(timer, At(hs'), h) ELSE timer
    BY <1>3, <1>4, <2>0
  <2>2. /\ timer_insert(timer, At(hs'), h) \in Seq(Handles)
        /\ NoDup(timer_insert(timer, At(hs'), h))
        /\ Elems(timer_insert(timer, At(hs'), h)) = Elems(timer) \cup {h}
    <3>1. timer \in Seq(Handles) /\ NoDup(timer) /\ h \in Handles /\ h \notin Elems(timer)
      BY <1>1, ListFacts
    <3>. QED BY <3>1, InsertProp
  <2>3. timer \in Seq(Handles) /\ NoDup(timer)
    BY ListFacts
  <2>. QED BY <2>1, <2>2, <2>3
<1>7. interest' \in [Fds -> SUBSET EpollEv]
  <2>1. interest' = epoll_refresh(f, hs', fdmon') /\ interest \in [Fds -> SUBSET EpollEv]
    BY <1>0 DEF AddFd, TypeOK
  <2>. QED BY <2>1, RefreshType
<1>8. TypeOK'
  BY <1>0, <1>1, <1>4, <1>5, <1>6, <1>7 DEF AddFd, TypeOK, flags
<1>9. LinkExclusive'
  <2>1. UNCHANGED <<ready, async>>
    BY DEF AddFd
  <2>. QED BY <1>0, <1>1, <1>5, <1>6, <2>1 DEF LinkExclusive
<1>10. Linked' = Linked \cup {h} /\ Held' = Held /\ Busy' = Busy
  <2>1. UNCHANGED <<ready, async, caller, notifying, cancelling>>
    BY DEF AddFd
  <2>. QED BY <1>2, <1>5, <1>6, <2>1 DEF Linked, Held, Busy
<1>11. NoDangling' /\ Owned'
  BY <1>0, <1>1, <1>10 DEF NoDangling, Owned
<1>12. Control' /\ CallersDistinct'
  BY <1>0, <1>10 DEF AddFd, UserCode, Control, CallersDistinct, flags
<1>13. Deadlines'
  <2>1. alloc \subseteq Handles /\ Elems(async) \cup Held \subseteq alloc /\ Elems(timer) \subseteq alloc
    BY <1>0 DEF NoDangling, Linked, TypeOK
  <2>2. \A x \in alloc' : hs'[x].fd = TimerFd =>
           hs'[x].timeout_ms \in Timeouts /\ hs'[x].timeout_at < UINT64_MAX
    BY <1>0, <1>1, <1>2, <1>3, <1>4, <2>1 DEF Deadlines
  <2>3. \A x \in Elems(async') \cup Held' : hs'[x].fd = TimerFd
    BY <1>0, <1>1, <1>4, <1>10, <2>1 DEF AddFd, Deadlines
  <2>4. \A x \in Elems(timer') : hs'[x].fd = TimerFd \/ x \in Elems(fdmon')
    BY <1>0, <1>1, <1>3, <1>4, <1>5, <1>6, <2>1 DEF Deadlines
  <2>. QED BY <2>2, <2>3, <2>4 DEF Deadlines
<1>. QED BY <1>8, <1>9, <1>11, <1>12, <1>13 DEF IInv

(* The record aloe_evb2_add_oneshot_timer fills before it takes the lock. *)
LEMMA OneshotProp ==
  ASSUME IInv, TimeoutsFit, NEW h \in Handle, NEW ms \in Timeouts, OneshotTimer(h, ms)
  PROVE  /\ h \notin alloc /\ h \in Handles /\ h \notin Linked \cup Held \cup Busy
         /\ alloc' = alloc \cup {h} /\ hs' \in [Handles -> Record]
         /\ hs'[h].fd = TimerFd /\ hs'[h].timeout_ms \in Timeouts
         /\ hs'[h].timeout_at < UINT64_MAX
         /\ \A x \in Handles : x # h => hs'[x] = hs[x]
<1>. USE Constants
<1>. DEFINE d == Deadline(ms, now)
            new == [Blank EXCEPT !.timeout_ms = ms, !.timeout_at = d, !.oneshot = TRUE]
<1>1. TypeOK /\ NoDangling
  BY DEF IInv
<1>2. d \in 0..UINT64_MAX /\ d < UINT64_MAX
  BY <1>1, DeadlineType DEF TypeOK
<1>3. new \in Record /\ new.fd = TimerFd /\ new.timeout_ms = ms /\ new.timeout_at = d
  <2>. HIDE DEF d
  <2>. QED BY <1>2 DEF Record, Blank
<1>4. /\ h \notin alloc /\ alloc' = alloc \cup {h} /\ hs' = [hs EXCEPT ![h] = new]
      /\ h \in Handles
  BY DEF OneshotTimer
<1>. HIDE DEF new, d
<1>. QED BY <1>1, <1>2, <1>3, <1>4 DEF TypeOK, NoDangling

(* Queueing a one-shot timer from the loop thread. *)
LEMMA AddOneshotStep ==
  ASSUME IInv, TimeoutsFit, NEW h \in Handle, NEW ms \in Timeouts, AddOneshotTimer(h, ms)
  PROVE  IInv'
<1>. USE Constants
<1>0. TypeOK /\ LinkExclusive /\ NoDangling /\ Owned /\ Control /\ CallersDistinct /\ Deadlines
  BY DEF IInv
<1>1. /\ h \notin alloc /\ h \in Handles /\ h \notin Linked \cup Held \cup Busy
      /\ alloc' = alloc \cup {h} /\ hs' \in [Handles -> Record]
      /\ hs'[h].fd = TimerFd /\ hs'[h].timeout_ms \in Timeouts
      /\ hs'[h].timeout_at < UINT64_MAX
      /\ \A x \in Handles : x # h => hs'[x] = hs[x]
  BY OneshotProp DEF AddOneshotTimer
<1>2. /\ async' \in Seq(Handles) /\ NoDup(async') /\ Elems(async') = Elems(async) \cup {h}
      /\ UNCHANGED <<fdmon, timer, ready, caller, notifying, cancelling>>
  BY <1>1, ListFacts, AppendProp DEF AddOneshotTimer, Linked
<1>3. TypeOK'
  BY <1>0, <1>1, <1>2 DEF AddOneshotTimer, TypeOK, flags, evb2_wake
<1>4. LinkExclusive'
  BY <1>0, <1>1, <1>2 DEF LinkExclusive, Linked
<1>5. Linked' = Linked \cup {h} /\ Held' = Held /\ Busy' = Busy
  BY <1>2 DEF Linked, Held, Busy
<1>6. NoDangling' /\ Owned'
  BY <1>0, <1>1, <1>5 DEF NoDangling, Owned
<1>7. Control' /\ CallersDistinct'
  BY <1>0, <1>2, <1>5 DEF AddOneshotTimer, UserCode, Control, CallersDistinct, flags
<1>8. Deadlines'
  <2>1. alloc \subseteq Handles /\ Elems(async) \cup Held \subseteq alloc /\ Elems(timer) \subseteq alloc
    BY <1>0 DEF NoDangling, Linked, TypeOK
  <2>. QED BY <1>0, <1>1, <1>2, <1>5, <2>1 DEF Deadlines
<1>. QED BY <1>3, <1>4, <1>6, <1>7, <1>8 DEF IInv

(* aloe_evb2_cancel of the handle whose callback is running. *)
LEMMA CancelSelfStep == ASSUME IInv, NEW h \in Handle, CancelSelf(h) PROVE IInv'
<1>. USE Constants
<1>0. TypeOK /\ LinkExclusive /\ NoDangling /\ Owned /\ Control /\ CallersDistinct /\ Deadlines
  BY DEF IInv
<1>1. /\ hs' = [hs EXCEPT ![h].dead = TRUE]
      /\ UNCHANGED <<alloc, fdmon, timer, ready, async, caller, notifying, cancelling>>
  BY DEF CancelSelf, lists
<1>2. /\ hs' \in [Handles -> Record]
      /\ \A x \in Handles : /\ hs'[x].fd = hs[x].fd
                            /\ hs'[x].timeout_ms = hs[x].timeout_ms
                            /\ hs'[x].timeout_at = hs[x].timeout_at
  BY <1>0, <1>1 DEF TypeOK, Record
<1>3. Linked' = Linked /\ Held' = Held /\ Busy' = Busy
  BY <1>1 DEF Linked, Held, Busy
<1>4. TypeOK'
  BY <1>0, <1>1, <1>2 DEF CancelSelf, TypeOK, flags
<1>5. LinkExclusive' /\ NoDangling' /\ Owned' /\ CallersDistinct'
  BY <1>0, <1>1, <1>3 DEF LinkExclusive, NoDangling, Owned, CallersDistinct
<1>6. Control'
  <2>1. UNCHANGED <<cur, flags, pc>>
    BY DEF CancelSelf
  <2>. QED BY <1>0, <1>1, <1>3, <2>1 DEF Control, flags
<1>7. Deadlines'
  <2>1. alloc \subseteq Handles /\ Elems(async) \cup Held \subseteq alloc /\ Elems(timer) \subseteq alloc
    BY <1>0 DEF NoDangling, Linked, TypeOK
  <2>. QED BY <1>0, <1>1, <1>2, <1>3, <2>1 DEF Deadlines
<1>. QED BY <1>4, <1>5, <1>6, <1>7 DEF IInv

(* Cancelling a timer that is still on async_list. *)
LEMMA CancelAsyncStep == ASSUME IInv, NEW h \in Handle, CancelAsync(h) PROVE IInv'
<1>. USE Constants
<1>0. TypeOK /\ LinkExclusive /\ NoDangling /\ Owned /\ Control /\ CallersDistinct /\ Deadlines
  BY DEF IInv
<1>1. /\ alloc' = alloc \ {h} /\ hs' = [hs EXCEPT ![h] = Blank]
      /\ UNCHANGED <<fdmon, timer, ready, caller, notifying, cancelling, cur, flags, pc>>
      /\ async' = qent_remove(async, h) /\ qent_contains(async, h) /\ pc = "user"
  BY DEF CancelAsync, Free, UserCode
<1>2. /\ async' \in Seq(Handles) /\ NoDup(async') /\ Elems(async') = Elems(async) \ {h}
      /\ h \in Elems(async)
  BY <1>1, ListFacts, RemoveProp, ContainsElems
<1>3. h \in Linked /\ h \notin Elems(fdmon) /\ h \notin Elems(timer) /\ h \notin Elems(ready)
  BY <1>0, <1>2 DEF Linked, LinkExclusive
<1>4. Linked' = Linked \ {h} /\ Held' = Held /\ Busy' = Busy
  BY <1>1, <1>2, <1>3 DEF Linked, Held, Busy
<1>5. TypeOK'
  BY <1>0, <1>1, <1>2 DEF CancelAsync, TypeOK, flags
<1>6. LinkExclusive' /\ NoDangling' /\ Owned' /\ CallersDistinct'
  BY <1>0, <1>1, <1>2, <1>3, <1>4 DEF LinkExclusive, NoDangling, Owned, CallersDistinct
<1>7. Control'
  BY <1>0, <1>1, <1>4 DEF Control, flags
<1>8. Deadlines'
  <2>1. \A x \in alloc' : x \in alloc /\ x # h /\ x \in Handles /\ hs'[x] = hs[x]
    BY <1>0, <1>1 DEF TypeOK
  <2>2. Elems(async') \cup Held' \subseteq alloc' /\ Elems(timer') \subseteq alloc'
    BY <1>6 DEF NoDangling, Linked
  <2>. QED BY <1>0, <1>1, <1>2, <1>4, <2>1, <2>2 DEF Deadlines
<1>. QED BY <1>5, <1>6, <1>7, <1>8 DEF IInv

(* aloe_evb2_set_timeout.  A handle on timer_list or fdmon_list stays on   *)
(* one of them: only a handle with a descriptor can lose its deadline.     *)
LEMMA SetTimeoutStep ==
  ASSUME IInv, TimeoutsFit, NEW h \in Handle, NEW ms \in Timeouts \cup {INFINITE},
         SetTimeout(h, ms)
  PROVE  IInv'
<1>. USE Constants
<1>0. TypeOK /\ LinkExclusive /\ NoDangling /\ Owned /\ Control /\ CallersDistinct /\ Deadlines
  BY DEF IInv
<1>. DEFINE d == Deadline(ms, now)
            quiet == notifying = h \/ qent_contains(async, h) \/ qent_contains(ready, h)
<1>1. /\ h \in Handles /\ h \in alloc /\ h \notin Held /\ cancelling = NULL
      /\ hs' = [hs EXCEPT ![h].timeout_ms = ms, ![h].timeout_at = d]
      /\ UNCHANGED <<alloc, fdmon, ready, async, interest, caller, notifying, cancelling, cur, flags, pc>>
  BY <1>0 DEF SetTimeout, Known, Held, Control
<1>2. d \in 0..UINT64_MAX /\ (hs[h].fd = TimerFd => ms \in Timeouts /\ d < UINT64_MAX)
  BY <1>0, DeadlineType DEF SetTimeout, TypeOK
<1>. HIDE DEF d
<1>3. /\ hs' \in [Handles -> Record]
      /\ hs'[h].timeout_at = d /\ hs'[h].fd = hs[h].fd /\ hs'[h].timeout_ms = ms
      /\ \A x \in Handles : x # h => hs'[x] = hs[x]
  BY <1>0, <1>1, <1>2, ZenonT(40) DEF TypeOK, Record
<1>4. timer' = IF quiet THEN timer ELSE TimerSet(timer, hs', h)
  BY DEF SetTimeout
<1>5. ~quiet => h \in Elems(fdmon) \cup Elems(timer)
  <2>1. h \in Linked \cup Busy
    BY <1>0, <1>1 DEF Owned
  <2>2. /\ qent_contains(async, h) <=> h \in Elems(async)
        /\ qent_contains(ready, h) <=> h \in Elems(ready)
    BY ListFacts, ContainsElems
  <2>. QED BY <1>1, <2>1, <2>2 DEF Linked, Busy
<1>6. /\ timer' \in Seq(Handles) /\ NoDup(timer')
      /\ Elems(timer') = IF quiet THEN Elems(timer)
                         ELSE IF d # UINT64_MAX THEN Elems(timer) \cup {h} ELSE Elems(timer) \ {h}
  <2>1. timer \in Seq(Handles) /\ NoDup(timer)
    BY ListFacts
  <2>. HIDE DEF quiet
  <2>2. CASE quiet
    BY <1>4, <2>1, <2>2
  <2>3. CASE ~quiet
    <3>1. /\ timer' = TimerSet(timer, hs', h) /\ hs'[h].timeout_at = d /\ h \in Handles
      BY <1>1, <1>3, <1>4, <2>3
    <3>2. /\ timer' \in Seq(Handles) /\ NoDup(timer')
          /\ Elems(timer') = IF d # UINT64_MAX THEN Elems(timer) \cup {h} ELSE Elems(timer) \ {h}
      BY <2>1, <3>1, TimerSetProp
    <3>. QED BY <2>3, <3>2
  <2>. QED BY <2>2, <2>3
<1>7. ~quiet => h \notin Elems(ready) /\ h \notin Elems(async)
  BY ListFacts, ContainsElems
<1>. HIDE DEF quiet
<1>8. Linked' = Linked /\ Held' = Held /\ Busy' = Busy
  <2>1. ~quiet /\ d = UINT64_MAX => h \in Elems(fdmon)
    BY <1>0, <1>2, <1>5 DEF Deadlines
  <2>. QED BY <1>1, <1>5, <1>6, <2>1 DEF Linked, Held, Busy
<1>9. TypeOK'
  BY <1>0, <1>1, <1>3, <1>6 DEF SetTimeout, TypeOK, flags
<1>10. LinkExclusive'
  BY <1>0, <1>1, <1>6, <1>7 DEF LinkExclusive
<1>11. NoDangling' /\ Owned' /\ CallersDistinct'
  BY <1>0, <1>1, <1>8 DEF NoDangling, Owned, CallersDistinct
<1>12. Control'
  <2>1. pc = "user"
    BY DEF SetTimeout, UserCode
  <2>. QED BY <1>0, <1>1, <1>8, <2>1 DEF Control, flags
<1>13. Deadlines'
  <2>1. alloc \subseteq Handles /\ Elems(async) \cup Held \subseteq alloc /\ Elems(timer) \subseteq alloc
    BY <1>0 DEF NoDangling, Linked, TypeOK
  <2>2. \A x \in alloc' : hs'[x].fd = TimerFd =>
           hs'[x].timeout_ms \in Timeouts /\ hs'[x].timeout_at < UINT64_MAX
    BY <1>0, <1>1, <1>2, <1>3, <2>1 DEF Deadlines
  <2>3. \A x \in Handles : hs'[x].fd = hs[x].fd
    BY <1>3
  <2>4. \A x \in Elems(timer') : hs'[x].fd = TimerFd \/ x \in Elems(fdmon')
    BY <1>0, <1>1, <1>5, <1>6, <2>1, <2>3 DEF Deadlines
  <2>. QED BY <1>0, <1>1, <1>8, <2>1, <2>2, <2>3, <2>4 DEF Deadlines
<1>. QED BY <1>9, <1>10, <1>11, <1>12, <1>13 DEF IInv

(* One round of evb2_install_async. *)
LEMMA InstallOneStep == ASSUME IInv, InstallOne PROVE IInv'
<1>. USE Constants
<1>0. TypeOK /\ LinkExclusive /\ NoDangling /\ Owned /\ Control /\ CallersDistinct /\ Deadlines
  BY DEF IInv
<1>. DEFINE h == Head(async)
<1>1. /\ async # <<>> /\ async' = Tail(async) /\ pc = "install"
      /\ UNCHANGED <<alloc, hs, fdmon, ready, interest, caller, notifying, cur, flags>>
  BY DEF InstallOne
<1>2. /\ h \in Handles /\ h \in Elems(async) /\ async' \in Seq(Handles)
      /\ NoDup(async') /\ Elems(async') = Elems(async) \ {h}
  BY <1>1, ListFacts, PopProp
<1>3. /\ h \notin Elems(fdmon) /\ h \notin Elems(timer) /\ h \notin Elems(ready)
      /\ h \notin Held /\ h \notin Busy /\ h \in alloc /\ cancelling = NULL
      /\ hs[h].fd = TimerFd /\ hs[h].timeout_at < UINT64_MAX /\ h # NULL
  <2>1. h \in Linked
    BY <1>2 DEF Linked
  <2>. QED BY <1>0, <1>1, <1>2, <2>1 DEF LinkExclusive, NoDangling, Control, Deadlines
<1>. HIDE DEF h
<1>4. CASE stopping
  <2>1. cancelling' = h /\ pc' = "user" /\ timer' = timer
    BY <1>4 DEF InstallOne, h
  <2>2. Linked' = Linked \ {h} /\ Held' = Held /\ Busy' = Busy \cup {h}
    BY <1>1, <1>2, <1>3, <2>1 DEF Linked, Held, Busy
  <2>3. TypeOK'
    BY <1>0, <1>1, <1>2, <2>1 DEF InstallOne, TypeOK, flags, Pcs
  <2>4. LinkExclusive'
    BY <1>0, <1>1, <1>2, <2>1 DEF LinkExclusive
  <2>5. NoDangling' /\ Owned'
    BY <1>0, <1>1, <1>3, <2>2 DEF NoDangling, Owned
  <2>6. CallersDistinct'
    BY <1>0, <1>1, <1>3, <2>2 DEF CallersDistinct
  <2>7. Control'
    BY <1>0, <1>1, <1>3, <1>4, <2>1, <2>2 DEF Control, flags, Busy
  <2>8. Deadlines'
    BY <1>0, <1>1, <1>2, <2>1, <2>2 DEF Deadlines
  <2>. QED BY <2>3, <2>4, <2>5, <2>6, <2>7, <2>8 DEF IInv
<1>5. CASE ~stopping
  <2>1. /\ timer' = timer_insert(timer, At(hs), h)
        /\ UNCHANGED <<cancelling, pc>>
    BY <1>3, <1>5 DEF InstallOne, h
  <2>2. /\ timer' \in Seq(Handles) /\ NoDup(timer') /\ Elems(timer') = Elems(timer) \cup {h}
    BY <1>2, <1>3, <2>1, ListFacts, InsertProp
  <2>3. Linked' = Linked /\ Held' = Held /\ Busy' = Busy
    BY <1>1, <1>2, <1>3, <2>1, <2>2 DEF Linked, Held, Busy
  <2>4. TypeOK'
    BY <1>0, <1>1, <1>2, <2>1, <2>2 DEF InstallOne, TypeOK, flags
  <2>5. LinkExclusive'
    BY <1>0, <1>1, <1>2, <1>3, <2>2 DEF LinkExclusive
  <2>6. NoDangling' /\ Owned' /\ CallersDistinct'
    BY <1>0, <1>1, <2>1, <2>3 DEF NoDangling, Owned, CallersDistinct
  <2>7. Control'
    BY <1>0, <1>1, <2>1, <2>3 DEF Control, flags
  <2>8. Deadlines'
    BY <1>0, <1>1, <1>2, <1>3, <2>2, <2>3 DEF Deadlines
  <2>. QED BY <2>4, <2>5, <2>6, <2>7, <2>8 DEF IInv
<1>. QED BY <1>4, <1>5

(* The dispatch loop takes the next ready handle. *)
LEMMA DispatchStep == ASSUME IInv, Dispatch PROVE IInv'
<1>. USE Constants
<1>0. TypeOK /\ LinkExclusive /\ NoDangling /\ Owned /\ Control /\ CallersDistinct /\ Deadlines
  BY DEF IInv
<1>. DEFINE h == Head(ready)
<1>1. /\ ready # <<>> /\ ready' = Tail(ready) /\ pc = "dispatch" /\ notifying' = h
      /\ pc' = (IF h = WakeH THEN "lock" ELSE "user")
      /\ UNCHANGED <<alloc, hs, fdmon, timer, async, interest, caller, cancelling, cur, flags>>
  BY DEF Dispatch
<1>2. /\ h \in Handles /\ h \in Elems(ready) /\ ready' \in Seq(Handles)
      /\ NoDup(ready') /\ Elems(ready') = Elems(ready) \ {h}
  BY <1>1, ListFacts, PopProp
<1>3. /\ h \notin Elems(fdmon) /\ h \notin Elems(timer) /\ h \notin Elems(async)
      /\ h \notin Held /\ h \in alloc /\ cancelling = NULL /\ notifying = NULL
      /\ h # NULL /\ ~finalized
  <2>1. h \in Linked
    BY <1>2 DEF Linked
  <2>. QED BY <1>0, <1>1, <1>2, <2>1 DEF LinkExclusive, NoDangling, Control
<1>. HIDE DEF h
<1>4. Linked' = Linked \ {h} /\ Held' = Held /\ Busy' = {h} /\ Busy = {}
  BY <1>1, <1>2, <1>3 DEF Linked, Held, Busy
<1>5. TypeOK'
  BY <1>0, <1>1, <1>2 DEF Dispatch, TypeOK, flags, Pcs
<1>6. LinkExclusive'
  BY <1>0, <1>1, <1>2 DEF LinkExclusive
<1>7. NoDangling' /\ Owned' /\ CallersDistinct'
  <2>1. h \in Linked
    BY <1>2 DEF Linked
  <2>. QED BY <1>0, <1>1, <1>3, <1>4, <2>1 DEF NoDangling, Owned, CallersDistinct
<1>8. Control'
  BY <1>0, <1>1, <1>3, <1>4 DEF Control, flags
<1>9. Deadlines'
  BY <1>0, <1>1, <1>4 DEF Deadlines
<1>. QED BY <1>5, <1>6, <1>7, <1>8, <1>9 DEF IInv

(* evb2_finalize takes the next handle of the loop's own lists. *)
LEMMA FinalizeOneStep == ASSUME IInv, FinalizeOne PROVE IInv'
<1>. USE Constants
<1>0. TypeOK /\ LinkExclusive /\ NoDangling /\ Owned /\ Control /\ CallersDistinct /\ Deadlines
  BY DEF IInv
<1>. DEFINE h == Head(FinalList)
<1>1. /\ FinalList # <<>> /\ pc = "final" /\ pc' = "user" /\ cancelling' = h
      /\ fdmon' = qent_remove(fdmon, h) /\ timer' = qent_remove(timer, h)
      /\ ready' = qent_remove(ready, h)
      /\ UNCHANGED <<alloc, hs, async, interest, caller, notifying, cur, flags>>
  BY DEF FinalizeOne
<1>2. h \in Handles /\ h \in Elems(fdmon) \cup Elems(timer) \cup Elems(ready)
  <2>1. FinalList \in {fdmon, timer, ready} /\ FinalList \in Seq(Handles) /\ NoDup(FinalList)
    BY ListFacts DEF FinalList
  <2>2. Head(FinalList) \in Handles /\ Head(FinalList) \in Elems(FinalList)
    BY <1>1, <2>1, PopProp
  <2>. QED BY <2>1, <2>2
<1>. HIDE DEF h
<1>3. /\ fdmon' \in Seq(Handles) /\ NoDup(fdmon') /\ Elems(fdmon') = Elems(fdmon) \ {h}
      /\ timer' \in Seq(Handles) /\ NoDup(timer') /\ Elems(timer') = Elems(timer) \ {h}
      /\ ready' \in Seq(Handles) /\ NoDup(ready') /\ Elems(ready') = Elems(ready) \ {h}
  BY <1>1, ListFacts, RemoveProp
<1>4. /\ h \notin Elems(async) /\ h \notin Held /\ h \in alloc /\ h # NULL /\ h \in Linked
      /\ cancelling = NULL /\ notifying = NULL /\ finalized /\ stopping /\ in_run
  <2>1. h \in Linked
    BY <1>2 DEF Linked
  <2>. QED BY <1>0, <1>1, <1>2, <2>1 DEF LinkExclusive, NoDangling, Control
<1>5. Linked' = Linked \ {h} /\ Held' = Held /\ Busy' = {h} /\ Busy = {}
  BY <1>1, <1>3, <1>4 DEF Linked, Held, Busy
<1>6. TypeOK'
  BY <1>0, <1>1, <1>2, <1>3 DEF FinalizeOne, TypeOK, flags, Pcs
<1>7. LinkExclusive'
  BY <1>0, <1>1, <1>3 DEF LinkExclusive
<1>8. NoDangling' /\ Owned' /\ CallersDistinct'
  BY <1>0, <1>1, <1>4, <1>5 DEF NoDangling, Owned, CallersDistinct
<1>9. Control'
  BY <1>0, <1>1, <1>4, <1>5 DEF Control, flags
<1>10. Deadlines'
  BY <1>0, <1>1, <1>3, <1>5 DEF Deadlines
<1>. QED BY <1>6, <1>7, <1>8, <1>9, <1>10 DEF IInv

(* evb2_finalize takes the next timer that was never installed. *)
LEMMA FinalizeAsyncStep == ASSUME IInv, FinalizeAsync PROVE IInv'
<1>. USE Constants
<1>0. TypeOK /\ LinkExclusive /\ NoDangling /\ Owned /\ Control /\ CallersDistinct /\ Deadlines
  BY DEF IInv
<1>. DEFINE h == Head(async)
<1>1. /\ async # <<>> /\ async' = Tail(async) /\ pc = "final" /\ pc' = "user" /\ cancelling' = h
      /\ UNCHANGED <<alloc, hs, fdmon, timer, ready, interest, caller, notifying, cur, flags>>
  BY DEF FinalizeAsync
<1>2. /\ h \in Handles /\ h \in Elems(async) /\ async' \in Seq(Handles)
      /\ NoDup(async') /\ Elems(async') = Elems(async) \ {h}
  BY <1>1, ListFacts, PopProp
<1>. HIDE DEF h
<1>3. /\ h \notin Elems(fdmon) /\ h \notin Elems(timer) /\ h \notin Elems(ready)
      /\ h \notin Held /\ h \in alloc /\ h # NULL /\ h \in Linked
      /\ cancelling = NULL /\ notifying = NULL /\ finalized /\ stopping /\ in_run
  <2>1. h \in Linked
    BY <1>2 DEF Linked
  <2>. QED BY <1>0, <1>1, <1>2, <2>1 DEF LinkExclusive, NoDangling, Control
<1>4. Linked' = Linked \ {h} /\ Held' = Held /\ Busy' = {h} /\ Busy = {}
  BY <1>1, <1>2, <1>3 DEF Linked, Held, Busy
<1>5. TypeOK'
  BY <1>0, <1>1, <1>2 DEF FinalizeAsync, TypeOK, flags, Pcs
<1>6. LinkExclusive'
  BY <1>0, <1>1, <1>2 DEF LinkExclusive
<1>7. NoDangling' /\ Owned' /\ CallersDistinct'
  BY <1>0, <1>1, <1>3, <1>4 DEF NoDangling, Owned, CallersDistinct
<1>8. Control'
  BY <1>0, <1>1, <1>3, <1>4 DEF Control, flags
<1>9. Deadlines'
  BY <1>0, <1>1, <1>2, <1>4 DEF Deadlines
<1>. QED BY <1>5, <1>6, <1>7, <1>8, <1>9 DEF IInv

(* A CANCELLED callback returns and its handle is freed. *)
LEMMA CancelReturnStep == ASSUME IInv, CancelReturn PROVE IInv'
<1>. USE Constants
<1>0. TypeOK /\ LinkExclusive /\ NoDangling /\ Owned /\ Control /\ CallersDistinct /\ Deadlines
  BY DEF IInv
<1>. DEFINE h == cancelling
<1>1. /\ h # NULL /\ cancelling' = NULL /\ pc = "user"
      /\ pc' = (IF finalized THEN "final" ELSE "install")
      /\ alloc' = alloc \ {h} /\ hs' = [hs EXCEPT ![h] = Blank]
      /\ UNCHANGED <<fdmon, timer, ready, async, interest, caller, notifying, cur, flags>>
  BY DEF CancelReturn, Free, lists
<1>2. h \in Handles /\ h \in Busy
  BY <1>0, <1>1 DEF TypeOK, Busy
<1>3. h \notin Linked /\ h \notin Held /\ notifying # h
  BY <1>0, <1>1, <1>2 DEF NoDangling, CallersDistinct, Control
<1>4. Linked' = Linked /\ Held' = Held /\ Busy' = Busy \ {h}
  BY <1>1, <1>3 DEF Linked, Held, Busy
<1>5. TypeOK'
  BY <1>0, <1>1, <1>2 DEF CancelReturn, TypeOK, flags, Pcs
<1>6. LinkExclusive' /\ NoDangling' /\ Owned' /\ CallersDistinct'
  BY <1>0, <1>1, <1>2, <1>3, <1>4 DEF LinkExclusive, NoDangling, Owned, CallersDistinct
<1>7. Control'
  BY <1>0, <1>1, <1>4 DEF Control, flags
<1>8. Deadlines'
  <2>1. \A x \in alloc' : x \in alloc /\ x # h /\ x \in Handles /\ hs'[x] = hs[x]
    BY <1>0, <1>1 DEF TypeOK
  <2>2. Elems(async') \cup Held' \subseteq alloc' /\ Elems(timer') \subseteq alloc'
    BY <1>6 DEF NoDangling, Linked
  <2>. QED BY <1>0, <1>1, <1>4, <2>1, <2>2 DEF Deadlines
<1>. QED BY <1>5, <1>6, <1>7, <1>8 DEF IInv

(* evb2_finalize closes the descriptors; then the context is freed. *)
LEMMA CloseSteps == ASSUME IInv, FinalizeClose \/ FreeCtx PROVE IInv'
<1>. USE Constants
<1>0. TypeOK /\ LinkExclusive /\ NoDangling /\ Owned /\ Control /\ CallersDistinct /\ Deadlines
  BY DEF IInv
<1>1. UNCHANGED held
  BY DEF FinalizeClose, FreeCtx, held, lists
<1>2. CASE FinalizeClose
  <2>1. TypeOK'
    BY <1>0, <1>2 DEF FinalizeClose, NoEvents, TypeOK, Pcs, lists, flags
  <2>2. fdmon = <<>> /\ timer = <<>> /\ ready = <<>> /\ async = <<>>
    BY <1>2 DEF FinalizeClose, FinalList
  <2>3. Control'
    BY <1>0, <1>2, <2>2 DEF FinalizeClose, Control, Held, lists, flags
  <2>. QED BY <1>1, <2>1, <2>3, HeldSame DEF IInv
<1>3. CASE FreeCtx
  <2>1. TypeOK'
    BY <1>0, <1>3 DEF FreeCtx, TypeOK, Pcs, lists, flags
  <2>2. Held' = {}
    BY <1>3 DEF FreeCtx, Held
  <2>3. Control'
    BY <1>0, <1>3, <2>2 DEF FreeCtx, Control, lists, flags
  <2>. QED BY <1>1, <2>1, <2>3, HeldSame DEF IInv
<1>. QED BY <1>2, <1>3

(* Another thread fills a record, not yet known to the loop. *)
LEMMA ThreadAllocStep ==
  ASSUME IInv, TimeoutsFit, NEW t \in Thread, NEW h \in Handle, NEW ms \in Timeouts,
         ThreadAlloc(t, h, ms)
  PROVE  IInv'
<1>. USE Constants
<1>0. TypeOK /\ LinkExclusive /\ NoDangling /\ Owned /\ Control /\ CallersDistinct /\ Deadlines
  BY DEF IInv
<1>1. /\ h \notin alloc /\ h \in Handles /\ h \notin Linked \cup Held \cup Busy
      /\ alloc' = alloc \cup {h} /\ hs' \in [Handles -> Record]
      /\ hs'[h].fd = TimerFd /\ hs'[h].timeout_ms \in Timeouts
      /\ hs'[h].timeout_at < UINT64_MAX
      /\ \A x \in Handles : x # h => hs'[x] = hs[x]
  BY OneshotProp DEF ThreadAlloc
<1>2. /\ UNCHANGED <<fdmon, timer, ready, async, interest, notifying, cancelling, cur, flags, pc>>
      /\ caller' = [caller EXCEPT ![t] = h] /\ caller[t] = NULL /\ pc # "gone"
      /\ caller' \in [Thread -> Handle \cup {NULL}]
  BY <1>0 DEF ThreadAlloc, lists, TypeOK
<1>3. Linked' = Linked /\ Busy' = Busy
  BY <1>2 DEF Linked, Busy
<1>4. Held' = Held \cup {h} /\ h # NULL
  BY <1>0, <1>1, <1>2 DEF Held, TypeOK
<1>5. TypeOK'
  BY <1>0, <1>1, <1>2 DEF ThreadAlloc, TypeOK, flags
<1>6. LinkExclusive' /\ NoDangling' /\ Owned'
  BY <1>0, <1>1, <1>2, <1>3, <1>4 DEF LinkExclusive, NoDangling, Owned
<1>7. CallersDistinct'
  <2>1. \A u \in Thread : caller[u] # h
    BY <1>1 , <1>4 DEF Held
  <2>. QED BY <1>0, <1>1, <1>2, <1>3, <1>4, <2>1 DEF CallersDistinct, TypeOK
<1>8. Control'
  BY <1>0, <1>2, <1>3 DEF Control, flags
<1>9. Deadlines'
  <2>1. alloc \subseteq Handles /\ Elems(async) \cup Held \subseteq alloc /\ Elems(timer) \subseteq alloc
    BY <1>0 DEF NoDangling, Linked, TypeOK
  <2>. QED BY <1>0, <1>1, <1>2, <1>4, <2>1 DEF Deadlines
<1>. QED BY <1>5, <1>6, <1>7, <1>8, <1>9 DEF IInv

(* Its critical section: the timer is queued, or dropped when stopping. *)
LEMMA ThreadEnqueueStep == ASSUME IInv, NEW t \in Thread, ThreadEnqueue(t) PROVE IInv'
<1>. USE Constants
<1>0. TypeOK /\ LinkExclusive /\ NoDangling /\ Owned /\ Control /\ CallersDistinct /\ Deadlines
  BY DEF IInv
<1>. DEFINE h == caller[t]
<1>1. /\ h # NULL /\ h \in Handles /\ h \in Held /\ h \in alloc
      /\ h \notin Linked /\ h \notin Busy
  <2>1. h # NULL /\ h \in Held /\ h \in Handles
    BY <1>0 DEF ThreadEnqueue, Held, TypeOK
  <2>. QED BY <1>0, <2>1 DEF NoDangling, CallersDistinct
<1>2. /\ UNCHANGED <<fdmon, timer, ready, interest, notifying, cancelling, cur, flags, pc>>
      /\ caller' = [caller EXCEPT ![t] = NULL]
      /\ caller' \in [Thread -> Handle \cup {NULL}]
  BY <1>0 DEF ThreadEnqueue, TypeOK
<1>3. Held' = Held \ {h} /\ Busy' = Busy
  <2>1. Busy' = Busy
    BY <1>2 DEF Busy
  <2>2. \A u \in Thread : u # t => caller[u] # h
    BY <1>0, <1>1 DEF CallersDistinct
  <2>. QED BY <1>0, <1>1, <1>2, <2>1, <2>2 DEF Held, TypeOK
<1>4. CallersDistinct'
  BY <1>0, <1>1, <1>2, <1>3 DEF CallersDistinct, TypeOK
<1>5. CASE stopping \/ finalized
  <2>1. /\ alloc' = alloc \ {h} /\ hs' = [hs EXCEPT ![h] = Blank] /\ async' = async
        /\ pipe' = pipe
    BY <1>5 DEF ThreadEnqueue, Free
  <2>. HIDE DEF h
  <2>2. Linked' = Linked
    BY <1>2, <2>1 DEF Linked
  <2>3. TypeOK'
    BY <1>0, <1>1, <1>2, <2>1 DEF ThreadEnqueue, TypeOK, flags
  <2>4. LinkExclusive' /\ NoDangling' /\ Owned'
    BY <1>0, <1>1, <1>2, <1>3, <2>1, <2>2 DEF LinkExclusive, NoDangling, Owned
  <2>5. Control'
    BY <1>0, <1>2, <1>3, <2>1 DEF Control, flags
  <2>6. Deadlines'
    <3>1. \A x \in alloc' : x \in alloc /\ x # h /\ x \in Handles /\ hs'[x] = hs[x]
      BY <1>0, <2>1 DEF TypeOK
    <3>2. Elems(async') \cup Held' \subseteq alloc' /\ Elems(timer') \subseteq alloc'
      BY <2>4 DEF NoDangling, Linked
    <3>. QED BY <1>0, <1>2, <1>3, <2>1, <3>1, <3>2 DEF Deadlines
  <2>. QED BY <1>4, <2>3, <2>4, <2>5, <2>6 DEF IInv
<1>6. CASE ~(stopping \/ finalized)
  <2>1. /\ alloc' = alloc /\ hs' = hs /\ async' = Append(async, h)
        /\ pipe' = evb2_wake(pipe)
    BY <1>6 DEF ThreadEnqueue
  <2>. HIDE DEF h
  <2>2. /\ async' \in Seq(Handles) /\ NoDup(async') /\ Elems(async') = Elems(async) \cup {h}
    BY <1>1, <2>1, ListFacts, AppendProp DEF Linked
  <2>3. Linked' = Linked \cup {h}
    BY <1>2, <2>2 DEF Linked
  <2>4. TypeOK'
    BY <1>0, <1>1, <1>2, <2>1, <2>2 DEF ThreadEnqueue, TypeOK, flags, evb2_wake
  <2>5. LinkExclusive' /\ NoDangling' /\ Owned'
    <3>1. /\ h \notin Elems(fdmon) /\ h \notin Elems(timer) /\ h \notin Elems(ready)
      BY <1>1 DEF Linked
    <3>. QED BY <1>0, <1>1, <1>2, <1>3, <2>1, <2>2, <2>3, <3>1 DEF LinkExclusive, NoDangling, Owned
  <2>6. Control'
    <3>1. pc \notin {"gone", "closed"}
      BY <1>0, <1>1, <1>6 DEF Control
    <3>. QED BY <1>0, <1>2, <1>3, <3>1 DEF Control, flags
  <2>7. Deadlines'
    BY <1>0, <1>1, <1>2, <1>3, <2>1, <2>2 DEF Deadlines
  <2>. QED BY <1>4, <2>4, <2>5, <2>6, <2>7 DEF IInv
<1>. QED BY <1>5, <1>6
-----------------------------------------------------------------------------
(* The scan reports flags a callback may receive. *)
LEMMA NotiType == ASSUME NEW h, NEW e PROVE Noti(h, e) \subseteq NotiFlag
BY DEF Noti, from_epoll, NotiFlag, ReqFlag

(* The loop's own steps. *)
LEMMA LoopStep == ASSUME IInv, TimeoutsFit, Loop PROVE IInv'
<1>. USE Constants
<1>0. TypeOK /\ LinkExclusive /\ Control
  BY DEF IInv
<1>1. CASE CancelFdStep
  <2>1. PICK h \in OnFd(cur) : Unlink(h)
    BY <1>1 DEF CancelFdStep
  <2>2. h \notin Elems(async)
    BY <1>0, <2>1 DEF OnFd, LinkExclusive
  <2>. QED BY <1>1, <2>1, <2>2, UnlinkStep DEF CancelFdStep
<1>2. CASE \E f \in Fds : ScanHit(f)
  <2>1. PICK f \in Fds : ScanHit(f)
    BY <1>2
  <2>2. PICK i \in Hits(f) : ToReady(fdmon[i], Noti(fdmon[i], evs[f]))
    BY <2>1 DEF ScanHit
  <2>3. fdmon[i] \in Elems(fdmon)
    BY <2>2 DEF Hits, Elems
  <2>4. pc \in {"scan", "expire"} /\ cur' \in Fds \cup {NULL}
    BY <2>1 DEF ScanHit
  <2>5. UNCHANGED <<alloc, async, pipe, now, tnow, deadline, evs,
                    notifying, cancelling, flags, pc, caller>>
    BY <2>1 DEF ScanHit
  <2>. QED BY <2>2, <2>3, <2>4, <2>5, NotiType, ToReadyStep
<1>3. CASE Expire
  <2>1. Head(timer) \in Elems(timer)
    BY <1>3, ListFacts, PopProp DEF Expire, Due
  <2>2. {"TIMEOUT"} \subseteq NotiFlag
    BY DEF NotiFlag
  <2>3. cur' \in Fds \cup {NULL}
    BY <1>0, <1>3 DEF Expire, TypeOK
  <2>. QED BY <1>3, <2>1, <2>2, <2>3, ToReadyStep DEF Expire
<1>4. CASE EventReturn
  BY <1>4, AfterCallbackStep DEF EventReturn
<1>5. CASE InstallDone
  <2>1. CASE notifying = NULL
    <3>1. UNCHANGED held
      BY <1>5, <2>1 DEF InstallDone, held, lists
    <3>2. TypeOK'
      BY <1>0, <1>5, <2>1 DEF InstallDone, TypeOK, Pcs, flags
    <3>3. Control'
      BY <1>0, <1>5, <2>1 DEF InstallDone, Control, Held, flags
    <3>. QED BY <3>1, <3>2, <3>3, HeldSame DEF IInv
  <2>2. CASE notifying # NULL
    <3>1. cancelling = NULL
      BY <1>0, <1>5 DEF InstallDone, Control
    <3>. QED BY <1>5, <2>2, <3>1, AfterCallbackStep DEF InstallDone
  <2>. QED BY <2>1, <2>2
<1>6. CASE InstallOne \/ Dispatch \/ FinalizeOne \/ FinalizeAsync \/ CancelReturn
  BY <1>6, InstallOneStep, DispatchStep, FinalizeOneStep, FinalizeAsyncStep, CancelReturnStep
<1>7. CASE FinalizeClose \/ FreeCtx
  BY <1>7, CloseSteps
<1>8. CASE \/ InstallLock \/ ScanDone \/ ExpireDone \/ DispatchDone \/ CancelFdDone
           \/ \E ut \in Timeouts \cup {INFINITE} : Poll(ut)
           \/ \E f \in Fds : ScanNext(f)
  BY <1>8, QuietSteps
<1>. QED BY <1>1, <1>2, <1>3, <1>4, <1>5, <1>6, <1>7, <1>8 DEF Loop

(* The application's calls. *)
LEMMA ApiStep == ASSUME IInv, TimeoutsFit, Api PROVE IInv'
<1>1. CASE \E h \in Handle, f \in Fd \cup {TimerFd}, req \in Requests \cup {{}},
             ms \in Timeouts \cup {INFINITE}, one \in BOOLEAN : AddFd(h, f, req, ms, one)
  BY <1>1, AddFdStep
<1>2. CASE \E h \in Handle, ms \in Timeouts : AddOneshotTimer(h, ms)
  BY <1>2, AddOneshotStep
<1>3. CASE \E h \in Handle : CancelSelf(h)
  BY <1>3, CancelSelfStep
<1>4. CASE \E h \in Handle : CancelAsync(h)
  BY <1>4, CancelAsyncStep
<1>5. CASE \E h \in Handle : Cancel(h)
  <2>1. PICK h \in Handle : Cancel(h)
    BY <1>5
  <2>2. h \notin Elems(async) /\ Unlink(h)
    BY <2>1, ContainsElems DEF Cancel
  <2>3. UNCHANGED <<async, pipe, now, tnow, deadline, evs, cur,
                    notifying, cancelling, flags, pc, caller>>
    BY <2>1 DEF Cancel
  <2>. QED BY <2>2, <2>3, UnlinkStep
<1>6. CASE \E h \in Handle, ms \in Timeouts \cup {INFINITE} : SetTimeout(h, ms)
  BY <1>6, SetTimeoutStep
<1>7. CASE Destroy \/ \E f \in Fd : CancelFd(f)
  BY <1>7, QuietSteps
<1>. QED BY <1>1, <1>2, <1>3, <1>4, <1>5, <1>6, <1>7 DEF Api

(* IInv is inductive. *)
LEMMA NextIInv == ASSUME IInv, TimeoutsFit, [Next]_vars PROVE IInv'
<1>1. CASE Create
  BY <1>1, CreateStep
<1>2. CASE RunOnce \/ Epoll \/ EpollError \/ Tick
  BY <1>2, QuietSteps DEF Epoll
<1>3. CASE Api
  BY <1>3, ApiStep
<1>4. CASE Loop
  BY <1>4, LoopStep
<1>5. CASE Threads
  BY <1>5, ThreadAllocStep, ThreadEnqueueStep DEF Threads
<1>6. CASE UNCHANGED vars
  <2>1. UNCHANGED held
    BY <1>6 DEF vars, held, lists
  <2>2. TypeOK'
    BY <1>6 DEF IInv, TypeOK, vars, lists, flags
  <2>3. Control'
    BY <1>6 DEF IInv, Control, Held, vars, lists, flags
  <2>. QED BY <2>1, <2>2, <2>3, HeldSame DEF IInv
<1>. QED BY <1>1, <1>2, <1>3, <1>4, <1>5, <1>6 DEF Next

(* Every reachable state of the loop, whatever the application and the     *)
(* other threads do, satisfies the inductive invariant.                    *)
THEOREM Inductive == ASSUME TimeoutsFit PROVE Spec => []IInv
BY InitIInv, NextIInv, PTL DEF Spec

(* Type correctness of the loop's state; in particular the wake pipe never *)
(* holds more than its capacity and no deadline exceeds 64 bits.           *)
THEOREM Typing == ASSUME TimeoutsFit PROVE Spec => []TypeOK
<1>1. IInv => TypeOK
  BY DEF IInv
<1>. QED BY <1>1, Inductive, PTL

(* The link shared by fdmon_list, ready_list and async_list is used by one *)
(* list at a time: no call or callback order corrupts the lists.           *)
THEOREM ListsDisjoint == ASSUME TimeoutsFit PROVE Spec => []LinkExclusive
<1>1. IInv => LinkExclusive
  BY DEF IInv
<1>. QED BY <1>1, Inductive, PTL

(* No use after free: nothing the loop or a thread can follow leads to a   *)
(* freed handle, and a handle freed after its callback is on no list.      *)
THEOREM Safe == ASSUME TimeoutsFit PROVE Spec => []NoDangling
<1>1. IInv => NoDangling
  BY DEF IInv
<1>. QED BY <1>1, Inductive, PTL

(* No handle is lost: each one is on a list, in a callback or in the hands *)
(* of the thread that creates it, and none outlives its context.           *)
THEOREM NothingLost == ASSUME TimeoutsFit PROVE Spec => []NoLeak
<1>1. ASSUME IInv PROVE NoLeak
  <2>1. Owned /\ Control
    BY <1>1 DEF IInv
  <2>2. ASSUME pc = "gone" PROVE alloc = {}
    <3>1. Busy = {} /\ Held = {}
      BY <2>1, <2>2 DEF Control, Busy
    <3>2. Linked = {}
      <4>1. Elems(<<>>) = {}
        BY EmptySeq DEF Elems
      <4>. QED BY <2>1, <2>2, <4>1 DEF Control, Linked
    <3>. QED BY <2>1, <3>1, <3>2 DEF Owned
  <2>. QED BY <2>1, <2>2 DEF NoLeak, Owned
<1>. QED BY <1>1, Inductive, PTL
-----------------------------------------------------------------------------
(* Sleeping and waking.  These parts are invariant given IInv. *)

(* Where the loop thread is while handles wait for dispatch, during        *)
(* run_once and after destroy was called.                                  *)
Running ==
  /\ ready # <<>> => pc \in {"scan", "expire", "dispatch"} \/ notifying # NULL
  /\ in_run /\ pc \in {"user", "cancelfd"} => notifying # NULL \/ cancelling # NULL
  /\ stopping /\ ~finalized => notifying # NULL \/ pc = "dispatch"
  /\ pc = "gone" => ~finalized /\ ~stopping /\ ~in_run

(* A queued timer has a byte in the pipe, or the loop is on its way to it. *)
Queued == async # <<>> => pipe > 0 \/ pc \in {"lock", "install"} \/ cancelling # NULL \/ finalized

(* Removing from an empty list. *)
LEMMA RemoveEmpty == ASSUME NEW e PROVE qent_remove(<<>>, e) = <<>>
BY EmptySeq DEF qent_remove, qent_contains

(* What the steps of the loop do to the lists' emptiness. *)
LEMMA RunningStep ==
  ASSUME TimeoutsFit, IInv, Running, Queued, [Next]_vars
  PROVE  Running' /\ Queued'
<1>. USE Constants
<1>0. TypeOK /\ Control /\ Deadlines
  BY DEF IInv
<1>1. CASE Create
  BY <1>0, <1>1 DEF Create, Control, Running, Queued, lists, flags
<1>2. CASE RunOnce \/ Destroy \/ Tick
  <2>1. Destroy => pipe' > 0
    BY <1>0 DEF Destroy, evb2_wake, TypeOK
  <2>2. CASE RunOnce
    BY <1>0, <2>2 DEF RunOnce, UserCode, Control, Running, Queued, lists, flags
  <2>3. CASE Destroy
    <3>1. UNCHANGED <<ready, async, notifying, cancelling>> /\ pc = "user" /\ stopping' /\ in_run'
      BY <2>3 DEF Destroy, UserCode, lists
    <3>2. CASE in_run
      <4>1. pc' = pc /\ (finalized' <=> finalized)
        BY <2>3, <3>2 DEF Destroy
      <4>. QED BY <1>0, <2>1, <2>3, <3>1, <3>2, <4>1 DEF Control, Running, Queued
    <3>3. CASE ~in_run
      <4>1. pc' = "final" /\ finalized'
        BY <2>3, <3>3 DEF Destroy
      <4>. QED BY <3>1, <4>1 DEF Running, Queued
    <3>. QED BY <3>2, <3>3
  <2>4. CASE Tick
    BY <1>0, <2>4 DEF Tick, Control, Running, Queued, lists, flags
  <2>. QED BY <1>2, <2>2, <2>3, <2>4
<1>3. CASE EpollError \/ EpollTimeout \/ \E e \in [Fds -> Masks \cup {{}}] : EpollEvents(e)
  BY <1>0, <1>3 DEF EpollError, RunLeave, EpollTimeout, EpollEvents, Control, Running, Queued, lists, flags
<1>4. CASE \E h \in Handle, f \in Fd \cup {TimerFd}, req \in Requests \cup {{}},
             ms \in Timeouts \cup {INFINITE}, one \in BOOLEAN : AddFd(h, f, req, ms, one)
  <2>1. UNCHANGED <<ready, async, pipe, notifying, cancelling, flags, pc>>
    BY <1>4 DEF AddFd
  <2>. QED BY <2>1 DEF Running, Queued, flags
<1>5. CASE \E h \in Handle, ms \in Timeouts : AddOneshotTimer(h, ms)
  <2>1. UNCHANGED <<ready, notifying, cancelling, flags, pc>> /\ pipe' = evb2_wake(pipe)
    BY <1>5 DEF AddOneshotTimer
  <2>2. pipe' > 0
    BY <1>0, <2>1 DEF evb2_wake, TypeOK
  <2>. QED BY <2>1, <2>2 DEF Running, Queued, flags
<1>6. CASE \E h \in Handle : CancelAsync(h)
  <2>1. UNCHANGED <<ready, pipe, notifying, cancelling, flags, pc>>
    BY <1>6 DEF CancelAsync
  <2>2. async = <<>> => async' = <<>>
    BY <1>6, RemoveEmpty DEF CancelAsync
  <2>. QED BY <2>1, <2>2 DEF Running, Queued, flags
<1>7. CASE (\E h \in Handle : Cancel(h)) \/ CancelFdStep
  <2>1. UNCHANGED <<async, pipe, notifying, cancelling, flags, pc>>
    BY <1>7 DEF Cancel, CancelFdStep
  <2>2. ready = <<>> => ready' = <<>>
    BY <1>7, RemoveEmpty DEF Cancel, CancelFdStep, Unlink
  <2>. QED BY <2>1, <2>2 DEF Running, Queued, flags
<1>8. CASE \/ \E h \in Handle : CancelSelf(h)
           \/ \E h \in Handle, ms \in Timeouts \cup {INFINITE} : SetTimeout(h, ms)
           \/ UNCHANGED vars
  <2>1. UNCHANGED <<ready, async, pipe, notifying, cancelling, flags, pc>>
    BY <1>8 DEF CancelSelf, SetTimeout, lists, vars
  <2>. QED BY <2>1 DEF Running, Queued, flags
<1>9. CASE CancelFdDone \/ \E f \in Fd : CancelFd(f)
  BY <1>0, <1>9 DEF CancelFd, CancelFdDone, UserCode, Control, Running, Queued, lists, flags
<1>10. CASE InstallLock \/ InstallOne
  <2>1. CASE InstallLock
    BY <1>0, <2>1 DEF InstallLock, Control, Running, Queued, lists, flags
  <2>2. CASE InstallOne
    <3>1. Head(async) \in Handles
      BY <1>0, <2>2, HeadTailProperties DEF InstallOne, TypeOK
    <3>2. /\ UNCHANGED <<ready, notifying, flags>>
          /\ pc = "install" /\ (pc' = "install" \/ (pc' = "user" /\ cancelling' # NULL))
      BY <2>2, <3>1 DEF InstallOne
    <3>. QED BY <1>0, <3>2 DEF Control, Running, Queued, flags
  <2>. QED BY <1>10, <2>1, <2>2
<1>11. CASE InstallDone \/ EventReturn
  <2>1. /\ UNCHANGED <<ready, async, pipe, cancelling, flags>>
        /\ \/ pc' = "poll" /\ notifying = NULL /\ notifying' = NULL /\ pc = "install" /\ async = <<>>
           \/ pc' = "dispatch" /\ notifying # NULL /\ notifying' = NULL
        /\ pc = "install" => async = <<>>
    BY <1>11 DEF InstallDone, EventReturn, AfterCallback
  <2>2. pc = "user" => cancelling = NULL
    BY <1>11 DEF InstallDone, EventReturn
  <2>3. pc \in {"install", "user"}
    BY <1>11 DEF InstallDone, EventReturn
  <2>. QED BY <1>0, <2>1, <2>2, <2>3 DEF Control, Running, Queued, flags
<1>12. CASE \E ut \in Timeouts \cup {INFINITE} : Poll(ut)
  BY <1>0, <1>12 DEF Poll, Control, Running, Queued, lists, flags
<1>13. CASE Expire \/ \E f \in Fds : ScanHit(f)
  <2>1. UNCHANGED <<async, pipe, notifying, cancelling, flags, pc>> /\ pc \in {"scan", "expire"}
    BY <1>13 DEF Expire, ScanHit
  <2>. QED BY <2>1 DEF Running, Queued, flags
<1>14. CASE ScanDone \/ ExpireDone \/ \E f \in Fds : ScanNext(f)
  BY <1>0, <1>14 DEF ScanDone, ExpireDone, ScanNext, Control, Running, Queued, lists, flags
<1>15. CASE Dispatch
  <2>1. Head(ready) \in Handles
    BY <1>0, <1>15, HeadTailProperties DEF Dispatch, TypeOK
  <2>2. notifying' # NULL /\ UNCHANGED <<async, cancelling, flags>> /\ pc' \in {"lock", "user"}
    BY <1>15, <2>1 DEF Dispatch
  <2>3. pc' = "lock" \/ pipe' = pipe
    BY <1>15 DEF Dispatch
  <2>4. pc = "dispatch"
    BY <1>15 DEF Dispatch
  <2>. QED BY <2>2, <2>3, <2>4 DEF Running, Queued, flags
<1>16. CASE DispatchDone
  BY <1>0, <1>16 DEF DispatchDone, RunLeave, Control, Running, Queued, lists, flags
<1>17. CASE FinalizeOne \/ FinalizeAsync \/ CancelReturn
  <2>1. CASE FinalizeOne \/ FinalizeAsync
    <3>1. ready = <<>> => ready' = <<>>
      BY <2>1, RemoveEmpty DEF FinalizeOne, FinalizeAsync
    <3>2. UNCHANGED <<notifying, flags>> /\ pc = "final" /\ pc' = "user"
      BY <2>1 DEF FinalizeOne, FinalizeAsync
    <3>3. cancelling' # NULL
      <4>1. FinalList \in Seq(Handles) /\ async \in Seq(Handles)
        BY <1>0 DEF FinalList, TypeOK
      <4>. QED BY <2>1, <4>1, HeadTailProperties DEF FinalizeOne, FinalizeAsync
    <3>. QED BY <1>0, <3>1, <3>2, <3>3 DEF Control, Running, Queued, flags
  <2>2. CASE CancelReturn
    BY <1>0, <2>2 DEF CancelReturn, Control, Running, Queued, lists, flags
  <2>. QED BY <1>17, <2>1, <2>2
<1>18. CASE FinalizeClose \/ FreeCtx
  BY <1>0, <1>18 DEF FinalizeClose, FreeCtx, Control, Running, Queued, lists, flags
<1>19. CASE \E t \in Thread, h \in Handle, ms \in Timeouts : ThreadAlloc(t, h, ms)
  BY <1>19 DEF ThreadAlloc, Running, Queued, lists, flags
<1>20. CASE \E t \in Thread : ThreadEnqueue(t)
  <2>1. /\ UNCHANGED <<ready, notifying, cancelling, flags, pc>>
        /\ (UNCHANGED <<async, pipe>> \/ pipe' = evb2_wake(pipe))
    BY <1>20 DEF ThreadEnqueue
  <2>2. evb2_wake(pipe) > 0
    BY <1>0 DEF evb2_wake, TypeOK
  <2>. QED BY <2>1, <2>2 DEF Running, Queued, flags
<1>. QED BY <1>1, <1>2, <1>3, <1>4, <1>5, <1>6, <1>7, <1>8, <1>9, <1>10, <1>11, <1>12, <1>13,
            <1>14, <1>15, <1>16, <1>17, <1>18, <1>19, <1>20
     DEF Next, Api, Epoll, Loop, Threads

(* Deadlines never decrease along timer_list. *)
TimerSorted == SortedBy(timer, At(hs))

(* timer_list stays sorted when a step changes the deadline of one handle  *)
(* at most and takes that handle off the list or puts it at its place.     *)
LEMMA SortedLists ==
  ASSUME IInv, hs' \in [Handles -> Record], TimerSorted, NEW h,
         \A x \in Handles \ {h} : hs'[x].timeout_at = hs[x].timeout_at
  PROVE  /\ SortedBy(qent_remove(timer, h), At(hs'))
         /\ h \in Handles => SortedBy(TimerSet(timer, hs', h), At(hs'))
         /\ h \notin Elems(timer) => SortedBy(timer, At(hs'))
         /\ h \in Handles /\ h \notin Elems(timer) =>
              SortedBy(timer_insert(timer, At(hs'), h), At(hs'))
<1>1. /\ timer \in Seq(Handles) /\ NoDup(timer) /\ UINT64_MAX \in Nat
      /\ hs \in [Handles -> Record]
  BY Constants, ListFacts DEF IInv, TypeOK
<1>2. At(hs) \in [Handles -> Int] /\ At(hs') \in [Handles -> Int]
  BY <1>1 DEF At, Record
<1>3. ASSUME NEW s \in Seq(Handles), h \notin Elems(s), SortedBy(s, At(hs)) PROVE SortedBy(s, At(hs'))
  <2>1. \A i \in 1 .. Len(s) : s[i] \in Handles /\ s[i] # h
    BY <1>3, ElementOfSeq DEF Elems
  <2>2. \A i \in 1 .. Len(s) : At(hs')[s[i]] = At(hs)[s[i]]
    BY <2>1 DEF At
  <2>. QED BY <1>3, <2>2 DEF SortedBy
<1>. DEFINE s == qent_remove(timer, h)
<1>4. s \in Seq(Handles) /\ h \notin Elems(s) /\ SortedBy(s, At(hs))
  BY <1>1, <1>2, RemoveProp, RemoveSorted DEF TimerSorted
<1>. HIDE DEF s
<1>5. SortedBy(s, At(hs'))
  BY <1>3, <1>4
<1>6. h \in Handles => SortedBy(timer_insert(s, At(hs'), h), At(hs'))
  BY <1>2, <1>4, <1>5, InsertSorted
<1>7. h \notin Elems(timer) => SortedBy(timer, At(hs'))
  BY <1>1, <1>3 DEF TimerSorted
<1>8. h \in Handles /\ h \notin Elems(timer) => SortedBy(timer_insert(timer, At(hs'), h), At(hs'))
  BY <1>1, <1>2, <1>7, InsertSorted
<1>. QED BY <1>5, <1>6, <1>7, <1>8 DEF TimerSet, s

(* A callback's end: released or re-armed, timer_list stays sorted. *)
LEMMA SortedCallback ==
  ASSUME IInv, hs' \in [Handles -> Record], TimerSorted, notifying # NULL, AfterCallback(notifying)
  PROVE  TimerSorted'
<1>1. notifying \in Handles /\ notifying \notin Elems(timer) /\ hs \in [Handles -> Record]
  BY DEF IInv, TypeOK, NoDangling, Busy, Linked
<1>2. CASE stopping \/ hs[notifying].dead \/ hs[notifying].oneshot
  <2>1. hs' = [hs EXCEPT ![notifying] = Blank] /\ timer' = timer
    BY <1>2 DEF AfterCallback, Free
  <2>2. \A x \in Handles \ {notifying} : hs'[x].timeout_at = hs[x].timeout_at
    BY <1>1, <2>1
  <2>. QED BY <1>1, <2>1, <2>2, SortedLists DEF TimerSorted
<1>3. CASE ~(stopping \/ hs[notifying].dead \/ hs[notifying].oneshot)
  <2>1. Rearm(notifying)
    BY <1>3 DEF AfterCallback
  <2>2. \A x \in Handles \ {notifying} : hs'[x].timeout_at = hs[x].timeout_at
    BY <1>1, <2>1 DEF Rearm
  <2>3. SortedBy(TimerSet(timer, hs', notifying), At(hs'))
    BY <1>1, <2>2, SortedLists
  <2>. QED BY <2>1, <2>3 DEF TimerSorted, Rearm
<1>. QED BY <1>2, <1>3

(* timer_list stays sorted by deadline: only unlinked or re-inserted       *)
(* handles change theirs.                                                  *)
LEMMA SortedStep ==
  ASSUME IInv, IInv', TimerSorted, [Next]_vars PROVE TimerSorted'
<1>. USE Constants
<1>0. /\ hs \in [Handles -> Record] /\ hs' \in [Handles -> Record]
      /\ LinkExclusive /\ NoDangling /\ Control /\ alloc \subseteq Handles
      /\ Elems(timer) \subseteq alloc /\ Elems(timer) \cap Elems(async) = {}
      /\ Elems(timer) \cap (Held \cup Busy) = {}
  BY DEF IInv, TypeOK, NoDangling, Linked, LinkExclusive
<1>1. ASSUME UNCHANGED <<hs, timer>> PROVE TimerSorted'
  BY <1>1 DEF TimerSorted, At
<1>2. ASSUME NEW h, h \notin Elems(timer), NEW r, hs' = [hs EXCEPT ![h] = r], timer' = timer
      PROVE  TimerSorted'
  <2>1. \A x \in Handles \ {h} : hs'[x].timeout_at = hs[x].timeout_at
    BY <1>0, <1>2
  <2>. QED BY <1>0, <1>2, <2>1, SortedLists DEF TimerSorted
<1>3. ASSUME NEW h, \A x \in Handles \ {h} : hs'[x].timeout_at = hs[x].timeout_at,
             timer' = qent_remove(timer, h)
      PROVE  TimerSorted'
  BY <1>0, <1>3, SortedLists DEF TimerSorted
<1>4. CASE Create
  <2>1. timer = <<>> /\ timer' = timer
    BY <1>0, <1>4 DEF Create, Control
  <2>. QED BY <2>1 DEF TimerSorted, SortedBy
<1>5. CASE \/ RunOnce \/ Destroy \/ Tick \/ EpollError \/ Epoll \/ CancelFdDone \/ InstallLock
           \/ \E f \in Fd : CancelFd(f)
           \/ \E ut \in Timeouts \cup {INFINITE} : Poll(ut)
           \/ \E f \in Fds : ScanNext(f)
           \/ ScanDone \/ ExpireDone \/ Dispatch \/ DispatchDone \/ FinalizeAsync \/ FinalizeClose
           \/ FreeCtx \/ UNCHANGED vars
  <2>1. UNCHANGED <<hs, timer>>
    BY <1>5 DEF RunOnce, Destroy, Tick, EpollError, Epoll, EpollEvents, EpollTimeout, CancelFdDone,
      InstallLock, CancelFd, Poll, ScanNext, ScanDone, ExpireDone, Dispatch, DispatchDone,
      FinalizeAsync, FinalizeClose, FreeCtx, lists, vars
  <2>. QED BY <1>1, <2>1
<1>6. CASE \E h \in Handle, f \in Fd \cup {TimerFd}, req \in Requests \cup {{}},
             ms \in Timeouts \cup {INFINITE}, one \in BOOLEAN : AddFd(h, f, req, ms, one)
  <2>1. PICK h \in Handle, f \in Fd \cup {TimerFd}, req \in Requests \cup {{}},
             ms \in Timeouts \cup {INFINITE}, one \in BOOLEAN : AddFd(h, f, req, ms, one)
    BY <1>6
  <2>2. h \notin Elems(timer) /\ h \in Handles
    BY <1>0, <2>1 DEF AddFd
  <2>3. \A x \in Handles \ {h} : hs'[x].timeout_at = hs[x].timeout_at
    BY <1>0, <2>1 DEF AddFd
  <2>4. timer' = timer \/ timer' = timer_insert(timer, At(hs'), h)
    BY <2>1 DEF AddFd
  <2>. QED BY <1>0, <2>2, <2>3, <2>4, SortedLists DEF TimerSorted
<1>7. CASE \/ \E h \in Handle, ms \in Timeouts : AddOneshotTimer(h, ms)
           \/ \E t \in Thread, h \in Handle, ms \in Timeouts : ThreadAlloc(t, h, ms)
  <2>1. PICK h \in Handle, ms \in Timeouts : OneshotTimer(h, ms) /\ timer' = timer
    BY <1>7 DEF AddOneshotTimer, ThreadAlloc, lists
  <2>2. h \notin Elems(timer)
    BY <1>0, <2>1 DEF OneshotTimer
  <2>. QED BY <1>2, <2>1, <2>2 DEF OneshotTimer
<1>8. CASE \E h \in Handle : CancelSelf(h)
  <2>1. PICK h \in Handle : notifying = h /\ hs' = [hs EXCEPT ![h].dead = TRUE] /\ timer' = timer
    BY <1>8 DEF CancelSelf, lists
  <2>2. \A x \in Handles : hs'[x].timeout_at = hs[x].timeout_at
    BY <1>0, <2>1 DEF Record
  <2>3. At(hs') = At(hs)
    BY <2>2 DEF At
  <2>. QED BY <2>1, <2>3 DEF TimerSorted
<1>9. CASE \E h \in Handle : CancelAsync(h)
  <2>1. PICK h \in Handle : CancelAsync(h)
    BY <1>9
  <2>2. h \notin Elems(timer)
    BY <1>0, <2>1, ContainsElems DEF CancelAsync
  <2>3. hs' = [hs EXCEPT ![h] = Blank] /\ timer' = timer
    BY <2>1 DEF CancelAsync, Free
  <2>. QED BY <1>2, <2>2, <2>3
<1>10. CASE (\E h \in Handle : Cancel(h)) \/ CancelFdStep
  <2>1. PICK h : Unlink(h)
    BY <1>10 DEF Cancel, CancelFdStep
  <2>2. hs' = [hs EXCEPT ![h] = Blank] /\ timer' = qent_remove(timer, h)
    BY <2>1 DEF Unlink, Free
  <2>3. \A x \in Handles \ {h} : hs'[x].timeout_at = hs[x].timeout_at
    BY <1>0, <2>2
  <2>. QED BY <1>3, <2>2, <2>3
<1>11. CASE \E h \in Handle, ms \in Timeouts \cup {INFINITE} : SetTimeout(h, ms)
  <2>1. PICK h \in Handle, ms \in Timeouts \cup {INFINITE} : SetTimeout(h, ms)
    BY <1>11
  <2>2. \A x \in Handles \ {h} : hs'[x].timeout_at = hs[x].timeout_at
    BY <1>0, <2>1 DEF SetTimeout
  <2>3. CASE notifying = h \/ qent_contains(async, h) \/ qent_contains(ready, h)
    <3>1. h \notin Elems(timer) /\ timer' = timer
      BY <1>0, <2>1, <2>3, ContainsElems DEF SetTimeout, Busy, LinkExclusive
    <3>. QED BY <1>0, <2>2, <3>1, SortedLists DEF TimerSorted
  <2>4. CASE ~(notifying = h \/ qent_contains(async, h) \/ qent_contains(ready, h))
    <3>1. timer' = TimerSet(timer, hs', h) /\ h \in Handles
      BY <2>1, <2>4 DEF SetTimeout
    <3>. QED BY <1>0, <2>2, <3>1, SortedLists DEF TimerSorted
  <2>. QED BY <2>3, <2>4
<1>12. CASE InstallOne
  <2>1. Head(async) \in Elems(async) /\ Head(async) \in Handles
    BY <1>12, ListFacts, PopProp DEF InstallOne
  <2>2. Head(async) \notin Elems(timer) /\ hs' = hs
    BY <1>0, <1>12, <2>1 DEF InstallOne
  <2>3. timer' = timer \/ timer' = timer_insert(timer, At(hs'), Head(async))
    BY <1>12, <2>2 DEF InstallOne
  <2>. QED BY <1>0, <2>1, <2>2, <2>3, SortedLists DEF TimerSorted
<1>13. CASE InstallDone \/ EventReturn
  <2>1. UNCHANGED <<hs, timer>> \/ (notifying # NULL /\ AfterCallback(notifying))
    BY <1>13 DEF InstallDone, EventReturn
  <2>. QED BY <1>0, <1>1, <2>1, SortedCallback
<1>14. CASE Expire \/ \E f \in Fds : ScanHit(f)
  <2>1. PICK h, n : ToReady(h, n)
    BY <1>14 DEF Expire, ScanHit
  <2>2. \A x \in Handles : hs'[x].timeout_at = hs[x].timeout_at
    BY <1>0, <2>1 DEF ToReady, Record
  <2>. QED BY <1>3, <2>1, <2>2 DEF ToReady
<1>15. CASE FinalizeOne
  <2>1. hs' = hs /\ \E h : timer' = qent_remove(timer, h)
    BY <1>15 DEF FinalizeOne
  <2>. QED BY <1>3, <2>1
<1>16. CASE CancelReturn
  <2>1. hs' = [hs EXCEPT ![cancelling] = Blank] /\ timer' = timer /\ cancelling \in Busy
    BY <1>16 DEF CancelReturn, Free, Busy, lists
  <2>. QED BY <1>0, <1>2, <2>1
<1>17. CASE \E t \in Thread : ThreadEnqueue(t)
  <2>1. PICK t \in Thread : ThreadEnqueue(t)
    BY <1>17
  <2>2. caller[t] \in Held
    BY <2>1 DEF ThreadEnqueue, Held
  <2>3. timer' = timer /\ (hs' = hs \/ hs' = [hs EXCEPT ![caller[t]] = Blank])
    BY <2>1 DEF ThreadEnqueue, Free
  <2>. QED BY <1>0, <1>1, <1>2, <2>2, <2>3
<1>. QED BY <1>4, <1>5, <1>6, <1>7, <1>8, <1>9, <1>10, <1>11, <1>12, <1>13,
            <1>14, <1>15, <1>16, <1>17
     DEF Next, Api, Loop, Threads

(* The head of a sorted list is the earliest. *)
LEMMA HeadEarliest ==
  ASSUME IInv, TimerSorted, NEW h \in Elems(timer)
  PROVE  timer # <<>> /\ hs[Head(timer)].timeout_at <= hs[h].timeout_at
<1>1. timer \in Seq(Handles) /\ hs \in [Handles -> Record] /\ UINT64_MAX \in Nat
  BY Constants DEF IInv, TypeOK
<1>2. PICK i \in 1 .. Len(timer) : timer[i] = h
  BY DEF Elems
<1>3. Len(timer) \in Nat /\ 1 \in 1 .. Len(timer)
  BY <1>1, <1>2, LenProperties
<1>4. timer # <<>> /\ Head(timer) = timer[1]
  BY <1>1, <1>3, HeadTailProperties, EmptySeq
<1>5. timer[1] \in Handles /\ h \in Handles
  BY <1>1, <1>2, <1>3, ElementOfSeq
<1>6. hs[timer[1]].timeout_at \in Nat
  BY <1>1, <1>5 DEF Record
<1>7. CASE i = 1
  BY <1>2, <1>4, <1>6, <1>7
<1>8. CASE i # 1
  <2>1. 1 < i
    BY <1>3, <1>8
  <2>2. At(hs)[timer[1]] <= At(hs)[timer[i]]
    BY <1>2, <1>3, <2>1 DEF TimerSorted, SortedBy
  <2>. QED BY <1>2, <1>4, <1>5, <2>2 DEF At
<1>. QED BY <1>7, <1>8

(* The loop's sleep ends no later than the earliest deadline. *)
LEMMA SleepStep ==
  ASSUME IInv, IInv', TimerSorted, NoOversleep, [Next]_vars PROVE NoOversleep'
<1>. USE Constants
<1>. SUFFICES ASSUME pc' = "wait", NEW h \in Elems(timer')
              PROVE  deadline' <= hs'[h].timeout_at \/ deadline' <= now'
  BY DEF NoOversleep
<1>0. /\ timer \in Seq(Handles) /\ hs \in [Handles -> Record] /\ now \in 0 .. MaxTime
      /\ deadline \in 0 .. UINT64_MAX /\ Elems(timer) \cap (Held \cup Busy) = {}
      /\ Elems(timer) \subseteq alloc /\ Elems(timer) \subseteq Handles
  BY ListFacts DEF IInv, TypeOK, NoDangling, Linked
<1>1. CASE \E ut \in Timeouts \cup {INFINITE} : Poll(ut)
  <2>1. PICK ut \in Timeouts \cup {INFINITE} : Poll(ut)
    BY <1>1
  <2>2. UNCHANGED <<timer, hs, now>> /\ deadline' = WaitUntil(ut)
    BY <2>1 DEF Poll, lists
  <2>3. timer # <<>> /\ hs[Head(timer)].timeout_at <= hs[h].timeout_at
    BY <2>2, HeadEarliest
  <2>4. hs[Head(timer)].timeout_at \in Nat /\ hs[h].timeout_at \in Nat /\ ut \in Nat
    BY <1>0, <2>2, <2>3, HeadTailProperties DEF Record
  <2>. QED BY <1>0, <2>2, <2>3, <2>4 DEF WaitUntil
<1>2. CASE Tick
  <2>1. UNCHANGED <<timer, hs, deadline, pc>> /\ now' = now + 1
    BY <1>2 DEF Tick, lists
  <2>2. h \in Elems(timer) /\ hs[h].timeout_at \in Nat
    BY <1>0, <2>1 DEF Record
  <2>. QED BY <1>0, <2>1, <2>2 DEF NoOversleep
<1>3. CASE Threads \/ UNCHANGED vars
  <2>1. UNCHANGED <<timer, deadline, now, pc>>
    BY <1>3 DEF Threads, ThreadAlloc, ThreadEnqueue, lists, vars
  <2>2. hs'[h] = hs[h]
    <3>1. CASE UNCHANGED vars
      BY <3>1 DEF vars
    <3>2. CASE \E t \in Thread, x \in Handle, ms \in Timeouts : ThreadAlloc(t, x, ms)
      <4>1. PICK x \in Handle : x \notin alloc /\ \E r : hs' = [hs EXCEPT ![x] = r]
        BY <3>2 DEF ThreadAlloc, OneshotTimer
      <4>2. x # h
        BY <1>0, <2>1, <4>1
      <4>. QED BY <1>0, <2>1, <4>1, <4>2
    <3>3. CASE \E t \in Thread : ThreadEnqueue(t)
      <4>1. PICK t \in Thread : ThreadEnqueue(t)
        BY <3>3
      <4>2. caller[t] \in Held /\ (hs' = hs \/ hs' = [hs EXCEPT ![caller[t]] = Blank])
        BY <4>1 DEF ThreadEnqueue, Free, Held
      <4>3. caller[t] # h
        BY <1>0, <2>1, <4>2
      <4>. QED BY <1>0, <2>1, <4>2, <4>3
    <3>. QED BY <1>3, <3>1, <3>2, <3>3 DEF Threads
  <2>. QED BY <2>1, <2>2 DEF NoOversleep
<1>4. CASE Create \/ RunOnce \/ Epoll \/ EpollError
  BY <1>4 DEF Create, RunOnce, Epoll, EpollEvents, EpollTimeout, EpollError, RunLeave
<1>5. CASE Api
  BY <1>5 DEF Api, AddFd, AddOneshotTimer, CancelSelf, CancelAsync, Cancel, CancelFd, SetTimeout,
       Destroy, UserCode
<1>6. CASE Loop /\ ~ \E ut \in Timeouts \cup {INFINITE} : Poll(ut)
  BY <1>6 DEF Loop, InstallLock, InstallOne, InstallDone, ScanHit, ScanNext, ScanDone, Expire,
       ExpireDone, Dispatch, DispatchDone, RunLeave, EventReturn, AfterCallback, CancelReturn,
       CancelFdStep, CancelFdDone, FinalizeOne, FinalizeAsync, FinalizeClose, FreeCtx
<1>. QED BY <1>1, <1>2, <1>3, <1>4, <1>5, <1>6 DEF Next

(* As long as nobody asks for a destroy, the wake pipe's handle is         *)
(* monitored, waits for dispatch or is being called back.                  *)
WakeRecord ==
  /\ hs[WakeH].fd = PipeFd /\ hs[WakeH].flag = {"READ"}
  /\ ~hs[WakeH].oneshot /\ ~hs[WakeH].dead
WakeArmed ==
  pc # "gone" /\ ~stopping =>
    WakeRecord /\ WakeH \in Elems(fdmon) \cup Elems(ready) \cup {notifying}

(* After its callback the internal handle is registered again.             *)
LEMMA WakeCallback ==
  ASSUME IInv, WakeArmed, pc # "gone", ~stopping, notifying # NULL, AfterCallback(notifying), ready' = ready
  PROVE  WakeRecord' /\ WakeH \in Elems(fdmon') \cup Elems(ready')
<1>. USE Constants
<1>0. WakeRecord /\ WakeH \in Elems(fdmon) \cup Elems(ready) \cup {notifying}
  BY DEF WakeArmed
<1>1. notifying \in Handles /\ hs \in [Handles -> Record] /\ fdmon \in Seq(Handles)
  BY DEF IInv, TypeOK
<1>2. CASE hs[notifying].dead \/ hs[notifying].oneshot
  <2>1. notifying # WakeH
    BY <1>0, <1>2 DEF WakeRecord
  <2>2. hs' = [hs EXCEPT ![notifying] = Blank] /\ fdmon' = fdmon
    BY <1>2 DEF AfterCallback, Free
  <2>. QED BY <1>0, <1>1, <2>1, <2>2 DEF WakeRecord
<1>3. CASE ~(hs[notifying].dead \/ hs[notifying].oneshot)
  <2>1. Rearm(notifying)
    BY <1>3 DEF AfterCallback
  <2>2. \A x \in Handles : /\ hs'[x].fd = hs[x].fd /\ hs'[x].flag = hs[x].flag
                           /\ hs'[x].oneshot = hs[x].oneshot /\ hs'[x].dead = hs[x].dead
    BY <1>1, <2>1 DEF Rearm, Record
  <2>3. WakeRecord'
    BY <1>0, <2>2 DEF WakeRecord
  <2>4. Elems(fdmon) \subseteq Elems(fdmon')
    BY <1>1, <2>1, AppendProp DEF Rearm
  <2>5. notifying = WakeH => WakeH \in Elems(fdmon')
    BY <1>0, <1>1, <2>1, AppendProp DEF Rearm, WakeRecord
  <2>. QED BY <1>0, <2>3, <2>4, <2>5
<1>. QED BY <1>2, <1>3

(* Every step keeps the wake pipe's handle armed.                          *)
LEMMA WakeStep ==
  ASSUME IInv, WakeArmed, [Next]_vars PROVE WakeArmed'
<1>. USE Constants
<1>0. /\ hs \in [Handles -> Record] /\ LinkExclusive /\ NoDangling /\ Control
      /\ fdmon \in Seq(Handles) /\ ready \in Seq(Handles) /\ NoDup(fdmon) /\ NoDup(ready)
      /\ stopping \in BOOLEAN
  BY DEF IInv, TypeOK, LinkExclusive
<1>1. ASSUME NEW h, h # WakeH, \A x \in Handles \ {h} : hs'[x] = hs[x],
             Elems(fdmon) \ {h} \subseteq Elems(fdmon'), Elems(ready) \ {h} \subseteq Elems(ready'),
             notifying' = notifying, stopping' = stopping, pc # "gone"
      PROVE  WakeArmed'
  BY <1>1 DEF WakeArmed, WakeRecord
<1>2. CASE Create
  <2>1. fdmon' = <<WakeH>> /\ hs' = [hs EXCEPT ![WakeH] =
              [Blank EXCEPT !.fd = PipeFd, !.flag = {"READ"},
                            !.timeout_ms = INFINITE,
                            !.timeout_at = UINT64_MAX]]
    BY <1>2 DEF Create
  <2>2. WakeRecord'
    BY <1>0, <2>1 DEF WakeRecord, Blank
  <2>3. WakeH \in Elems(fdmon')
    BY <2>1 DEF Elems
  <2>. QED BY <2>2, <2>3 DEF WakeArmed
<1>3. CASE \/ RunOnce \/ Destroy \/ Tick \/ EpollError \/ Epoll \/ CancelFdDone \/ InstallLock \/ InstallOne
           \/ \E f \in Fd : CancelFd(f)
           \/ \E ut \in Timeouts \cup {INFINITE} : Poll(ut)
           \/ \E f \in Fds : ScanNext(f)
           \/ ScanDone \/ ExpireDone \/ DispatchDone \/ FinalizeAsync \/ FinalizeClose
           \/ FreeCtx \/ UNCHANGED vars
  <2>1. CASE FreeCtx
    BY <2>1 DEF FreeCtx, WakeArmed
  <2>2. CASE ~FreeCtx
    <3>1. UNCHANGED <<hs, fdmon, ready, notifying>>
      BY <1>3, <2>2 DEF RunOnce, Destroy, Tick, EpollError, Epoll, EpollEvents, EpollTimeout, CancelFdDone,
        InstallLock, InstallOne, CancelFd, Poll, ScanNext, ScanDone, ExpireDone, DispatchDone,
        FinalizeAsync, FinalizeClose, lists, vars
    <3>2. (pc = "gone" => pc' = "gone") /\ (stopping => stopping')
      BY <1>3, <2>2 DEF RunOnce, UserCode, Destroy, Tick, EpollError, Epoll, EpollEvents, EpollTimeout,
        CancelFdDone, InstallLock, InstallOne, CancelFd, Poll, ScanNext, ScanDone, ExpireDone, DispatchDone,
        FinalizeAsync, FinalizeClose, vars, flags
    <3>. QED BY <3>1, <3>2 DEF WakeArmed, WakeRecord
  <2>. QED BY <2>1, <2>2
<1>4. CASE \E h \in Handle, f \in Fd \cup {TimerFd}, req \in Requests \cup {{}},
             ms \in Timeouts \cup {INFINITE}, one \in BOOLEAN : AddFd(h, f, req, ms, one)
  <2>1. PICK h \in Handle, f \in Fd \cup {TimerFd}, req \in Requests \cup {{}},
             ms \in Timeouts \cup {INFINITE}, one \in BOOLEAN : AddFd(h, f, req, ms, one)
    BY <1>4
  <2>2. /\ \A x \in Handles \ {h} : hs'[x] = hs[x]
        /\ UNCHANGED <<ready, notifying, stopping>> /\ pc # "gone"
    BY <1>0, <2>1 DEF AddFd, flags, UserCode
  <2>3. Elems(fdmon) \subseteq Elems(fdmon')
    BY <1>0, <2>1, AppendProp DEF AddFd
  <2>. QED BY <1>1, <2>2, <2>3
<1>5. CASE \/ \E h \in Handle, ms \in Timeouts : AddOneshotTimer(h, ms)
           \/ \E t \in Thread, h \in Handle, ms \in Timeouts : ThreadAlloc(t, h, ms)
           \/ \E h \in Handle : CancelSelf(h) \/ CancelAsync(h)
           \/ \E h \in Handle, ms \in Timeouts \cup {INFINITE} : SetTimeout(h, ms)
  <2>1. /\ \E h \in Handle : \A x \in Handles \ {h} : hs'[x] = hs[x]
        /\ UNCHANGED <<fdmon, ready, notifying, stopping>> /\ pc # "gone"
    <3>1. CASE \/ \E h \in Handle, ms \in Timeouts : AddOneshotTimer(h, ms)
               \/ \E t \in Thread, h \in Handle, ms \in Timeouts : ThreadAlloc(t, h, ms)
      BY <1>0, <3>1 DEF AddOneshotTimer, ThreadAlloc, OneshotTimer, UserCode, lists, flags
    <3>2. CASE \E h \in Handle : CancelSelf(h) \/ CancelAsync(h)
      BY <1>0, <3>2 DEF CancelSelf, CancelAsync, Free, UserCode, lists, flags
    <3>3. CASE \E h \in Handle, ms \in Timeouts \cup {INFINITE} : SetTimeout(h, ms)
      BY <1>0, <3>3 DEF SetTimeout, UserCode, flags
    <3>. QED BY <1>5, <3>1, <3>2, <3>3
  <2>. QED BY <1>1, <2>1
<1>6. CASE (\E h \in Handle : Cancel(h)) \/ CancelFdStep
  <2>1. /\ UNCHANGED <<notifying, stopping>> /\ pc # "gone"
    BY <1>6 DEF Cancel, CancelFdStep, UserCode, flags
  <2>2. PICK h : Unlink(h) /\ (h \in Handle \/ (hs[h].fd = cur /\ pc = "cancelfd"))
    BY <1>6 DEF Cancel, CancelFdStep, OnFd
  <2>3. ~stopping => h # WakeH
    BY <1>0, <2>1, <2>2, ConstantsAssumption DEF WakeArmed, WakeRecord, Control
  <2>4. /\ \A x \in Handles \ {h} : hs'[x] = hs[x]
        /\ Elems(fdmon') = Elems(fdmon) \ {h} /\ Elems(ready') = Elems(ready) \ {h}
    BY <1>0, <2>2, RemoveProp DEF Unlink, Free
  <2>. QED BY <1>1, <2>1, <2>3, <2>4 DEF WakeArmed
<1>7. CASE InstallDone \/ EventReturn
  <2>1. \/ UNCHANGED <<hs, fdmon, notifying>>
        \/ notifying # NULL /\ AfterCallback(notifying)
    BY <1>7 DEF InstallDone, EventReturn
  <2>2. UNCHANGED <<ready, stopping>> /\ pc # "gone"
    BY <1>7 DEF InstallDone, EventReturn, flags
  <2>. QED BY <2>1, <2>2, WakeCallback DEF WakeArmed, WakeRecord
<1>8. CASE Expire \/ \E f \in Fds : ScanHit(f)
  <2>1. PICK h, n : ToReady(h, n) /\ h \in Handles
    <3>1. Due => Head(timer) \in Handles
      BY ListFacts, PopProp DEF Due
    <3>2. \A f : \A i \in Hits(f) : fdmon[i] \in Handles
      BY <1>0, ElementOfSeq DEF Hits
    <3>. QED BY <1>8, <3>1, <3>2 DEF Expire, ScanHit
  <2>2. UNCHANGED <<notifying, stopping, pc>>
    BY <1>8 DEF Expire, ScanHit, flags
  <2>3. \A x \in Handles : /\ hs'[x].fd = hs[x].fd /\ hs'[x].flag = hs[x].flag
                           /\ hs'[x].oneshot = hs[x].oneshot /\ hs'[x].dead = hs[x].dead
    BY <1>0, <2>1 DEF ToReady, Record
  <2>4. Elems(fdmon') = Elems(fdmon) \ {h} /\ Elems(ready') = Elems(ready) \cup {h}
    BY <1>0, <2>1, RemoveProp, AppendProp DEF ToReady
  <2>. QED BY <2>2, <2>3, <2>4 DEF WakeArmed, WakeRecord
<1>9. CASE Dispatch
  <2>1. /\ ready # <<>> /\ ready' = Tail(ready) /\ notifying' = Head(ready)
        /\ UNCHANGED <<hs, fdmon, stopping>> /\ pc = "dispatch"
    BY <1>9 DEF Dispatch, flags
  <2>2. Elems(ready) \subseteq Elems(ready') \cup {notifying'}
    BY <1>0, <2>1, PopProp
  <2>3. notifying = NULL
    BY <1>0, <2>1 DEF Control
  <2>. QED BY <2>1, <2>2, <2>3 DEF WakeArmed, WakeRecord
<1>10. CASE FinalizeOne \/ CancelReturn
  <2>1. stopping' = stopping /\ stopping
    BY <1>0, <1>10 DEF FinalizeOne, CancelReturn, flags, Control
  <2>. QED BY <2>1 DEF WakeArmed
<1>11. CASE \E t \in Thread : ThreadEnqueue(t)
  <2>1. UNCHANGED <<fdmon, ready, notifying, stopping, pc>> /\ (stopping \/ finalized \/ hs' = hs)
    BY <1>11 DEF ThreadEnqueue, flags
  <2>2. finalized => stopping
    BY <1>0 DEF Control
  <2>. QED BY <2>1, <2>2 DEF WakeArmed, WakeRecord
<1>. QED BY <1>2, <1>3, <1>4, <1>5, <1>6, <1>7, <1>8, <1>9, <1>10, <1>11
     DEF Next, Api, Loop, Threads

(* epoll monitors what fdmon_list asks for, until evb2_finalize takes the  *)
(* list apart, and again once it is closed.                                *)
Exact == \A f \in Fds : interest[f] = Wanted(f, hs, fdmon)
Monitored == ~finalized \/ pc = "closed" => Exact

(* What a descriptor's handles ask for depends on nothing else. *)
LEMMA WantedSame ==
  ASSUME NEW f, NEW r, NEW l, NEW r2, NEW l2,
         \A h : (h \in Elems(l) /\ r[h].fd = f) <=> (h \in Elems(l2) /\ r2[h].fd = f),
         \A h \in Elems(l) : r[h].fd = f => r2[h].flag = r[h].flag
  PROVE  Wanted(f, r, l) = Wanted(f, r2, l2)
<1>. DEFINE on == {h \in Elems(l) : r[h].fd = f}
            on2 == {h \in Elems(l2) : r2[h].fd = f}
<1>1. on = on2
  OBVIOUS
<1>2. {r[h].flag : h \in on} = {r2[h].flag : h \in on2}
  BY <1>1
<1>. QED BY <1>1, <1>2 DEF Wanted

(* The refresh of descriptor g repairs what a step did to its handles, and  *)
(* the step did nothing to the handles of others.                           *)
LEMMA RefreshExact ==
  ASSUME IInv, Exact, NEW g, NEW r, interest' = epoll_refresh(g, r, fdmon'),
         g = TimerFd \/ g \in Fds,
         \A f \in Fds \ {g} : Wanted(f, hs', fdmon') = Wanted(f, hs, fdmon),
         g \in Fds => Wanted(g, hs', fdmon') = Wanted(g, r, fdmon')
  PROVE  Exact'
<1>1. interest \in [Fds -> SUBSET EpollEv] /\ TimerFd \notin Fds
  BY ConstantsAssumption DEF IInv, TypeOK
<1>2. CASE g = TimerFd
  BY <1>1, <1>2 DEF epoll_refresh, Exact
<1>3. CASE g \in Fds
  <2>1. interest' = [interest EXCEPT ![g] = Wanted(g, r, fdmon')]
    BY <1>1, <1>3 DEF epoll_refresh
  <2>. QED BY <1>1, <1>3, <2>1 DEF Exact
<1>. QED BY <1>2, <1>3

(* A step that touches one handle's record, and that handle is not on       *)
(* fdmon_list, changes no wish.                                             *)
LEMMA ExactSame ==
  ASSUME IInv, Exact, interest' = interest, fdmon' = fdmon,
         \A x \in Elems(fdmon) : hs'[x].fd = hs[x].fd /\ hs'[x].flag = hs[x].flag
  PROVE  Exact'
<1>1. \A f \in Fds : Wanted(f, hs', fdmon') = Wanted(f, hs, fdmon)
  BY WantedSame
<1>. QED BY <1>1 DEF Exact

(* Linking h to fdmon_list or off it, with the refresh of its descriptor    *)
(* from records that agree with the new ones on the list.                   *)
LEMMA ExactRelink ==
  ASSUME IInv, Exact, NEW h \in Handles, NEW g, g = TimerFd \/ g \in Fds, NEW r,
         interest' = epoll_refresh(g, r, fdmon'),
         Elems(fdmon') \subseteq Handles,
         \A x \in Handles \ {h} : /\ hs'[x].fd = hs[x].fd /\ hs'[x].flag = hs[x].flag
                                  /\ x \in Elems(fdmon') <=> x \in Elems(fdmon),
         h \in Elems(fdmon) => hs[h].fd = g,
         h \in Elems(fdmon') => hs'[h].fd = g,
         \A x \in Elems(fdmon') : hs'[x].fd = r[x].fd /\ hs'[x].flag = r[x].flag
  PROVE  Exact'
<1>0. Elems(fdmon) \subseteq Handles
  BY ListFacts
<1>1. ASSUME NEW f \in Fds \ {g} PROVE Wanted(f, hs', fdmon') = Wanted(f, hs, fdmon)
  BY <1>0, WantedSame
<1>2. Wanted(g, hs', fdmon') = Wanted(g, r, fdmon')
  BY WantedSame
<1>. QED BY <1>1, <1>2, RefreshExact

(* Every step that changes fdmon_list or a handle on it refreshes epoll.   *)
LEMMA MonitoredStep ==
  ASSUME IInv, IInv', Running, Monitored, [Next]_vars PROVE Monitored'
<1>. USE Constants
<1>0. /\ hs \in [Handles -> Record] /\ hs' \in [Handles -> Record] /\ LinkExclusive /\ NoDangling /\ Control
      /\ fdmon \in Seq(Handles) /\ NoDup(fdmon) /\ alloc \subseteq Handles
      /\ Elems(fdmon) \subseteq alloc /\ Elems(fdmon) \cap (Held \cup Busy) = {}
      /\ Elems(fdmon) \cap Elems(async) = {}
  BY DEF IInv, TypeOK, LinkExclusive, NoDangling, Linked
<1>00. Elems(fdmon') \subseteq Handles
  <2>1. fdmon' \in Seq(Handles)
    BY DEF IInv, TypeOK
  <2>. QED BY <2>1, ElemsType
<1>1. CASE Create
  <2>1. /\ fdmon = <<>> /\ fdmon' = <<WakeH>> /\ ~finalized /\ hs'[WakeH].fd = PipeFd
        /\ \A x \in Handles \ {WakeH} : hs'[x] = hs[x]
        /\ interest' = epoll_refresh(PipeFd, hs', fdmon')
    BY <1>0, <1>1 DEF Create, Control, Running
  <2>2. Elems(fdmon) = {} /\ Elems(fdmon') = {WakeH} /\ Exact
    BY <2>1 DEF Elems, Monitored
  <2>3. Exact'
    BY <1>00, <2>1, <2>2, ExactRelink
  <2>. QED BY <2>3 DEF Monitored
<1>2. CASE \/ RunOnce \/ Destroy \/ Tick \/ EpollError \/ Epoll \/ CancelFdDone \/ InstallLock \/ InstallOne
           \/ \E f \in Fd : CancelFd(f)
           \/ \E ut \in Timeouts \cup {INFINITE} : Poll(ut)
           \/ \E f \in Fds : ScanNext(f)
           \/ ScanDone \/ ExpireDone \/ Dispatch \/ DispatchDone \/ FinalizeAsync
           \/ FreeCtx \/ UNCHANGED vars
  <2>1. UNCHANGED <<hs, fdmon, interest>>
    BY <1>2 DEF RunOnce, Destroy, Tick, EpollError, Epoll, EpollEvents, EpollTimeout, CancelFdDone,
      InstallLock, InstallOne, CancelFd, Poll, ScanNext, ScanDone, ExpireDone, Dispatch, DispatchDone,
      FinalizeAsync, FreeCtx, lists, vars
  <2>2. ~finalized' \/ pc' = "closed" => ~finalized \/ pc = "closed"
    BY <1>0, <1>2 DEF RunOnce, UserCode, Destroy, Tick, EpollError, Epoll, EpollEvents, EpollTimeout,
      CancelFdDone, InstallLock, InstallOne, CancelFd, Poll, ScanNext, ScanDone, ExpireDone, Dispatch,
      DispatchDone, RunLeave, FinalizeAsync, FreeCtx, vars, flags, Control
  <2>. QED BY <2>1, <2>2 DEF Monitored, Exact
<1>3. CASE FinalizeClose
  <2>1. fdmon' = <<>> /\ interest' = NoEvents
    BY <1>3 DEF FinalizeClose, FinalList, lists
  <2>2. Elems(fdmon') = {}
    BY <2>1 DEF Elems
  <2>3. \A f \in Fds : Wanted(f, hs', fdmon') = {}
    BY <2>2 DEF Wanted
  <2>4. Exact'
    BY <2>1, <2>3 DEF Exact, NoEvents
  <2>. QED BY <2>4 DEF Monitored
<1>4. CASE FinalizeOne
  <2>1. finalized' /\ pc' = "user"
    BY <1>0, <1>4 DEF FinalizeOne, flags, Control
  <2>. QED BY <2>1 DEF Monitored
<1>5. CASE \/ \E h \in Handle, ms \in Timeouts : AddOneshotTimer(h, ms)
           \/ \E t \in Thread, h \in Handle, ms \in Timeouts : ThreadAlloc(t, h, ms)
           \/ \E h \in Handle : CancelSelf(h) \/ CancelAsync(h)
           \/ \E h \in Handle, ms \in Timeouts \cup {INFINITE} : SetTimeout(h, ms)
           \/ \E t \in Thread : ThreadEnqueue(t)
  <2>1. UNCHANGED <<fdmon, interest, finalized, pc>>
    BY <1>5 DEF AddOneshotTimer, ThreadAlloc, CancelSelf, CancelAsync, SetTimeout, ThreadEnqueue, lists, flags
  <2>2. \A x \in Elems(fdmon) : hs'[x].fd = hs[x].fd /\ hs'[x].flag = hs[x].flag
    <3>1. CASE \/ \E h \in Handle, ms \in Timeouts : AddOneshotTimer(h, ms)
               \/ \E t \in Thread, h \in Handle, ms \in Timeouts : ThreadAlloc(t, h, ms)
      <4>1. PICK h \in Handle : h \notin alloc /\ \E r : hs' = [hs EXCEPT ![h] = r]
        BY <3>1 DEF AddOneshotTimer, ThreadAlloc, OneshotTimer
      <4>. QED BY <1>0, <4>1
    <3>2. CASE \E h \in Handle : CancelSelf(h)
      BY <1>0, <3>2 DEF CancelSelf, Record
    <3>3. CASE \E h \in Handle : CancelAsync(h)
      <4>1. PICK h \in Handle : h \in Elems(async) /\ hs' = [hs EXCEPT ![h] = Blank]
        BY <3>3, ContainsElems DEF CancelAsync, Free
      <4>. QED BY <1>0, <4>1
    <3>4. CASE \E h \in Handle, ms \in Timeouts \cup {INFINITE} : SetTimeout(h, ms)
      BY <1>0, <3>4 DEF SetTimeout, Record
    <3>5. CASE \E t \in Thread : ThreadEnqueue(t)
      <4>1. PICK t \in Thread : ThreadEnqueue(t)
        BY <3>5
      <4>2. caller[t] \in Held /\ (hs' = hs \/ hs' = [hs EXCEPT ![caller[t]] = Blank])
        BY <4>1 DEF ThreadEnqueue, Free, Held
      <4>. QED BY <1>0, <4>2
    <3>. QED BY <1>5, <3>1, <3>2, <3>3, <3>4, <3>5
  <2>. QED BY <2>1, <2>2, ExactSame DEF Monitored
<1>6. CASE CancelReturn
  <2>1. /\ UNCHANGED <<fdmon, interest, finalized>> /\ hs' = [hs EXCEPT ![cancelling] = Blank]
        /\ cancelling \in Busy /\ pc' # "closed"
    BY <1>6 DEF CancelReturn, Free, Busy, lists, flags
  <2>2. \A x \in Elems(fdmon) : hs'[x] = hs[x]
    BY <1>0, <2>1
  <2>. QED BY <2>1, <2>2, ExactSame DEF Monitored
<1>7. CASE \E h \in Handle, f \in Fd \cup {TimerFd}, req \in Requests \cup {{}},
             ms \in Timeouts \cup {INFINITE}, one \in BOOLEAN : AddFd(h, f, req, ms, one)
  <2>1. PICK h \in Handle, f \in Fd \cup {TimerFd}, req \in Requests \cup {{}},
             ms \in Timeouts \cup {INFINITE}, one \in BOOLEAN : AddFd(h, f, req, ms, one)
    BY <1>7
  <2>2. /\ \A x \in Handles \ {h} : hs'[x] = hs[x]
        /\ hs'[h].fd = f /\ h \in Handles
        /\ UNCHANGED <<finalized, pc>> /\ interest' = epoll_refresh(f, hs', fdmon')
    BY <1>0, <2>1 DEF AddFd, flags, Blank
  <2>3. /\ h \notin Elems(fdmon)
        /\ Elems(fdmon') = Elems(fdmon) \/ Elems(fdmon') = Elems(fdmon) \cup {h}
    BY <1>0, <2>1, AppendProp DEF AddFd
  <2>4. f = TimerFd \/ f \in Fds
    BY DEF Fds
  <2>. QED BY <1>00, <2>2, <2>3, <2>4, ExactRelink DEF Monitored
<1>8. CASE (\E h \in Handle : Cancel(h)) \/ CancelFdStep
  <2>1. UNCHANGED <<finalized, pc>>
    BY <1>8 DEF Cancel, CancelFdStep, flags
  <2>2. PICK h : Unlink(h)
    BY <1>8 DEF Cancel, CancelFdStep
  <2>3. h \in Handles
    BY <2>2, ListFacts, ContainsElems DEF Unlink
  <2>4. /\ \A x \in Handles \ {h} : hs'[x] = hs[x]
        /\ Elems(fdmon') = Elems(fdmon) \ {h} /\ interest' = epoll_refresh(hs[h].fd, hs, fdmon')
    BY <1>0, <2>2, RemoveProp DEF Unlink, Free
  <2>5. hs[h].fd = TimerFd \/ hs[h].fd \in Fds
    BY <1>0, <2>3 DEF Record
  <2>. QED BY <1>00, <2>1, <2>3, <2>4, <2>5, ExactRelink DEF Monitored
<1>9. CASE Expire \/ \E f \in Fds : ScanHit(f)
  <2>1. PICK h, n : ToReady(h, n) /\ h \in Handles
    <3>1. Due => Head(timer) \in Handles
      BY ListFacts, PopProp DEF Due
    <3>2. \A f : \A i \in Hits(f) : fdmon[i] \in Handles
      BY <1>0, ElementOfSeq DEF Hits
    <3>. QED BY <1>9, <3>1, <3>2 DEF Expire, ScanHit
  <2>2. UNCHANGED <<finalized, pc>>
    BY <1>9 DEF Expire, ScanHit, flags
  <2>3. \A x \in Handles : hs'[x].fd = hs[x].fd /\ hs'[x].flag = hs[x].flag
    BY <1>0, <2>1 DEF ToReady, Record
  <2>4. Elems(fdmon') = Elems(fdmon) \ {h} /\ interest' = epoll_refresh(hs[h].fd, hs, fdmon')
    BY <1>0, <2>1, RemoveProp DEF ToReady
  <2>5. hs[h].fd = TimerFd \/ hs[h].fd \in Fds
    BY <1>0, <2>1 DEF Record
  <2>. QED BY <1>00, <2>1, <2>2, <2>3, <2>4, <2>5, ExactRelink DEF Monitored
<1>10. CASE InstallDone \/ EventReturn
  <2>1. UNCHANGED finalized /\ pc' # "closed"
    BY <1>10 DEF InstallDone, EventReturn, AfterCallback, flags
  <2>2. CASE UNCHANGED <<hs, fdmon, interest>>
    BY <2>1, <2>2, ExactSame DEF Monitored
  <2>3. CASE notifying # NULL /\ AfterCallback(notifying)
    <3>0. notifying \in Handles /\ notifying \notin Elems(fdmon)
      BY <1>0, <2>3 DEF IInv, TypeOK, Busy
    <3>1. CASE hs' = [hs EXCEPT ![notifying] = Blank] /\ UNCHANGED <<fdmon, interest>>
      <4>1. \A x \in Elems(fdmon) : hs'[x] = hs[x]
        BY <1>0, <3>0, <3>1
      <4>. QED BY <2>1, <3>1, <4>1, ExactSame DEF Monitored
    <3>2. CASE Rearm(notifying)
      <4>1. \A x \in Handles : hs'[x].fd = hs[x].fd /\ hs'[x].flag = hs[x].flag
        BY <1>0, <3>0, <3>2 DEF Rearm, Record
      <4>2. /\ Elems(fdmon') = Elems(fdmon) \/ Elems(fdmon') = Elems(fdmon) \cup {notifying}
            /\ interest' = epoll_refresh(hs[notifying].fd, hs', fdmon')
        BY <1>0, <3>0, <3>2, AppendProp DEF Rearm
      <4>3. hs[notifying].fd = TimerFd \/ hs[notifying].fd \in Fds
        BY <1>0, <3>0 DEF Record
      <4>. QED BY <1>00, <2>1, <3>0, <4>1, <4>2, <4>3, ExactRelink DEF Monitored
    <3>. QED BY <2>3, <3>1, <3>2 DEF AfterCallback, Free
  <2>. QED BY <1>10, <2>2, <2>3 DEF InstallDone, EventReturn
<1>. QED BY <1>1, <1>2, <1>3, <1>4, <1>5, <1>6, <1>7, <1>8, <1>9, <1>10
     DEF Next, Api, Loop, Threads
-----------------------------------------------------------------------------
(* The invariant behind sleeping and waking. *)
WInv == /\ IInv /\ Running /\ Queued /\ TimerSorted /\ NoOversleep /\ WakeArmed /\ Monitored

(* Without a context all of it holds trivially.                            *)
LEMMA InitWInv == Init => WInv
<1>. SUFFICES ASSUME Init PROVE WInv
  OBVIOUS
<1>1. fdmon = <<>> /\ timer = <<>> /\ ready = <<>> /\ async = <<>> /\ interest = NoEvents
  BY DEF Init
<1>2. Elems(<<>>) = {}
  BY EmptySeq DEF Elems
<1>3. Monitored
  BY <1>1, <1>2 DEF Monitored, Exact, Wanted, NoEvents
<1>4. TimerSorted
  BY <1>1, EmptySeq DEF TimerSorted, SortedBy
<1>5. Running /\ Queued /\ NoOversleep /\ WakeArmed
  BY DEF Init, Running, Queued, NoOversleep, WakeArmed
<1>. QED BY <1>3, <1>4, <1>5, InitIInv DEF WInv

(* Each part is kept given the parts before it.                            *)
LEMMA NextWInv == ASSUME TimeoutsFit, WInv, [Next]_vars PROVE WInv'
<1>1. IInv'
  BY NextIInv DEF WInv
<1>. QED BY <1>1, RunningStep, SortedStep, SleepStep, WakeStep, MonitoredStep DEF WInv

(* run_once computes its epoll_wait timeout from the head of timer_list:   *)
(* whatever was armed, re-armed, moved or cancelled before, the list is    *)
(* sorted there, and no timer's deadline passes while the loop sleeps.     *)
THEOREM SleepsInTime == ASSUME TimeoutsFit PROVE Spec => []NoOversleep
<1>1. WInv => NoOversleep
  BY DEF WInv
<1>. QED BY <1>1, InitWInv, NextWInv, PTL DEF Spec

(* Whatever the application's calls and callbacks do to the handles of a   *)
(* descriptor, epoll watches exactly what they ask for when it matters.    *)
THEOREM InterestKept == ASSUME TimeoutsFit PROVE Spec => []InterestExact
<1>1. WInv => InterestExact
  BY DEF WInv, Monitored, Exact, InterestExact
<1>. QED BY <1>1, InitWInv, NextWInv, PTL DEF Spec

(* Any number of threads: the loop is never asleep on a timer that one of  *)
(* them queued, nor on a destroy, without a readable and monitored pipe.   *)
THEOREM WakesUp == ASSUME TimeoutsFit PROVE Spec => []NoLostWake
<1>1. ASSUME WInv PROVE NoLostWake
  <2>. USE Constants
  <2>. SUFFICES ASSUME pc = "wait", async # <<>> \/ stopping PROVE PipeReady
    BY DEF NoLostWake
  <2>1. notifying = NULL /\ cancelling = NULL /\ ~finalized
    BY <1>1 DEF WInv, IInv, Control
  <2>2. ~stopping /\ ready = <<>> /\ pipe > 0
    BY <1>1, <2>1 DEF WInv, Running, Queued
  <2>3. Elems(ready) = {}
    BY <2>2, EmptySeq DEF Elems
  <2>4. WakeRecord /\ WakeH \in Elems(fdmon)
    BY <1>1, <2>1, <2>2, <2>3 DEF WInv, WakeArmed
  <2>5. "READ" \in UNION {hs[h].flag : h \in {x \in Elems(fdmon) : hs[x].fd = PipeFd}}
    BY <2>4 DEF WakeRecord
  <2>6. "IN" \in Wanted(PipeFd, hs, fdmon)
    BY <2>4, <2>5 DEF Wanted, to_epoll, WakeRecord
  <2>7. interest[PipeFd] = Wanted(PipeFd, hs, fdmon)
    BY <1>1, <2>1 DEF WInv, Monitored, Exact
  <2>. QED BY <2>2, <2>6, <2>7 DEF PipeReady
<1>. QED BY <1>1, InitWInv, NextWInv, PTL DEF Spec

-----------------------------------------------------------------------------
(* The loop implements EvbLifecycle. *)

(* A handle still in the hands of the thread that creates it is a fresh    *)
(* one-shot timer.                                                         *)
HeldFresh == \A h \in Held : hs[h].oneshot /\ ~hs[h].dead

(* The application never learns of a handle before its thread enqueues it, *)
(* so no call of it changes such a handle.                                 *)
LEMMA HeldFreshStep ==
  ASSUME IInv, HeldFresh, [Next]_vars PROVE HeldFresh'
<1>. USE Constants
<1>0. /\ hs \in [Handles -> Record] /\ CallersDistinct /\ NoDangling /\ alloc \subseteq Handles
      /\ caller \in [Thread -> Handle \cup {NULL}] /\ Held \subseteq alloc
      /\ Linked \cap Held = {} /\ Held \cap Busy = {}
  BY DEF IInv, TypeOK, CallersDistinct, NoDangling
<1>1. ASSUME caller' = caller, \A h \in Held : hs'[h].oneshot = hs[h].oneshot /\ hs'[h].dead = hs[h].dead
      PROVE  HeldFresh'
  BY <1>1 DEF HeldFresh, Held
<1>2. ASSUME caller' = caller, NEW h, h \notin Held, NEW r, hs' = [hs EXCEPT ![h] = r]
      PROVE  HeldFresh'
  <2>1. \A x \in Held : hs'[x] = hs[x]
    BY <1>0, <1>2
  <2>. QED BY <1>1, <1>2, <2>1
<1>3. CASE \/ RunOnce \/ Destroy \/ Tick \/ EpollError \/ Epoll \/ CancelFdDone \/ InstallLock \/ InstallOne
           \/ \E f \in Fd : CancelFd(f)
           \/ \E ut \in Timeouts \cup {INFINITE} : Poll(ut)
           \/ \E f \in Fds : ScanNext(f)
           \/ ScanDone \/ ExpireDone \/ Dispatch \/ DispatchDone \/ FinalizeOne \/ FinalizeAsync
           \/ FinalizeClose \/ FreeCtx \/ UNCHANGED vars
  <2>1. UNCHANGED <<hs, caller>>
    BY <1>3 DEF RunOnce, Destroy, Tick, EpollError, Epoll, EpollEvents, EpollTimeout, CancelFdDone,
      InstallLock, InstallOne, CancelFd, Poll, ScanNext, ScanDone, ExpireDone, Dispatch, DispatchDone,
      FinalizeOne, FinalizeAsync, FinalizeClose, FreeCtx, vars
  <2>. QED BY <1>1, <2>1
<1>4. CASE Create
  <2>1. caller' = caller /\ WakeH \notin Held /\ \E r : hs' = [hs EXCEPT ![WakeH] = r]
    BY <1>0, <1>4 DEF Create, Held
  <2>. QED BY <1>2, <2>1
<1>5. CASE \/ \E h \in Handle, f \in Fd \cup {TimerFd}, req \in Requests \cup {{}},
                 ms \in Timeouts \cup {INFINITE}, one \in BOOLEAN : AddFd(h, f, req, ms, one)
           \/ \E h \in Handle, ms \in Timeouts : AddOneshotTimer(h, ms)
  <2>1. caller' = caller /\ \E h \in Handle \ alloc : \E r : hs' = [hs EXCEPT ![h] = r]
    BY <1>5, ZenonT(40) DEF AddFd, AddOneshotTimer, OneshotTimer
  <2>. QED BY <1>0, <1>2, <2>1
<1>6. CASE \E h \in Handle : CancelSelf(h)
  <2>1. PICK h \in Handle : CancelSelf(h)
    BY <1>6
  <2>2. h \notin Held /\ caller' = caller
    BY <2>1 DEF CancelSelf, Known, Held
  <2>3. \A x \in Held : hs'[x] = hs[x]
    BY <1>0, <2>1, <2>2 DEF CancelSelf
  <2>. QED BY <1>1, <2>2, <2>3
<1>7. CASE \E h \in Handle, ms \in Timeouts \cup {INFINITE} : SetTimeout(h, ms)
  <2>1. PICK h \in Handle, ms \in Timeouts \cup {INFINITE} : SetTimeout(h, ms)
    BY <1>7
  <2>2. caller' = caller
    BY <2>1 DEF SetTimeout
  <2>3. \A x \in Handles : hs'[x].oneshot = hs[x].oneshot /\ hs'[x].dead = hs[x].dead
    BY <1>0, <2>1 DEF SetTimeout, Record
  <2>. QED BY <1>0, <1>1, <2>2, <2>3
<1>8. CASE \/ \E h \in Handle : CancelAsync(h) \/ Cancel(h)
           \/ CancelFdStep
  <2>1. PICK h \in Linked : Free(h) /\ caller' = caller
    <3>1. \A h : qent_contains(async, h) \/ qent_contains(fdmon, h) \/ qent_contains(ready, h)
                   \/ qent_contains(timer, h) => h \in Linked
      BY ContainsElems DEF Linked
    <3>. QED BY <1>8, <3>1 DEF CancelAsync, Cancel, CancelFdStep, Unlink
  <2>. QED BY <1>0, <1>2, <2>1 DEF Free
<1>9. CASE InstallDone \/ EventReturn
  <2>1. caller' = caller
    BY <1>9 DEF InstallDone, EventReturn
  <2>2. CASE hs' = hs
    BY <1>1, <2>1, <2>2
  <2>3. CASE notifying # NULL /\ AfterCallback(notifying)
    <3>1. notifying \notin Held /\ notifying \in Handles
      BY <1>0, <2>3 DEF Busy, IInv, TypeOK
    <3>2. \A x \in Held : hs'[x] = hs[x]
      BY <1>0, <2>3, <3>1 DEF AfterCallback, Free, Rearm
    <3>. QED BY <1>1, <2>1, <3>2
  <2>. QED BY <1>9, <2>2, <2>3 DEF InstallDone, EventReturn
<1>10. CASE Expire \/ \E f \in Fds : ScanHit(f)
  <2>1. PICK h, n : hs' = [hs EXCEPT ![h].noti = n] /\ caller' = caller
    BY <1>10 DEF Expire, ScanHit, ToReady
  <2>2. \A x \in Handles : hs'[x].oneshot = hs[x].oneshot /\ hs'[x].dead = hs[x].dead
    BY <1>0, <2>1 DEF Record
  <2>. QED BY <1>0, <1>1, <2>1, <2>2
<1>11. CASE CancelReturn
  <2>1. cancelling \notin Held /\ hs' = [hs EXCEPT ![cancelling] = Blank] /\ caller' = caller
    BY <1>0, <1>11 DEF CancelReturn, Free, Busy
  <2>. QED BY <1>2, <2>1
<1>12. CASE \E t \in Thread, h \in Handle, ms \in Timeouts : ThreadAlloc(t, h, ms)
  <2>1. PICK t \in Thread, h \in Handle, ms \in Timeouts : ThreadAlloc(t, h, ms)
    BY <1>12
  <2>2. h \notin alloc /\ caller' = [caller EXCEPT ![t] = h]
    BY <2>1 DEF ThreadAlloc, OneshotTimer
  <2>3. Held' \subseteq Held \cup {h}
    BY <1>0, <2>2 DEF Held
  <2>4. \A x \in Held : hs'[x] = hs[x]
    BY <1>0, <2>1, <2>2 DEF ThreadAlloc, OneshotTimer
  <2>5. hs'[h].oneshot /\ ~hs'[h].dead
    BY <1>0, <2>1 DEF ThreadAlloc, OneshotTimer, Blank
  <2>. QED BY <2>3, <2>4, <2>5 DEF HeldFresh
<1>13. CASE \E t \in Thread : ThreadEnqueue(t)
  <2>1. PICK t \in Thread : ThreadEnqueue(t)
    BY <1>13
  <2>2. caller' = [caller EXCEPT ![t] = NULL] /\ caller[t] # NULL
    BY <2>1 DEF ThreadEnqueue
  <2>3. Held' \subseteq Held \ {caller[t]}
    BY <1>0, <2>2 DEF Held, CallersDistinct
  <2>4. hs' = hs \/ hs' = [hs EXCEPT ![caller[t]] = Blank]
    BY <2>1 DEF ThreadEnqueue, Free
  <2>5. \A x \in Held \ {caller[t]} : hs'[x] = hs[x]
    BY <1>0, <2>4
  <2>. QED BY <2>3, <2>5 DEF HeldFresh
<1>. QED BY <1>3, <1>4, <1>5, <1>6, <1>7, <1>8, <1>9, <1>10, <1>11, <1>12, <1>13
     DEF Next, Api, Loop, Threads

(* What the lifecycle sees of handle x is the same after a step. *)
Same(x) ==
  /\ x \in alloc' <=> x \in alloc
  /\ x \in Held' <=> x \in Held
  /\ notifying' = x <=> notifying = x
  /\ cancelling' = x <=> cancelling = x
  /\ x \in alloc => /\ hs'[x].dead <=> hs[x].dead
                    /\ hs'[x].oneshot <=> hs[x].oneshot

(* The abstract state of one handle. *)
LEMMA AbsAt ==
  ASSUME NEW h \in Handle
  PROVE  /\ AbsState[h] = IF h \notin alloc \/ h \in Held THEN "none"
                          ELSE IF h = notifying THEN "firing"
                          ELSE IF h = cancelling THEN "cancelled" ELSE "armed"
         /\ AbsState'[h] = IF h \notin alloc' \/ h \in Held' THEN "none"
                           ELSE IF h = notifying' THEN "firing"
                           ELSE IF h = cancelling' THEN "cancelled" ELSE "armed"
<1>1. h # NULL
  BY Constants
<1>2. h \in Held <=> h \in {caller[t] : t \in Thread}
  BY <1>1 DEF Held
<1>3. h \in Held' <=> h \in {caller'[t] : t \in Thread}
  BY <1>1 DEF Held
<1>. QED BY <1>2, <1>3 DEF AbsState

(* Steps that the lifecycle does not see, or sees at one handle only. *)
LEMMA ViewMove ==
  ASSUME NEW h, \A x \in Handle \ {h} : Same(x)
  PROVE  /\ h \notin Handle => UNCHANGED <<AbsState, AbsDoomed, AbsPersistent>>
         /\ h \in Handle => AbsState' = [AbsState EXCEPT ![h] = AbsState'[h]]
         /\ AbsDoomed' \ {h} = AbsDoomed \ {h}
         /\ AbsPersistent' \ {h} = AbsPersistent \ {h}
<1>1. \A x \in Handle \ {h} : AbsState'[x] = AbsState[x]
  BY AbsAt DEF Same
<1>2. /\ AbsState \in [Handle -> {"none", "firing", "cancelled", "armed"}]
      /\ AbsState' \in [Handle -> {"none", "firing", "cancelled", "armed"}]
  BY DEF AbsState
<1>3. h \notin Handle => AbsState' = AbsState
  BY <1>1, <1>2
<1>4. h \in Handle => AbsState' = [AbsState EXCEPT ![h] = AbsState'[h]]
  BY <1>1, <1>2
<1>5. \A x \in Handle \ {h} : x \in AbsDoomed' <=> x \in AbsDoomed
  BY DEF Same, AbsDoomed
<1>6. \A x \in Handle \ {h} : x \in AbsPersistent' <=> x \in AbsPersistent
  BY DEF Same, AbsPersistent
<1>7. /\ AbsDoomed \subseteq Handle /\ AbsDoomed' \subseteq Handle
      /\ AbsPersistent \subseteq Handle /\ AbsPersistent' \subseteq Handle
  BY DEF AbsDoomed, AbsPersistent
<1>8. h \notin Handle => UNCHANGED <<AbsDoomed, AbsPersistent>>
  BY <1>5, <1>6, <1>7
<1>. QED BY <1>3, <1>4, <1>5, <1>6, <1>7, <1>8

(* A step that changes nothing the lifecycle sees of any handle.           *)
LEMMA ViewSame ==
  ASSUME \A x \in Handle : Same(x), stopping' <=> stopping, pc' = "gone" <=> pc = "gone"
  PROVE  UNCHANGED Lifecycle!vars
<1>1. WakeH \notin Handle
  BY Constants
<1>2. UNCHANGED <<AbsState, AbsDoomed, AbsPersistent>>
  BY <1>1, ViewMove
<1>3. AbsLoop' = AbsLoop
  BY DEF AbsLoop
<1>. QED BY <1>2, <1>3 DEF Lifecycle!vars

(* A handle that is freed is released. *)
LEMMA ViewRelease ==
  ASSUME hs \in [Handles -> Record], NEW h \in Handle, Free(h),
         \A x \in Handle \ {h} : /\ x \in Held' <=> x \in Held
                                 /\ notifying' = x <=> notifying = x
                                 /\ cancelling' = x <=> cancelling = x,
         stopping' <=> stopping, pc' = "gone" <=> pc = "gone"
  PROVE  Lifecycle!Release(h)
<1>1. h \notin alloc' /\ alloc' = alloc \ {h}
  BY DEF Free
<1>2. \A x \in Handle \ {h} : Same(x)
  BY Constants DEF Same, Free
<1>3. AbsState'[h] = "none"
  BY <1>1, AbsAt
<1>4. h \notin AbsDoomed' /\ h \notin AbsPersistent'
  BY <1>1 DEF AbsDoomed, AbsPersistent
<1>5. AbsLoop' = AbsLoop
  BY DEF AbsLoop
<1>6. AbsState' = [AbsState EXCEPT ![h] = "none"]
  BY <1>2, <1>3, ViewMove
<1>7. AbsDoomed' = AbsDoomed \ {h} /\ AbsPersistent' = AbsPersistent \ {h}
  BY <1>2, <1>4, ViewMove
<1>. QED BY <1>5, <1>6, <1>7 DEF Lifecycle!Release

(* Which abstract state the invariant gives a handle. *)
LEMMA Standing ==
  ASSUME IInv, NEW h \in Handle
  PROVE  /\ h \in Linked => AbsState[h] = "armed"
         /\ h = notifying => AbsState[h] = "firing"
         /\ h = cancelling => AbsState[h] = "cancelled"
         /\ h \notin alloc \/ h \in Held => AbsState[h] = "none"
<1>1. h # NULL
  BY Constants
<1>2. /\ Linked \cup Held \cup Busy \subseteq alloc /\ Linked \cap (Held \cup Busy) = {}
      /\ Held \cap Busy = {} /\ (cancelling # NULL => notifying # cancelling)
  BY DEF IInv, NoDangling, CallersDistinct, Control
<1>3. (h = notifying => h \in Busy) /\ (h = cancelling => h \in Busy)
  BY <1>1 DEF Busy
<1>. QED BY <1>1, <1>2, <1>3, AbsAt DEF Busy

(* No callback of the application runs. *)
LEMMA Quiescent ==
  ASSUME notifying \notin Handle, cancelling \notin Handle
  PROVE  Lifecycle!Idle
<1>1. \A h \in Handle : AbsState[h] \notin {"firing", "cancelled"}
  BY AbsAt
<1>. QED BY <1>1 DEF Lifecycle!Idle

(* Steps of the loop that the lifecycle does not distinguish. *)
LEMMA QuietRefines ==
  ASSUME IInv,
         \/ RunOnce \/ Tick \/ EpollError \/ Epoll \/ CancelFdDone \/ InstallLock
         \/ \E f \in Fd : CancelFd(f)
         \/ \E ut \in Timeouts \cup {INFINITE} : Poll(ut)
         \/ \E f \in Fds : ScanNext(f)
         \/ ScanDone \/ ExpireDone \/ DispatchDone \/ FinalizeClose
         \/ Expire \/ \E f \in Fds : ScanHit(f)
         \/ \E h \in Handle, ms \in Timeouts \cup {INFINITE} : SetTimeout(h, ms)
         \/ UNCHANGED vars
  PROVE  UNCHANGED Lifecycle!vars
<1>0. hs \in [Handles -> Record] /\ Handle \subseteq Handles
  BY Constants DEF IInv, TypeOK
<1>1. UNCHANGED <<alloc, caller, notifying, cancelling, stopping>> /\ (pc' = "gone" <=> pc = "gone")
  <2>1. CASE \/ RunOnce \/ Tick \/ EpollError \/ Epoll \/ CancelFdDone \/ InstallLock
             \/ \E f \in Fd : CancelFd(f)
             \/ UNCHANGED vars
    BY <2>1 DEF RunOnce, UserCode, Tick, EpollError, RunLeave, Epoll, EpollEvents, EpollTimeout, CancelFdDone,
      InstallLock, CancelFd, vars, flags
  <2>2. CASE \/ \E ut \in Timeouts \cup {INFINITE} : Poll(ut)
             \/ \E f \in Fds : ScanNext(f)
             \/ ScanDone \/ ExpireDone \/ DispatchDone \/ FinalizeClose
    BY <2>2 DEF Poll, ScanNext, ScanDone, ExpireDone, DispatchDone, RunLeave, FinalizeClose, flags
  <2>3. CASE \/ Expire \/ \E f \in Fds : ScanHit(f)
             \/ \E h \in Handle, ms \in Timeouts \cup {INFINITE} : SetTimeout(h, ms)
    BY <2>3 DEF Expire, ScanHit, SetTimeout, UserCode, flags
  <2>. QED BY <2>1, <2>2, <2>3
<1>2. \A x \in Handles : hs'[x].dead = hs[x].dead /\ hs'[x].oneshot = hs[x].oneshot
  <2>1. CASE Expire \/ \E f \in Fds : ScanHit(f)
    <3>1. PICK h, n : hs' = [hs EXCEPT ![h].noti = n]
      BY <2>1 DEF Expire, ScanHit, ToReady
    <3>. QED BY <1>0, <3>1 DEF Record
  <2>2. CASE \E h \in Handle, ms \in Timeouts \cup {INFINITE} : SetTimeout(h, ms)
    BY <1>0, <2>2 DEF SetTimeout, Record
  <2>3. CASE hs' = hs
    BY <2>3
  <2>. QED BY <2>1, <2>2, <2>3 DEF RunOnce, Tick, EpollError, Epoll, EpollEvents, EpollTimeout,
      CancelFdDone, InstallLock, CancelFd, Poll, ScanNext, ScanDone, ExpireDone, DispatchDone,
      FinalizeClose, vars
<1>3. \A x \in Handle : Same(x)
  BY <1>0, <1>1, <1>2 DEF Same, Held
<1>. QED BY <1>1, <1>3, ViewSame

(* The API calls of the application. *)
LEMMA ApiRefines ==
  ASSUME IInv, Running,
         \/ \E h \in Handle, f \in Fd \cup {TimerFd}, req \in Requests \cup {{}},
               ms \in Timeouts \cup {INFINITE}, one \in BOOLEAN : AddFd(h, f, req, ms, one)
         \/ \E h \in Handle, ms \in Timeouts : AddOneshotTimer(h, ms)
         \/ \E h \in Handle : CancelSelf(h) \/ CancelAsync(h) \/ Cancel(h)
         \/ CancelFdStep \/ Destroy \/ Create
  PROVE  Lifecycle!Next \/ UNCHANGED Lifecycle!vars
<1>. USE Constants
<1>0. /\ hs \in [Handles -> Record] /\ Handle \subseteq Handles /\ Held \subseteq alloc /\ Busy \subseteq alloc
      /\ Linked \subseteq alloc /\ notifying \in Handles \cup {NULL} /\ cancelling \in Handles \cup {NULL}
  BY DEF IInv, TypeOK, NoDangling
<1>1. CASE \/ \E h \in Handle, f \in Fd \cup {TimerFd}, req \in Requests \cup {{}},
                 ms \in Timeouts \cup {INFINITE}, one \in BOOLEAN : AddFd(h, f, req, ms, one)
           \/ \E h \in Handle, ms \in Timeouts : AddOneshotTimer(h, ms)
  <2>1. PICK h \in Handle \ alloc, r \in Record :
          /\ UserCode /\ ~stopping /\ alloc' = alloc \cup {h} /\ hs' = [hs EXCEPT ![h] = r] /\ r.dead = FALSE
          /\ UNCHANGED <<notifying, cancelling, caller, flags, pc>>
    <3>1. CASE \E h \in Handle, f \in Fd \cup {TimerFd}, req \in Requests \cup {{}},
                 ms \in Timeouts \cup {INFINITE}, one \in BOOLEAN : AddFd(h, f, req, ms, one)
      <4>1. PICK h \in Handle, f \in Fd \cup {TimerFd}, req \in Requests \cup {{}},
                 ms \in Timeouts \cup {INFINITE}, one \in BOOLEAN : AddFd(h, f, req, ms, one)
        BY <3>1
      <4>2. ms \in 0..UINT64_MAX /\ now \in 0..MaxTime /\ Deadline(ms, now) \in 0..UINT64_MAX
        BY DeadlineType DEF IInv, TypeOK
      <4>3. req \subseteq ReqFlag /\ f \in Fds \cup {TimerFd}
        BY ConstantsAssumption DEF Fds
      <4>. DEFINE r == [Blank EXCEPT !.fd = f, !.flag = req, !.timeout_ms = ms,
                            !.timeout_at = Deadline(ms, now), !.oneshot = one]
      <4>4. r \in Record /\ r.dead = FALSE
        BY <4>2, <4>3 DEF Record, Blank
      <4>. QED BY <4>1, <4>4 DEF AddFd
    <3>2. CASE \E h \in Handle, ms \in Timeouts : AddOneshotTimer(h, ms)
      <4>1. PICK h \in Handle, ms \in Timeouts : AddOneshotTimer(h, ms)
        BY <3>2
      <4>2. ms \in 0..UINT64_MAX /\ now \in 0..MaxTime /\ Deadline(ms, now) \in 0..UINT64_MAX
        BY DeadlineType DEF IInv, TypeOK
      <4>. DEFINE r == [Blank EXCEPT !.timeout_ms = ms, !.timeout_at = Deadline(ms, now), !.oneshot = TRUE]
      <4>4. r \in Record /\ r.dead = FALSE
        BY <4>2 DEF Record, Blank
      <4>. QED BY <4>1, <4>4 DEF AddOneshotTimer, OneshotTimer
    <3>. QED BY <1>1, <3>1, <3>2
  <2>2. h \notin Held /\ h \notin Busy /\ Held' = Held /\ pc = "user"
    BY <1>0, <2>1 DEF Held, UserCode
  <2>3. \A x \in Handle \ {h} : Same(x)
    BY <1>0, <2>1, <2>2 DEF Same
  <2>4. AbsState[h] = "none" /\ AbsState'[h] = "armed" /\ h \notin AbsDoomed /\ h \notin AbsDoomed'
    <3>1. AbsState[h] = "none"
      BY <2>1, Standing
    <3>2. h # notifying' /\ h # cancelling'
      BY <2>1, <2>2 DEF Busy
    <3>3. AbsState'[h] = "armed"
      BY <2>1, <2>2, <3>2, AbsAt
    <3>4. hs'[h].dead = FALSE
      BY <1>0, <2>1
    <3>. QED BY <2>1, <3>1, <3>3, <3>4 DEF AbsDoomed
  <2>5. AbsState' = [AbsState EXCEPT ![h] = "armed"] /\ AbsDoomed' = AbsDoomed
    BY <2>3, <2>4, ViewMove
  <2>6. h \notin AbsPersistent /\ AbsPersistent' \in {AbsPersistent, AbsPersistent \cup {h}}
    <3>1. h \notin AbsPersistent
      BY <2>1 DEF AbsPersistent
    <3>. QED BY <2>3, <3>1, ViewMove
  <2>7. AbsLoop = "running" /\ AbsLoop' = AbsLoop
    BY <2>1, <2>2 DEF AbsLoop, flags
  <2>8. Lifecycle!Register(h)
    BY <2>4, <2>5, <2>6, <2>7 DEF Lifecycle!Register
  <2>. QED BY <2>8 DEF Lifecycle!Next
<1>2. CASE \E h \in Handle : CancelSelf(h)
  <2>1. PICK h \in Handle : CancelSelf(h)
    BY <1>2
  <2>2. AbsState[h] = "firing"
    BY <2>1, Standing DEF CancelSelf
  <2>3. UNCHANGED <<alloc, Held, notifying, cancelling, stopping, pc>>
    BY <2>1 DEF CancelSelf, flags, Held
  <2>4. /\ hs'[h].dead = TRUE /\ h \in alloc
        /\ \A x \in Handle : hs'[x].oneshot = hs[x].oneshot
        /\ \A x \in Handle \ {h} : hs'[x] = hs[x]
    BY <1>0, <2>1 DEF CancelSelf, Known, Record
  <2>5. \A x \in Handle \ {h} : Same(x)
    BY <2>3, <2>4 DEF Same
  <2>6. AbsState'[h] = AbsState[h]
    BY <2>3, AbsAt
  <2>7. AbsState' = AbsState
    <3>1. AbsState' = [AbsState EXCEPT ![h] = AbsState[h]]
      BY <2>5, <2>6, ViewMove
    <3>2. AbsState \in [Handle -> {"none", "firing", "cancelled", "armed"}]
      BY DEF AbsState
    <3>. QED BY <3>1, <3>2
  <2>8. AbsDoomed' = AbsDoomed \cup {h}
    <3>1. h \in AbsDoomed'
      BY <2>3, <2>4 DEF AbsDoomed
    <3>. QED BY <2>5, <3>1, ViewMove
  <2>9. AbsPersistent' = AbsPersistent /\ AbsLoop' = AbsLoop
    BY <2>3, <2>4 DEF AbsPersistent, AbsLoop
  <2>10. Lifecycle!Doom(h)
    BY <2>2, <2>7, <2>8, <2>9 DEF Lifecycle!Doom
  <2>. QED BY <2>10 DEF Lifecycle!Next
<1>3. CASE (\E h \in Handle : CancelAsync(h) \/ Cancel(h)) \/ CancelFdStep
  <2>1. PICK h \in Linked : /\ Free(h) /\ pc # "gone"
                            /\ UNCHANGED <<caller, notifying, cancelling, stopping, pc>>
    <3>1. \A h : qent_contains(async, h) \/ qent_contains(fdmon, h) \/ qent_contains(ready, h)
                   \/ qent_contains(timer, h) => h \in Linked
      BY ContainsElems DEF Linked
    <3>. QED BY <1>3, <3>1 DEF CancelAsync, Cancel, CancelFdStep, Unlink, UserCode, flags
  <2>2. Held' = Held
    BY <2>1 DEF Held
  <2>3. CASE h \in Handle
    <3>1. AbsState[h] = "armed" /\ AbsLoop # "absent"
      BY <2>1, <2>3, Standing DEF AbsLoop
    <3>2. Lifecycle!Release(h)
      BY <1>0, <2>1, <2>2, <2>3, ViewRelease
    <3>3. Lifecycle!Cancel(h)
      BY <3>1, <3>2 DEF Lifecycle!Cancel
    <3>. QED BY <2>3, <3>3 DEF Lifecycle!Next
  <2>4. CASE h \notin Handle
    <3>1. \A x \in Handle : Same(x)
      BY <1>0, <2>1, <2>2, <2>4 DEF Same, Free
    <3>. QED BY <2>1, <3>1, ViewSame
  <2>. QED BY <2>3, <2>4
<1>4. CASE Destroy
  <2>1. /\ UNCHANGED <<alloc, hs, caller, notifying, cancelling>>
        /\ stopping' = TRUE /\ pc = "user" /\ pc' # "gone"
    BY <1>4 DEF Destroy, UserCode
  <2>2. \A x \in Handle : Same(x)
    BY <2>1 DEF Same, Held
  <2>3. CASE stopping
    BY <2>1, <2>2, <2>3, ViewSame
  <2>4. CASE ~stopping
    <3>1. AbsLoop = "running" /\ AbsLoop' = "stopping"
      BY <2>1, <2>4 DEF AbsLoop
    <3>2. UNCHANGED <<AbsState, AbsDoomed, AbsPersistent>>
      BY <2>2, ViewMove
    <3>3. Lifecycle!Destroy
      BY <3>1, <3>2 DEF Lifecycle!Destroy
    <3>. QED BY <3>3 DEF Lifecycle!Next
  <2>. QED BY <2>3, <2>4
<1>5. CASE Create
  <2>1. /\ pc = "gone" /\ pc' = "user" /\ UNCHANGED <<caller, notifying, cancelling, stopping>>
        /\ alloc' = alloc \cup {WakeH} /\ \E r : hs' = [hs EXCEPT ![WakeH] = r]
    BY <1>5 DEF Create, flags
  <2>2. ~stopping
    BY <2>1 DEF Running
  <2>3. \A x \in Handle \ {WakeH} : Same(x)
    BY <1>0, <2>1 DEF Same, Held
  <2>4. UNCHANGED <<AbsState, AbsDoomed, AbsPersistent>>
    BY <2>3, ViewMove
  <2>5. AbsLoop = "absent" /\ AbsLoop' = "running"
    BY <2>1, <2>2 DEF AbsLoop
  <2>6. Lifecycle!Create
    BY <2>4, <2>5 DEF Lifecycle!Create
  <2>. QED BY <2>6 DEF Lifecycle!Next
<1>. QED BY <1>1, <1>2, <1>3, <1>4, <1>5

(* The steps of the loop thread and of the other threads that the          *)
(* lifecycle sees.                                                         *)
LEMMA LoopRefines ==
  ASSUME TimeoutsFit, IInv, HeldFresh,
         \/ InstallOne \/ InstallDone \/ Dispatch \/ EventReturn \/ CancelReturn
         \/ FinalizeOne \/ FinalizeAsync \/ FreeCtx
         \/ \E t \in Thread, h \in Handle, ms \in Timeouts : ThreadAlloc(t, h, ms)
         \/ \E t \in Thread : ThreadEnqueue(t)
  PROVE  Lifecycle!Next \/ UNCHANGED Lifecycle!vars
<1>. USE Constants
<1>0. /\ hs \in [Handles -> Record] /\ Handle \subseteq Handles /\ Held \subseteq alloc /\ Busy \subseteq alloc
      /\ Linked \subseteq alloc /\ notifying \in Handles \cup {NULL} /\ cancelling \in Handles \cup {NULL}
      /\ alloc \subseteq Handles /\ Held \cap Busy = {} /\ Linked \cap (Held \cup Busy) = {}
      /\ caller \in [Thread -> Handle \cup {NULL}] /\ Control
  BY DEF IInv, TypeOK, NoDangling, CallersDistinct
<1>l. /\ fdmon \in Seq(Handles) /\ timer \in Seq(Handles) /\ ready \in Seq(Handles) /\ async \in Seq(Handles)
  BY DEF IInv, TypeOK
<1>h. ASSUME NEW l \in Seq(Handles), l # <<>>
      PROVE  Head(l) \in Elems(l)
  BY <1>h, HeadTailProperties, ElementOfSeq DEF Elems
<1>1. ASSUME NEW h \in Linked, stopping, pc # "gone", pc' # "gone", notifying \notin Handle, cancelling \notin Handle,
             cancelling' = h, UNCHANGED <<alloc, hs, caller, notifying, stopping>>
      PROVE  Lifecycle!Next \/ UNCHANGED Lifecycle!vars
  <2>1. \A x \in Handle \ {h} : Same(x)
    BY <1>1 DEF Same, Held
  <2>2. CASE h \notin Handle
    BY <1>1, <2>1, <2>2, ViewSame
  <2>3. CASE h \in Handle
    <3>1. AbsState[h] = "armed" /\ Lifecycle!Idle
      BY <1>1, <2>3, Standing, Quiescent
    <3>2. h \in alloc' /\ h \notin Held' /\ h # notifying' /\ h = cancelling'
      BY <1>0, <1>1, <2>3 DEF Held
    <3>3. AbsState'[h] = "cancelled"
      BY <2>3, <3>2, AbsAt
    <3>4. AbsState' = [AbsState EXCEPT ![h] = "cancelled"]
      BY <2>1, <2>3, <3>3, ViewMove
    <3>5. AbsLoop = "stopping" /\ AbsLoop' = AbsLoop /\ UNCHANGED <<AbsDoomed, AbsPersistent>>
      BY <1>1 DEF AbsLoop, AbsDoomed, AbsPersistent
    <3>6. Lifecycle!Abandon(h)
      BY <3>1, <3>4, <3>5 DEF Lifecycle!Abandon
    <3>. QED BY <2>3, <3>6 DEF Lifecycle!Next
  <2>. QED BY <2>2, <2>3
<1>2. CASE InstallOne
  <2>. DEFINE h == Head(async)
  <2>1. h \in Elems(async) /\ h \in Linked
    BY <1>2, <1>h, <1>l DEF InstallOne, Linked
  <2>2. hs[h].timeout_at # UINT64_MAX
    <3>1. hs[h].fd = TimerFd /\ hs[h].timeout_at < UINT64_MAX
      BY <1>0, <2>1 DEF IInv, Deadlines
    <3>. QED BY <1>0, <3>1
  <2>3. notifying \notin Handle /\ cancelling \notin Handle
    BY <1>0, <1>2 DEF InstallOne, Control
  <2>4. CASE stopping
    <3>1. cancelling' = h /\ pc' = "user" /\ pc = "install"
          /\ UNCHANGED <<alloc, hs, caller, notifying, stopping>>
      BY <1>2, <2>4 DEF InstallOne, flags
    <3>. QED BY <1>1, <2>1, <2>3, <2>4, <3>1
  <2>5. CASE ~stopping
    <3>1. UNCHANGED <<alloc, hs, caller, notifying, cancelling, stopping, pc>>
      BY <1>2, <2>2, <2>5 DEF InstallOne, flags
    <3>2. \A x \in Handle : Same(x)
      BY <3>1 DEF Same, Held
    <3>. QED BY <3>1, <3>2, ViewSame
  <2>. QED BY <2>4, <2>5
<1>3. CASE FinalizeOne
  <2>. DEFINE h == Head(FinalList)
  <2>1. h \in Linked
    BY <1>3, <1>h, <1>l DEF FinalizeOne, FinalList, Linked
  <2>2. stopping /\ notifying = NULL /\ cancelling = NULL /\ pc = "final"
    BY <1>0, <1>3 DEF FinalizeOne, Control
  <2>3. cancelling' = h /\ pc' = "user" /\ UNCHANGED <<alloc, hs, caller, notifying, stopping>>
    BY <1>3 DEF FinalizeOne, flags
  <2>. QED BY <1>1, <2>1, <2>2, <2>3
<1>4. CASE FinalizeAsync
  <2>. DEFINE h == Head(async)
  <2>1. h \in Linked
    BY <1>4, <1>h, <1>l DEF FinalizeAsync, Linked
  <2>2. stopping /\ notifying = NULL /\ cancelling = NULL /\ pc = "final"
    BY <1>0, <1>4 DEF FinalizeAsync, Control
  <2>3. cancelling' = h /\ pc' = "user" /\ UNCHANGED <<alloc, hs, caller, notifying, stopping>>
    BY <1>4 DEF FinalizeAsync, flags
  <2>. QED BY <1>1, <2>1, <2>2, <2>3
<1>5. CASE InstallDone
  <2>1. notifying \in {NULL, WakeH} /\ pc = "install" /\ UNCHANGED <<caller, cancelling, stopping>>
    BY <1>0, <1>5 DEF InstallDone, Control, flags
  <2>2. CASE notifying = NULL
    <3>1. UNCHANGED <<alloc, hs, notifying>> /\ pc' = "poll"
      BY <1>5, <2>2 DEF InstallDone
    <3>2. \A x \in Handle : Same(x)
      BY <2>1, <3>1 DEF Same, Held
    <3>. QED BY <2>1, <3>1, <3>2, ViewSame
  <2>3. CASE notifying = WakeH
    <3>1. AfterCallback(WakeH)
      BY <1>5, <2>3 DEF InstallDone
    <3>2. notifying' = NULL /\ pc' = "dispatch" /\ alloc' \cap Handle = alloc \cap Handle
          /\ \A x \in Handle : hs'[x] = hs[x]
      BY <1>0, <3>1 DEF AfterCallback, Free, Rearm
    <3>3. \A x \in Handle : Same(x)
      BY <2>1, <2>3, <3>2 DEF Same, Held
    <3>. QED BY <2>1, <3>2, <3>3, ViewSame
  <2>. QED BY <2>1, <2>2, <2>3
<1>6. CASE EventReturn
  <2>. DEFINE h == notifying
  <2>1. /\ h \in Handle /\ cancelling = NULL /\ pc = "user" /\ AfterCallback(h)
        /\ UNCHANGED <<caller, cancelling, stopping>> /\ notifying' = NULL /\ pc' = "dispatch"
    BY <1>0, <1>6 DEF EventReturn, Control, AfterCallback, flags, Handles
  <2>2. AbsState[h] = "firing" /\ Held' = Held /\ h \in alloc /\ h \notin Held
    BY <1>0, <2>1, Standing DEF Held, Busy
  <2>3. AbsLoop = (IF stopping THEN "stopping" ELSE "running") /\ AbsLoop' = AbsLoop
    BY <2>1 DEF AbsLoop
  <2>4. (h \in AbsDoomed <=> hs[h].dead) /\ (h \in AbsPersistent <=> ~hs[h].oneshot)
    BY <2>1, <2>2 DEF AbsDoomed, AbsPersistent
  <2>5. CASE stopping \/ hs[h].dead \/ hs[h].oneshot
    <3>1. Free(h)
      BY <2>1, <2>5 DEF AfterCallback
    <3>2. Lifecycle!Release(h)
      BY <1>0, <2>1, <2>2, <3>1, ViewRelease
    <3>3. Lifecycle!Retire(h)
      BY <2>2, <2>3, <2>4, <2>5, <3>2 DEF Lifecycle!Retire
    <3>. QED BY <2>1, <3>3 DEF Lifecycle!Next
  <2>6. CASE ~(stopping \/ hs[h].dead \/ hs[h].oneshot)
    <3>1. Rearm(h)
      BY <2>1, <2>6 DEF AfterCallback
    <3>2. alloc' = alloc
          /\ \A x \in Handles : hs'[x].dead = hs[x].dead /\ hs'[x].oneshot = hs[x].oneshot
      BY <1>0, <3>1 DEF Rearm, Record
    <3>3. \A x \in Handle \ {h} : Same(x)
      BY <1>0, <2>1, <2>2, <3>2 DEF Same
    <3>4. AbsState'[h] = "armed"
      BY <2>1, <2>2, <3>2, AbsAt
    <3>5. AbsState' = [AbsState EXCEPT ![h] = "armed"]
      BY <2>1, <3>3, <3>4, ViewMove
    <3>6. UNCHANGED <<AbsDoomed, AbsPersistent>>
      BY <1>0, <3>2 DEF AbsDoomed, AbsPersistent
    <3>7. Lifecycle!Rearm(h)
      BY <2>2, <2>3, <2>4, <2>6, <3>5, <3>6 DEF Lifecycle!Rearm
    <3>. QED BY <2>1, <3>7 DEF Lifecycle!Next
  <2>. QED BY <2>5, <2>6
<1>7. CASE Dispatch
  <2>. DEFINE h == Head(ready)
  <2>1. h \in Linked /\ h \in Handles
    <3>1. h \in Linked
      BY <1>7, <1>h, <1>l DEF Dispatch, Linked
    <3>. QED BY <1>0, <3>1
  <2>2. /\ pc = "dispatch" /\ pc' # "gone" /\ notifying = NULL /\ cancelling = NULL /\ notifying' = h
        /\ UNCHANGED <<alloc, hs, caller, cancelling, stopping>>
    BY <1>0, <1>7 DEF Dispatch, Control, flags
  <2>3. \A x \in Handle \ {h} : Same(x)
    BY <2>2 DEF Same, Held
  <2>4. CASE h \notin Handle
    BY <2>2, <2>3, <2>4, ViewSame
  <2>5. CASE h \in Handle
    <3>1. AbsState[h] = "armed" /\ Lifecycle!Idle
      BY <2>1, <2>2, <2>5, Standing, Quiescent
    <3>2. h \in alloc' /\ h \notin Held'
      BY <1>0, <2>1, <2>2 DEF Held
    <3>3. AbsState'[h] = "firing"
      BY <2>2, <2>5, <3>2, AbsAt
    <3>4. AbsState' = [AbsState EXCEPT ![h] = "firing"]
      BY <2>3, <2>5, <3>3, ViewMove
    <3>5. AbsLoop # "absent" /\ AbsLoop' = AbsLoop /\ UNCHANGED <<AbsDoomed, AbsPersistent>>
      BY <2>2 DEF AbsLoop, AbsDoomed, AbsPersistent
    <3>6. Lifecycle!Fire(h)
      BY <3>1, <3>4, <3>5 DEF Lifecycle!Fire
    <3>. QED BY <2>5, <3>6 DEF Lifecycle!Next
  <2>. QED BY <2>4, <2>5
<1>8. CASE CancelReturn
  <2>. DEFINE h == cancelling
  <2>1. /\ h # NULL /\ Free(h) /\ cancelling' = NULL /\ pc # "gone" /\ pc' # "gone"
        /\ UNCHANGED <<caller, notifying, stopping>>
    BY <1>8 DEF CancelReturn, flags
  <2>2. CASE h \in Handle
    <3>1. AbsState[h] = "cancelled"
      BY <2>2, Standing
    <3>2. Held' = Held
      BY <2>1 DEF Held
    <3>3. Lifecycle!Release(h)
      BY <1>0, <2>1, <2>2, <3>2, ViewRelease
    <3>4. Lifecycle!Abandoned(h)
      BY <3>1, <3>3 DEF Lifecycle!Abandoned
    <3>. QED BY <2>2, <3>4 DEF Lifecycle!Next
  <2>3. CASE h \notin Handle
    <3>1. \A x \in Handle : Same(x)
      BY <1>0, <2>1, <2>3 DEF Same, Free, Held
    <3>. QED BY <2>1, <3>1, ViewSame
  <2>. QED BY <2>2, <2>3
<1>9. CASE FreeCtx
  <2>1. /\ pc = "closed" /\ pc' = "gone" /\ UNCHANGED <<alloc, hs, caller, notifying, cancelling>>
    BY <1>9 DEF FreeCtx
  <2>2. /\ fdmon = <<>> /\ timer = <<>> /\ ready = <<>> /\ async = <<>>
        /\ notifying = NULL /\ cancelling = NULL /\ stopping
    BY <1>0, <2>1 DEF Control
  <2>3. Held = {} /\ Busy = {} /\ Linked = {}
    BY <1>9, <2>2, EmptySeq DEF FreeCtx, Held, Busy, Linked, Elems
  <2>4. alloc = {}
    BY <2>3 DEF IInv, Owned
  <2>5. \A h \in Handle : AbsState[h] = "none"
    BY <2>4, Standing
  <2>6. \A x \in Handle : Same(x)
    BY <2>1 DEF Same, Held
  <2>7. UNCHANGED <<AbsState, AbsDoomed, AbsPersistent>>
    BY <2>6, ViewMove
  <2>8. AbsLoop = "stopping" /\ AbsLoop' = "absent"
    BY <2>1, <2>2 DEF AbsLoop
  <2>9. Lifecycle!Vanish
    BY <2>5, <2>7, <2>8 DEF Lifecycle!Vanish
  <2>. QED BY <2>9 DEF Lifecycle!Next
<1>10. CASE \E t \in Thread, h \in Handle, ms \in Timeouts : ThreadAlloc(t, h, ms)
  <2>1. PICK t \in Thread, h \in Handle, ms \in Timeouts : ThreadAlloc(t, h, ms)
    BY <1>10
  <2>2. /\ h \notin alloc /\ alloc' = alloc \cup {h} /\ caller[t] = NULL
        /\ caller' = [caller EXCEPT ![t] = h]
        /\ UNCHANGED <<notifying, cancelling, stopping, pc>>
    BY <2>1 DEF ThreadAlloc, OneshotTimer, flags
  <2>3. Held' = Held \cup {h}
    BY <1>0, <2>2 DEF Held
  <2>4. /\ \A x \in Handles \ {h} : hs'[x] = hs[x]
        /\ hs'[h].oneshot = TRUE /\ hs'[h].dead = FALSE
    BY <1>0, <2>1 DEF ThreadAlloc, OneshotTimer, Blank
  <2>5. \A x \in Handle \ {h} : Same(x)
    BY <1>0, <2>2, <2>3, <2>4 DEF Same
  <2>6. AbsState[h] = "none" /\ AbsState'[h] = "none"
    BY <2>2, <2>3, AbsAt
  <2>7. AbsState' = AbsState
    <3>1. AbsState' = [AbsState EXCEPT ![h] = AbsState[h]]
      BY <2>5, <2>6, ViewMove
    <3>2. AbsState \in [Handle -> {"none", "firing", "cancelled", "armed"}]
      BY DEF AbsState
    <3>. QED BY <3>1, <3>2
  <2>8. h \notin AbsDoomed /\ h \notin AbsDoomed' /\ h \notin AbsPersistent /\ h \notin AbsPersistent'
    BY <2>2, <2>4 DEF AbsDoomed, AbsPersistent
  <2>9. UNCHANGED <<AbsDoomed, AbsPersistent>>
    BY <2>5, <2>8, ViewMove
  <2>10. AbsLoop' = AbsLoop
    BY <2>2 DEF AbsLoop
  <2>. QED BY <2>7, <2>9, <2>10 DEF Lifecycle!vars
<1>11. CASE \E t \in Thread : ThreadEnqueue(t)
  <2>1. PICK t \in Thread : ThreadEnqueue(t)
    BY <1>11
  <2>. DEFINE h == caller[t]
  <2>2. /\ h \in Handle /\ h \in Held /\ h \in alloc /\ h # notifying /\ h # cancelling
        /\ caller' = [caller EXCEPT ![t] = NULL]
        /\ UNCHANGED <<notifying, cancelling, stopping, pc>>
    BY <1>0, <2>1 DEF ThreadEnqueue, flags, Held, Busy
  <2>3. Held' = Held \ {h}
    BY <1>0, <2>2 DEF Held, IInv, CallersDistinct
  <2>4. AbsState[h] = "none"
    BY <2>2, AbsAt
  <2>5. h \notin AbsDoomed /\ h \notin AbsPersistent
    BY <2>2 DEF HeldFresh, AbsDoomed, AbsPersistent
  <2>6. AbsLoop' = AbsLoop
    BY <2>2 DEF AbsLoop
  <2>7. CASE stopping \/ finalized
    <3>1. Free(h)
      BY <2>1, <2>7 DEF ThreadEnqueue
    <3>2. Lifecycle!Release(h)
      BY <1>0, <2>2, <2>3, <3>1, ViewRelease
    <3>3. AbsState \in [Handle -> {"none", "firing", "cancelled", "armed"}]
      BY DEF AbsState
    <3>4. AbsState' = AbsState
      BY <2>4, <3>2, <3>3 DEF Lifecycle!Release
    <3>. QED BY <2>5, <2>6, <3>2, <3>4 DEF Lifecycle!Release, Lifecycle!vars
  <2>8. CASE ~(stopping \/ finalized)
    <3>1. UNCHANGED <<alloc, hs>>
      BY <2>1, <2>8 DEF ThreadEnqueue
    <3>2. \A x \in Handle \ {h} : Same(x)
      BY <2>2, <2>3, <3>1 DEF Same
    <3>3. AbsState'[h] = "armed"
      BY <2>2, <2>3, <3>1, AbsAt
    <3>4. AbsState' = [AbsState EXCEPT ![h] = "armed"]
      BY <2>2, <3>2, <3>3, ViewMove
    <3>5. UNCHANGED <<AbsDoomed, AbsPersistent>>
      BY <3>1 DEF AbsDoomed, AbsPersistent
    <3>6. pc # "gone"
      BY <1>0, <2>2 DEF Control
    <3>7. AbsLoop = "running"
      BY <2>8, <3>6 DEF AbsLoop
    <3>8. Lifecycle!Register(h)
      BY <2>4, <2>6, <3>4, <3>5, <3>7 DEF Lifecycle!Register
    <3>. QED BY <2>2, <3>8 DEF Lifecycle!Next
  <2>. QED BY <2>7, <2>8
<1>. QED BY <1>2, <1>3, <1>4, <1>5, <1>6, <1>7, <1>8, <1>9, <1>10, <1>11

(* The loop implements the lifecycle of handles that evb2.h describes:     *)
(* whatever callbacks, other threads and a destroy do, each step of        *)
(* evb2.c is a step of EvbLifecycle or leaves it unchanged.                *)
THEOREM Implements == ASSUME TimeoutsFit PROVE Spec => ImplementsLifecycle
<1>1. Init => Lifecycle!Init
  <2>. SUFFICES ASSUME Init PROVE Lifecycle!Init
    OBVIOUS
  <2>1. alloc = {} /\ pc = "gone"
    BY DEF Init
  <2>2. AbsState = [h \in Handle |-> "none"]
    BY <2>1 DEF AbsState
  <2>. QED BY <2>1, <2>2 DEF Lifecycle!Init, AbsLoop, AbsDoomed, AbsPersistent
<1>2. Init => HeldFresh
  BY DEF Init, HeldFresh, Held
<1>3. IInv /\ HeldFresh /\ [Next]_vars => HeldFresh'
  BY HeldFreshStep
<1>4. WInv => IInv /\ Running
  BY DEF WInv
<1>5. WInv /\ HeldFresh /\ [Next]_vars => [Lifecycle!Next]_(Lifecycle!vars)
  BY <1>4, QuietRefines, ApiRefines, LoopRefines DEF Next, Api, Loop, Threads
<1>6. WInv /\ [Next]_vars => WInv'
  BY NextWInv
<1>. QED BY <1>1, <1>2, <1>3, <1>4, <1>5, <1>6, InitWInv, PTL DEF Spec, ImplementsLifecycle, Lifecycle!Spec
=============================================================================

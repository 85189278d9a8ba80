------------------------------- MODULE AloeSem -------------------------------
(***************************************************************************)
(* The counting semaphore of aloe/sys_linux/sys_linux.cpp, built from a    *)
(* mutex and the condition variable not_empty.                             *)
(*                                                                         *)
(* The mutex is held only inside aloe_sem_post and between two returns of  *)
(* aloe_cond_wait, so each stretch under it is one step.  A thread inside  *)
(* aloe_sem_wait is asleep in pthread_cond_wait or, once signalled, woken  *)
(* and waiting for the mutex to look at cnt again.                         *)
(***************************************************************************)
EXTENDS Integers

CONSTANTS
  Waiter,     \* threads that call aloe_sem_wait
  Modes,      \* values of aloe_sem_post's broadcast argument in use
  Timed,      \* whether waits have a finite duration
  max,        \* the semaphore's bound
  cnt0        \* its initial count

ASSUME SemAssumption ==
  /\ Modes \subseteq BOOLEAN /\ Timed \in BOOLEAN
  /\ max \in Nat /\ cnt0 \in 0..max

VARIABLES
  cnt,        \* sem->cnt
  asleep,     \* threads blocked in pthread_cond_wait or _timedwait
  woken       \* threads it returned to that have yet to retake the mutex

vars == <<cnt, asleep, woken>>

(* aloe_sem_create and aloe_sem_init *)
Init == cnt = cnt0 /\ asleep = {} /\ woken = {}

(* pthread_cond_signal wakes one sleeper, pthread_cond_broadcast all. *)
Signal(broadcast) ==
  \/ /\ broadcast \/ asleep = {}
     /\ woken' = woken \cup asleep /\ asleep' = {}
  \/ /\ ~broadcast
     /\ \E w \in asleep : woken' = woken \cup {w} /\ asleep' = asleep \ {w}

(* Mutant: the signal is sent one count too late. *)
aloe_sem_post_late(broadcast) ==
  /\ cnt' = IF cnt < max THEN cnt + 1 ELSE cnt
  /\ IF cnt < max /\ cnt = 1 THEN Signal(broadcast) ELSE UNCHANGED <<asleep, woken>>

(* aloe_sem_post: saturates at max and signals on the change from 0 to 1. *)
aloe_sem_post(broadcast) ==
  /\ cnt' = IF cnt < max THEN cnt + 1 ELSE cnt
  /\ IF cnt < max /\ cnt' = 1 THEN Signal(broadcast) ELSE UNCHANGED <<asleep, woken>>

(* The loop of aloe_sem_wait with the mutex held: take a count or sleep.   *)
TakeOrSleep(w) ==
  IF cnt = 0 THEN asleep' = asleep \cup {w} /\ cnt' = cnt
             ELSE asleep' = asleep /\ cnt' = cnt - 1

(* aloe_sem_wait: the call, and the test repeated after a wake-up. *)
aloe_sem_wait(w) ==
  /\ w \notin asleep \cup woken
  /\ TakeOrSleep(w) /\ UNCHANGED woken

Resume(w) ==
  /\ w \in woken /\ woken' = woken \ {w}
  /\ TakeOrSleep(w)

(* pthread_cond_wait may return without a signal. *)
Spurious(w) ==
  /\ w \in asleep
  /\ asleep' = asleep \ {w} /\ woken' = woken \cup {w} /\ UNCHANGED cnt

(* pthread_cond_timedwait fails with ETIMEDOUT and aloe_sem_wait returns   *)
(* it without looking at cnt.                                              *)
TimeOut(w) ==
  /\ Timed /\ w \in asleep
  /\ asleep' = asleep \ {w} /\ UNCHANGED <<cnt, woken>>

Next ==
  \/ \E b \in Modes : aloe_sem_post(b)
  \/ \E w \in Waiter : aloe_sem_wait(w) \/ Resume(w) \/ Spurious(w) \/ TimeOut(w)

Spec == Init /\ [][Next]_vars

(* The mutex is granted in the end to every thread that wants it. *)
FairSpec == Spec /\ \A w \in Waiter : WF_vars(Resume(w))
-----------------------------------------------------------------------------
(* Properties *)

TypeOK ==
  /\ cnt \in 0..max
  /\ asleep \subseteq Waiter /\ woken \subseteq Waiter \ asleep

(* No thread sleeps while the semaphore has a count to take. *)
NoMissedCount == cnt > 0 => asleep = {}

(* sys.h: aloe_sem_post is to "Unlock a semaphore.", aloe_sem_wait to      *)
(* "Lock a semaphore."  A thread waiting on a semaphore that stays         *)
(* unlocked gets it in the end.                                            *)
WaiterServed == \A w \in Waiter : (w \in asleep /\ cnt > 0) ~> (w \notin asleep \/ cnt = 0)

(* The uses for which the signal on the change from 0 to 1 is enough:      *)
(* every post broadcasts, or at most one thread waits.                     *)
Covered == Modes \subseteq {TRUE} \/ \A v, w \in Waiter : v = w
=============================================================================

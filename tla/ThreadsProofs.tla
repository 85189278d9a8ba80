---------------------------- MODULE ThreadsProofs ----------------------------
(***************************************************************************)
(* The semaphore of sys_linux.cpp, for any number of threads and any       *)
(* bound; the BlueZ peripheral of bluez1.cpp, for any number of calls; and *)
(* cc1352-flash, for a flash and a chunk of any size, any deadline and any *)
(* number of faults on the line.                                           *)
(***************************************************************************)
EXTENDS Threads, SequenceTheorems, TLAPS

IInv == TypeOK /\ NoMissedCount

(* The constants, as numbers. *)
LEMMA SemConstants == max \in Nat /\ cnt0 \in 0..max /\ Modes \subseteq BOOLEAN
BY SemAssumption

(* One signal is enough when every post broadcasts or one thread waits. *)
LEMMA SignalAll ==
  ASSUME Covered, NEW b \in Modes, asleep \subseteq Waiter, woken \subseteq Waiter \ asleep,
         Signal(b)
  PROVE  asleep' = {} /\ woken' \subseteq Waiter
<1>1. CASE b \/ asleep = {}
  <2>1. CASE woken' = woken \cup asleep /\ asleep' = {}
    BY <2>1
  <2>2. CASE ~b /\ \E w \in asleep : woken' = woken \cup {w} /\ asleep' = asleep \ {w}
    BY <1>1, <2>2
  <2>. QED BY <2>1, <2>2 DEF Signal
<1>2. CASE ~b /\ asleep # {}
  <2>1. \A v, w \in Waiter : v = w
    BY <1>2 DEF Covered
  <2>2. PICK w \in asleep : woken' = woken \cup {w} /\ asleep' = asleep \ {w}
    BY <1>2 DEF Signal
  <2>. QED BY <2>1, <2>2
<1>. QED BY <1>1, <1>2

(* The invariant is inductive. *)
LEMMA SemStep == ASSUME Covered, IInv, [Next]_vars PROVE IInv'
<1>. USE SemConstants
<1>1. ASSUME NEW b \in Modes, aloe_sem_post(b) PROVE IInv'
  <2>1. CASE cnt < max /\ cnt' = 1
    <3>1. asleep' = {} /\ woken' \subseteq Waiter
      BY <1>1, <2>1, SignalAll DEF aloe_sem_post, IInv, TypeOK
    <3>. QED BY <2>1, <3>1 DEF IInv, TypeOK, NoMissedCount
  <2>2. CASE ~(cnt < max /\ cnt' = 1)
    BY <1>1, <2>2 DEF aloe_sem_post, IInv, TypeOK, NoMissedCount
  <2>. QED BY <2>1, <2>2
<1>2. ASSUME NEW w \in Waiter, aloe_sem_wait(w) PROVE IInv'
  BY <1>2 DEF aloe_sem_wait, TakeOrSleep, IInv, TypeOK, NoMissedCount
<1>3. ASSUME NEW w \in Waiter, Resume(w) PROVE IInv'
  BY <1>3 DEF Resume, TakeOrSleep, IInv, TypeOK, NoMissedCount
<1>4. ASSUME NEW w \in Waiter, Spurious(w) PROVE IInv'
  BY <1>4 DEF Spurious, IInv, TypeOK, NoMissedCount
<1>5. ASSUME NEW w \in Waiter, TimeOut(w) PROVE IInv'
  BY <1>5 DEF TimeOut, IInv, TypeOK, NoMissedCount
<1>6. CASE UNCHANGED vars
  BY <1>6 DEF vars, IInv, TypeOK, NoMissedCount
<1>. QED BY <1>1, <1>2, <1>3, <1>4, <1>5, <1>6 DEF Next

(* aloe_sem_post's signal on the change from 0 to 1 wakes everybody it has *)
(* to when posts broadcast or one thread waits: whatever the timeouts and  *)
(* spurious wake-ups, nobody sleeps on a positive count, and the count     *)
(* stays between 0 and max.                                                *)
THEOREM SemSafe == ASSUME Covered PROVE Spec => [](TypeOK /\ NoMissedCount)
<1>1. Init => IInv
  BY SemConstants DEF Init, IInv, TypeOK, NoMissedCount
<1>2. IInv => TypeOK /\ NoMissedCount
  BY DEF IInv
<1>. QED BY <1>1, <1>2, SemStep, PTL DEF Spec

-----------------------------------------------------------------------------
(* bluez1.cpp.  Two threads: where the caller is says where the worker can  *)
(* be, and the other way round.                                             *)
Ends == {"stop", "destroy"}

Sync ==
  /\ started <=> worker # "none"
  /\ caller = "gone" => ~started
  /\ caller = "idle" /\ started => worker \in {"enter", "run"} /\ (worker = "run" => running)
  /\ caller = "start" =>
       /\ started /\ op = "start"
       /\ ~ready => worker \in {"setup", "ready"}
       /\ ready /\ start_result = 0 => worker \in {"enter", "run"} /\ (worker = "run" => running)
       /\ ready /\ start_result # 0 => worker \in {"restore", "close", "exited"}
  /\ caller = "dispatch" =>
       /\ started /\ op \in {"stop", "destroy", "send", "notify", "pair"}
       /\ source => ~done /\ worker \in {"enter", "run"} /\ (worker = "run" => running)
       /\ ~source /\ ~done => /\ worker \in {"pair", "signal"} /\ (running <=> op \notin Ends)
                              /\ (worker = "pair" => op = "pair")
       /\ done /\ op \in Ends => worker \in {"run", "restore", "close", "exited"} /\ ~running
       /\ done /\ op \notin Ends => worker = "run" /\ running
  /\ caller = "join" =>
       /\ started /\ worker \in {"run", "restore", "close", "exited"}
       /\ worker = "run" => ~running
  /\ source => caller = "dispatch"

(* What the worker holds: all of it while the loop is served, nothing       *)
(* before the connection and after the cleanup.                             *)
Holds ==
  /\ worker \in {"enter", "run", "pair", "signal"} => active
  /\ worker = "ready" /\ start_result = 0 => active
  /\ worker = "setup" => ~active
  /\ worker \in {"none", "exited"} \/ (worker = "setup" /\ b_at = 0) =>
       /\ bus = "none" /\ registered = {} /\ ~active /\ ~notifying /\ object_count = 0

(* The adapter's Pairable is what it was, or what it was is kept to be      *)
(* restored: Get is call 1 of setup, Pairable call 5.                       *)
Remembers ==
  /\ worker \in {"none", "exited", "close"} /\ ~spoiled => pairable = before
  /\ ~restore_pairable /\ ~spoiled => pairable = before
  /\ restore_pairable => old_pairable = before
  /\ worker = "setup" /\ b_at >= 2 => old_pairable = before
  /\ worker = "setup" /\ b_at <= 5 => ~restore_pairable
  /\ worker \in {"none", "exited"} => ~restore_pairable
  /\ worker = "setup" => ~spoiled

BInv == B!TypeOK /\ Sync /\ Holds /\ Remembers

(* The calls of setup, by their places. *)
LEMMA CallsProp ==
  /\ Len(B!SetupCalls) = 7 /\ DOMAIN B!SetupCalls = 1..7
  /\ \A i \in 1..7 : /\ B!SetupCalls[i] = "Get" <=> i = 1
                     /\ B!SetupCalls[i] = "Pairable" <=> i = 5
BY DEF B!SetupCalls

(* Types; the objects of setup stay within s->objects, since every setup    *)
(* starts with none.                                                        *)
LEMMA BluezType == ASSUME BInv, [B!Next]_B!vars PROVE B!TypeOK'
<1>1. CASE B!bluez1_start
  <2>1. b_at' \in 0..Len(B!SetupCalls)
    BY <1>1, CallsProp DEF B!bluez1_start
  <2>. QED BY <1>1, <2>1 DEF B!bluez1_start, B!Call, B!st, B!conn, BInv, B!TypeOK, B!Op
<1>2. CASE \E o \in {"stop", "destroy", "send", "notify", "pair"} : B!dispatch(o)
  BY <1>2 DEF B!dispatch, B!Call, B!st, B!conn, B!daemon, BInv, B!TypeOK, B!Op
<1>3. CASE B!bluez1_destroy
  BY <1>3 DEF B!bluez1_destroy, B!Call, B!st, B!conn, B!daemon, BInv, B!TypeOK, B!Op
<1>4. CASE B!StartReturns
  BY <1>4 DEF B!StartReturns, B!st, B!conn, B!daemon, BInv, B!TypeOK
<1>5. CASE B!DispatchReturns
  BY <1>5 DEF B!DispatchReturns, B!st, B!conn, B!daemon, BInv, B!TypeOK
<1>6. CASE B!release_worker
  BY <1>6 DEF B!release_worker, B!st, B!conn, B!daemon, BInv, B!TypeOK
<1>7. CASE B!SetupFails
  <2>1. object_count' \in 0..6
    BY <1>7 DEF B!SetupFails, B!conn, BInv, Holds, B!TypeOK
  <2>2. registered' \subseteq {B!SetupCalls[i] : i \in DOMAIN B!SetupCalls}
    BY <1>7 DEF B!SetupFails, B!Executes, B!daemon, BInv, B!TypeOK
  <2>3. pairable' \in BOOLEAN /\ spoiled' \in BOOLEAN /\ before' = before
    BY <1>7 DEF B!SetupFails, B!Executes, B!daemon, BInv, B!TypeOK
  <2>4. bus' \in {"none", "open", "broken"}
    BY <1>7 DEF B!SetupFails, B!conn, BInv, B!TypeOK
  <2>. QED BY <1>7, <2>1, <2>2, <2>3, <2>4 DEF B!SetupFails, B!rest, B!api, B!st, BInv, B!TypeOK
<1>8. CASE B!SetupConnect
  <2>1. object_count' \in 0..6
    BY <1>8 DEF B!SetupConnect, BInv, Holds
  <2>2. b_at' \in 0..Len(B!SetupCalls)
    BY <1>8, CallsProp DEF B!SetupConnect
  <2>. QED BY <1>8, <2>1, <2>2 DEF B!SetupConnect, B!rest, B!api, B!st, B!daemon, BInv, B!TypeOK
<1>9. CASE B!SetupCall
  <2>1. b_at \in 1..7 /\ b_at' \in 0..7
    BY <1>9, CallsProp DEF B!SetupCall, BInv, B!TypeOK
  <2>2. registered' \subseteq {B!SetupCalls[i] : i \in DOMAIN B!SetupCalls}
    BY <1>9 DEF B!SetupCall, B!Executes, BInv, B!TypeOK
  <2>3. pairable' \in BOOLEAN /\ restore_pairable' \in BOOLEAN /\ old_pairable' \in BOOLEAN
    BY <1>9 DEF B!SetupCall, B!Executes, BInv, B!TypeOK
  <2>4. active' \in BOOLEAN /\ start_result' \in {0, -1} /\ worker' \in {"setup", "ready"}
    BY <1>9 DEF B!SetupCall, BInv, B!TypeOK
  <2>. QED BY <1>9, <2>1, <2>2, <2>3, <2>4, CallsProp
           DEF B!SetupCall, B!rest, B!api, B!conn, BInv, B!TypeOK
<1>10. CASE B!WorkerReady
  BY <1>10 DEF B!WorkerReady, B!rest, B!api, B!st, B!conn, B!daemon, BInv, B!TypeOK
<1>11. CASE B!LoopRun
  BY <1>11 DEF B!LoopRun, B!api, B!st, B!conn, B!daemon, BInv, B!TypeOK
<1>12. CASE B!LoopQuits
  BY <1>12 DEF B!LoopQuits, B!rest, B!api, B!st, B!conn, B!daemon, BInv, B!TypeOK
<1>13. CASE B!run_work
  <2>1. running' \in BOOLEAN /\ worker' \in {"signal", "pair"} /\ pairing' \in BOOLEAN
    BY <1>13 DEF B!run_work, BInv, B!TypeOK, Sync, Ends
  <2>. QED BY <1>13, <2>1 DEF B!run_work, B!api, B!conn, B!daemon, BInv, B!TypeOK
<1>14. CASE B!PairReply
  BY <1>14 DEF B!PairReply, B!rest, B!api, B!conn, B!daemon, BInv, B!TypeOK
<1>15. CASE B!RunWorkDone
  BY <1>15 DEF B!RunWorkDone, B!api, B!st, B!conn, B!daemon, BInv, B!TypeOK
<1>16. CASE B!CleanupRestore
  BY <1>16 DEF B!CleanupRestore, B!rest, B!api, B!st, B!conn, BInv, B!TypeOK
<1>17. CASE B!CleanupClose
  <2>1. object_count' \in 0..6 /\ registered' = {}
    BY <1>17 DEF B!CleanupClose
  <2>. QED BY <1>17, <2>1 DEF B!CleanupClose, B!rest, B!api, BInv, B!TypeOK
<1>18. CASE \E on \in BOOLEAN : B!method(on)
  BY <1>18 DEF B!method, B!Iterating, B!rest, B!api, B!conn, B!daemon, BInv, B!TypeOK
<1>19. CASE B!BusBreaks
  BY <1>19 DEF B!BusBreaks, B!rest, B!api, B!st, BInv, B!TypeOK
<1>20. CASE UNCHANGED B!vars
  BY <1>20 DEF B!vars, BInv, B!TypeOK
<1>. QED BY <1>1, <1>2, <1>3, <1>4, <1>5, <1>6, <1>7, <1>8, <1>9, <1>10, <1>11, <1>12,
            <1>13, <1>14, <1>15, <1>16, <1>17, <1>18, <1>19, <1>20
         DEF B!Next, B!Caller, B!Waits, B!Worker, B!Env, B!bluez1_stop, B!bluez1_send,
               B!bluez1_pair

(* The two threads. *)
LEMMA BluezSync == ASSUME BInv, [B!Next]_B!vars PROVE Sync'
<1>1. CASE B!bluez1_start
  BY <1>1 DEF B!bluez1_start, B!Call, B!st, B!conn, BInv, B!TypeOK, Sync, Ends
<1>2. CASE \E o \in {"stop", "destroy", "send", "notify", "pair"} : B!dispatch(o)
  BY <1>2 DEF B!dispatch, B!Call, B!st, B!conn, B!daemon, BInv, B!TypeOK, Sync, Ends
<1>3. CASE B!bluez1_destroy
  BY <1>3 DEF B!bluez1_destroy, B!Call, B!st, B!conn, B!daemon, BInv, B!TypeOK, Sync, Ends
<1>4. CASE B!StartReturns
  BY <1>4 DEF B!StartReturns, B!st, B!conn, B!daemon, BInv, B!TypeOK, Sync, Ends
<1>5. CASE B!DispatchReturns
  BY <1>5 DEF B!DispatchReturns, B!st, B!conn, B!daemon, BInv, B!TypeOK, Sync, Ends
<1>6. CASE B!release_worker
  BY <1>6 DEF B!release_worker, B!st, B!conn, B!daemon, BInv, B!TypeOK, Sync, Ends
<1>7. CASE B!SetupFails
  BY <1>7 DEF B!SetupFails, B!rest, B!api, B!st, B!conn, B!daemon, B!Executes, BInv,
     B!TypeOK, Sync, Ends
<1>8. CASE B!SetupConnect
  BY <1>8 DEF B!SetupConnect, B!rest, B!api, B!st, B!conn, B!daemon, BInv, B!TypeOK, Sync,
     Ends
<1>9. CASE B!SetupCall
  BY <1>9 DEF B!SetupCall, B!rest, B!api, B!conn, B!Executes, BInv, B!TypeOK, Sync, Ends
<1>10. CASE B!WorkerReady
  BY <1>10 DEF B!WorkerReady, B!rest, B!api, B!st, B!conn, B!daemon, BInv, B!TypeOK, Sync,
     Ends
<1>11. CASE B!LoopRun
  BY <1>11 DEF B!LoopRun, B!api, B!st, B!conn, B!daemon, BInv, B!TypeOK, Sync, Ends
<1>12. CASE B!LoopQuits
  BY <1>12 DEF B!LoopQuits, B!rest, B!api, B!st, B!conn, B!daemon, BInv, B!TypeOK, Sync,
     Ends
<1>13. CASE B!run_work
  BY <1>13 DEF B!run_work, B!api, B!conn, B!daemon, BInv, B!TypeOK, Sync, Ends
<1>14. CASE B!PairReply
  BY <1>14 DEF B!PairReply, B!rest, B!api, B!conn, B!daemon, BInv, B!TypeOK, Sync, Ends
<1>15. CASE B!RunWorkDone
  BY <1>15 DEF B!RunWorkDone, B!api, B!st, B!conn, B!daemon, BInv, B!TypeOK, Sync, Ends
<1>16. CASE B!CleanupRestore
  BY <1>16 DEF B!CleanupRestore, B!rest, B!api, B!st, B!conn, BInv, B!TypeOK, Sync, Ends
<1>17. CASE B!CleanupClose
  BY <1>17 DEF B!CleanupClose, B!rest, B!api, BInv, B!TypeOK, Sync, Ends
<1>18. CASE \E on \in BOOLEAN : B!method(on)
  BY <1>18 DEF B!method, B!Iterating, B!rest, B!api, B!conn, B!daemon, BInv, B!TypeOK,
     Sync, Ends
<1>19. CASE B!BusBreaks
  BY <1>19 DEF B!BusBreaks, B!rest, B!api, B!st, BInv, B!TypeOK, Sync, Ends
<1>20. CASE UNCHANGED B!vars
  BY <1>20 DEF B!vars, BInv, B!TypeOK, Sync, Ends
<1>. QED BY <1>1, <1>2, <1>3, <1>4, <1>5, <1>6, <1>7, <1>8, <1>9, <1>10, <1>11, <1>12,
            <1>13, <1>14, <1>15, <1>16, <1>17, <1>18, <1>19, <1>20
         DEF B!Next, B!Caller, B!Waits, B!Worker, B!Env, B!bluez1_stop, B!bluez1_send,
               B!bluez1_pair

(* Connection, registrations and the active flag. *)
LEMMA BluezHolds == ASSUME BInv, [B!Next]_B!vars PROVE Holds'
<1>1. CASE B!bluez1_start
  BY <1>1 DEF B!bluez1_start, B!Call, B!st, B!conn, BInv, B!TypeOK, Sync, Holds
<1>2. CASE \E o \in {"stop", "destroy", "send", "notify", "pair"} : B!dispatch(o)
  BY <1>2 DEF B!dispatch, B!Call, B!st, B!conn, B!daemon, BInv, B!TypeOK, Sync, Holds
<1>3. CASE B!bluez1_destroy
  BY <1>3 DEF B!bluez1_destroy, B!Call, B!st, B!conn, B!daemon, BInv, B!TypeOK, Sync,
     Holds
<1>4. CASE B!StartReturns
  BY <1>4 DEF B!StartReturns, B!st, B!conn, B!daemon, BInv, B!TypeOK, Sync, Holds
<1>5. CASE B!DispatchReturns
  BY <1>5 DEF B!DispatchReturns, B!st, B!conn, B!daemon, BInv, B!TypeOK, Sync, Holds
<1>6. CASE B!release_worker
  BY <1>6 DEF B!release_worker, B!st, B!conn, B!daemon, BInv, B!TypeOK, Sync, Holds
<1>7. CASE B!SetupFails
  BY <1>7 DEF B!SetupFails, B!rest, B!api, B!st, B!conn, B!daemon, B!Executes, BInv,
     B!TypeOK, Sync, Holds
<1>8. CASE B!SetupConnect
  BY <1>8 DEF B!SetupConnect, B!rest, B!api, B!st, B!conn, B!daemon, BInv, B!TypeOK, Sync,
     Holds
<1>9. CASE B!SetupCall
  BY <1>9 DEF B!SetupCall, B!rest, B!api, B!conn, B!Executes, BInv, B!TypeOK, Sync, Holds
<1>10. CASE B!WorkerReady
  BY <1>10 DEF B!WorkerReady, B!rest, B!api, B!st, B!conn, B!daemon, BInv, B!TypeOK, Sync,
     Holds
<1>11. CASE B!LoopRun
  BY <1>11 DEF B!LoopRun, B!api, B!st, B!conn, B!daemon, BInv, B!TypeOK, Sync, Holds
<1>12. CASE B!LoopQuits
  BY <1>12 DEF B!LoopQuits, B!rest, B!api, B!st, B!conn, B!daemon, BInv, B!TypeOK, Sync,
     Holds
<1>13. CASE B!run_work
  BY <1>13 DEF B!run_work, B!api, B!conn, B!daemon, BInv, B!TypeOK, Sync, Holds
<1>14. CASE B!PairReply
  BY <1>14 DEF B!PairReply, B!rest, B!api, B!conn, B!daemon, BInv, B!TypeOK, Sync, Holds
<1>15. CASE B!RunWorkDone
  BY <1>15 DEF B!RunWorkDone, B!api, B!st, B!conn, B!daemon, BInv, B!TypeOK, Sync, Holds
<1>16. CASE B!CleanupRestore
  BY <1>16 DEF B!CleanupRestore, B!rest, B!api, B!st, B!conn, BInv, B!TypeOK, Sync, Holds
<1>17. CASE B!CleanupClose
  BY <1>17 DEF B!CleanupClose, B!rest, B!api, BInv, B!TypeOK, Sync, Holds
<1>18. CASE \E on \in BOOLEAN : B!method(on)
  BY <1>18 DEF B!method, B!Iterating, B!rest, B!api, B!conn, B!daemon, BInv, B!TypeOK,
     Sync, Holds
<1>19. CASE B!BusBreaks
  BY <1>19 DEF B!BusBreaks, B!rest, B!api, B!st, BInv, B!TypeOK, Sync, Holds
<1>20. CASE UNCHANGED B!vars
  BY <1>20 DEF B!vars, BInv, B!TypeOK, Sync, Holds
<1>. QED BY <1>1, <1>2, <1>3, <1>4, <1>5, <1>6, <1>7, <1>8, <1>9, <1>10, <1>11, <1>12,
            <1>13, <1>14, <1>15, <1>16, <1>17, <1>18, <1>19, <1>20
         DEF B!Next, B!Caller, B!Waits, B!Worker, B!Env, B!bluez1_stop, B!bluez1_send,
               B!bluez1_pair

(* Pairable. *)
LEMMA BluezRemembers == ASSUME BInv, [B!Next]_B!vars PROVE Remembers'
<1>1. CASE B!bluez1_start
  BY <1>1 DEF B!bluez1_start, B!Call, B!st, B!conn, BInv, B!TypeOK, Sync, Remembers
<1>2. CASE \E o \in {"stop", "destroy", "send", "notify", "pair"} : B!dispatch(o)
  BY <1>2 DEF B!dispatch, B!Call, B!st, B!conn, B!daemon, BInv, B!TypeOK, Sync, Remembers
<1>3. CASE B!bluez1_destroy
  BY <1>3 DEF B!bluez1_destroy, B!Call, B!st, B!conn, B!daemon, BInv, B!TypeOK, Sync,
     Remembers
<1>4. CASE B!StartReturns
  BY <1>4 DEF B!StartReturns, B!st, B!conn, B!daemon, BInv, B!TypeOK, Sync, Remembers
<1>5. CASE B!DispatchReturns
  BY <1>5 DEF B!DispatchReturns, B!st, B!conn, B!daemon, BInv, B!TypeOK, Sync, Remembers
<1>6. CASE B!release_worker
  BY <1>6 DEF B!release_worker, B!st, B!conn, B!daemon, BInv, B!TypeOK, Sync, Remembers
<1>7. CASE B!SetupFails
  <2>1. /\ worker = "setup" /\ worker' = "ready" /\ before' = before
        /\ restore_pairable' = restore_pairable /\ old_pairable' = old_pairable
    BY <1>7 DEF B!SetupFails, B!st, B!daemon
  <2>2. CASE pairable' = pairable /\ spoiled' = spoiled
    BY <2>1, <2>2 DEF BInv, Remembers
  <2>3. CASE b_at \in DOMAIN B!SetupCalls /\ B!Executes(B!SetupCalls[b_at])
             /\ spoiled' = (spoiled \/ B!SetupCalls[b_at] = "Pairable")
    <3>1. CASE B!SetupCalls[b_at] = "Pairable"
      BY <2>1, <2>3, <3>1 DEF BInv, Remembers
    <3>2. CASE B!SetupCalls[b_at] # "Pairable"
      <4>1. pairable' = pairable /\ spoiled' = spoiled
        BY <2>3, <3>2 DEF B!Executes, BInv, B!TypeOK
      <4>. QED BY <2>1, <4>1 DEF BInv, Remembers
    <3>. QED BY <3>1, <3>2
  <2>. QED BY <1>7, <2>2, <2>3 DEF B!SetupFails, B!daemon
<1>8. CASE B!SetupConnect
  BY <1>8 DEF B!SetupConnect, B!rest, B!api, B!st, B!conn, B!daemon, BInv, B!TypeOK, Sync,
     Remembers
<1>9. CASE B!SetupCall
  <2>. DEFINE c == B!SetupCalls[b_at]
  <2>1. /\ worker = "setup" /\ worker' \in {"setup", "ready"} /\ before' = before
        /\ spoiled' = spoiled /\ b_at \in 1..7 /\ b_at' \in {b_at, b_at + 1}
        /\ (worker' = "setup" => b_at' = b_at + 1)
    BY <1>9, CallsProp DEF B!SetupCall
  <2>2. /\ pairable' = (pairable \/ c = "Pairable")
        /\ restore_pairable' = (restore_pairable \/ c = "Pairable")
        /\ old_pairable' = IF c = "Get" THEN pairable ELSE old_pairable
    BY <1>9 DEF B!SetupCall, B!Executes
  <2>3. (c = "Get" <=> b_at = 1) /\ (c = "Pairable" <=> b_at = 5)
    BY <2>1, CallsProp
  <2>. HIDE DEF c
  <2>4. CASE b_at = 1
    <3>1. ~restore_pairable /\ ~restore_pairable' /\ pairable' = pairable /\ old_pairable' = pairable
      BY <2>1, <2>2, <2>3, <2>4 DEF BInv, Remembers, B!TypeOK
    <3>. QED BY <2>1, <2>4, <3>1 DEF BInv, Remembers
  <2>5. CASE b_at = 5
    <3>1. old_pairable = before /\ old_pairable' = old_pairable /\ restore_pairable'
      <4>1. old_pairable = before
        BY <2>1, <2>5 DEF BInv, Remembers
      <4>2. c = "Pairable" /\ c # "Get"
        BY <2>3, <2>5
      <4>3. restore_pairable'
        BY <2>2, <4>2
      <4>4. old_pairable' = old_pairable
        BY <2>2, <4>2
      <4>. QED BY <4>1, <4>3, <4>4
    <3>. QED BY <2>1, <2>5, <3>1 DEF BInv, Remembers
  <2>6. CASE b_at \notin {1, 5}
    <3>1. pairable' = pairable /\ restore_pairable' = restore_pairable
          /\ old_pairable' = old_pairable
      BY <2>1, <2>2, <2>3, <2>6 DEF BInv, B!TypeOK
    <3>. QED BY <2>1, <2>6, <3>1 DEF BInv, Remembers
  <2>. QED BY <2>4, <2>5, <2>6
<1>10. CASE B!WorkerReady
  BY <1>10 DEF B!WorkerReady, B!rest, B!api, B!st, B!conn, B!daemon, BInv, B!TypeOK, Sync,
     Remembers
<1>11. CASE B!LoopRun
  BY <1>11 DEF B!LoopRun, B!api, B!st, B!conn, B!daemon, BInv, B!TypeOK, Sync, Remembers
<1>12. CASE B!LoopQuits
  BY <1>12 DEF B!LoopQuits, B!rest, B!api, B!st, B!conn, B!daemon, BInv, B!TypeOK, Sync,
     Remembers
<1>13. CASE B!run_work
  BY <1>13 DEF B!run_work, B!api, B!conn, B!daemon, BInv, B!TypeOK, Sync, Remembers
<1>14. CASE B!PairReply
  BY <1>14 DEF B!PairReply, B!rest, B!api, B!conn, B!daemon, BInv, B!TypeOK, Sync,
     Remembers
<1>15. CASE B!RunWorkDone
  BY <1>15 DEF B!RunWorkDone, B!api, B!st, B!conn, B!daemon, BInv, B!TypeOK, Sync,
     Remembers
<1>16. CASE B!CleanupRestore
  BY <1>16 DEF B!CleanupRestore, B!rest, B!api, B!st, B!conn, BInv, B!TypeOK, Sync,
     Remembers
<1>17. CASE B!CleanupClose
  BY <1>17 DEF B!CleanupClose, B!rest, B!api, BInv, B!TypeOK, Sync, Remembers
<1>18. CASE \E on \in BOOLEAN : B!method(on)
  BY <1>18 DEF B!method, B!Iterating, B!rest, B!api, B!conn, B!daemon, BInv, B!TypeOK,
     Sync, Remembers
<1>19. CASE B!BusBreaks
  BY <1>19 DEF B!BusBreaks, B!rest, B!api, B!st, BInv, B!TypeOK, Sync, Remembers
<1>20. CASE UNCHANGED B!vars
  BY <1>20 DEF B!vars, BInv, B!TypeOK, Sync, Remembers
<1>. QED BY <1>1, <1>2, <1>3, <1>4, <1>5, <1>6, <1>7, <1>8, <1>9, <1>10, <1>11, <1>12,
            <1>13, <1>14, <1>15, <1>16, <1>17, <1>18, <1>19, <1>20
         DEF B!Next, B!Caller, B!Waits, B!Worker, B!Env, B!bluez1_stop, B!bluez1_send,
               B!bluez1_pair

(* The invariant is inductive. *)
LEMMA BluezStep == ASSUME BInv, [B!Next]_B!vars PROVE BInv'
BY BluezType, BluezSync, BluezHolds, BluezRemembers DEF BInv

(* Before the peripheral starts nothing is held.                           *)
LEMMA BluezInit == ASSUME B!Init PROVE BInv
<1>1. B!TypeOK
  <2>1. b_at \in 0..Len(B!SetupCalls) /\ object_count \in 0..6 /\ start_result \in {0, -1}
    BY CallsProp DEF B!Init
  <2>. QED BY <2>1 DEF B!Init, B!TypeOK
<1>2. Sync /\ Holds
  BY DEF B!Init, Sync, Holds
<1>3. Remembers
  BY DEF B!Init, Remembers
<1>. QED BY <1>1, <1>2, <1>3 DEF BInv

(* For any number of calls of the public functions, and wherever D-Bus      *)
(* calls fail or the bus breaks: a start that returned 0 has a worker that  *)
(* serves its loop and an active peripheral, and run_work touches its Work  *)
(* only while the caller whose stack it is on waits.                        *)
THEOREM StartSafe == B!Spec => []StartTruth
<1>1. BInv => StartTruth
  BY DEF StartTruth, BInv, Sync, Holds, B!TypeOK, B!StartTruth, B!WorkAlive
<1>. QED BY <1>1, BluezInit, BluezStep, PTL DEF B!Spec

(* After bluez1_stop, bluez1_destroy or a failed bluez1_start no thread, no *)
(* connection and no registration is left, and Pairable is what it was      *)
(* before the start unless bluetoothd's answer was missing.                 *)
THEOREM StopSafe == B!Spec => []NothingLeft
<1>1. BInv => NothingLeft
  BY DEF NothingLeft, BInv, Sync, Holds, Remembers, B!TypeOK, B!NothingLeft
<1>. QED BY <1>1, BluezInit, BluezStep, PTL DEF B!Spec
-----------------------------------------------------------------------------
(* cc1352-flash.  There is a flash to write, and a chunk holds at least one *)
(* byte.                                                                    *)
Geometry ==
  FlashSize \in Nat \ {0} /\ Chunk \in Nat \ {0} /\ Timeout \in Nat /\ MaxFaults \in Nat
-----------------------------------------------------------------------------
(* The invariant *)

Writes == {"erase", "send"}
Late == {"crc", "reset"}
Contents == [F!Addr -> F!Addr \cup {F!Old, F!Blank, F!Bad}]
Pkt == [cmd : Writes \cup Late \cup {"sync", "status", "download"}, off : Nat, n : Nat,
        wire : {"clean", "garbled", "altered"}]
Reply == [b : {"ack", "nack", "rsp", "zero", "junk"}, n : {0, 1, 4}, sum : BOOLEAN,
          st : {"ok", "failed"}, crc : Contents \cup {<<>>}]

Types ==
  /\ F!TypeOK /\ verify \in BOOLEAN
  /\ tx \in Seq(Pkt) /\ rx \in Seq(Reply)
  /\ step = "send" => off < FlashSize
  /\ pc = "start" => step = "sync" /\ ~chk /\ tx = <<>>
  /\ pc = "resp" => chk \/ step = "crc"
  /\ step \in Late => ~chk
  /\ pc = "ok" => step = "reset"

(* The packets on the line never change the flash. *)
ReadsOnly == \A i \in DOMAIN tx : tx[i].cmd \notin Writes
Verified == flash = F!Image /\ ReadsOnly

(* A command that is executed late still comes in its order: nothing that   *)
(* writes follows the question for the CRC, so the right CRC is the last    *)
(* word on the flash.                                                       *)
Ordered ==
  /\ \A i, j \in DOMAIN tx : i < j /\ tx[i].cmd = "crc" => tx[j].cmd \notin Writes
  /\ \A i \in DOMAIN tx : tx[i].cmd = "crc" => step \in Late
  /\ \A i \in DOMAIN tx : tx[i].cmd = "reset" => step = "reset"
  /\ \A i \in DOMAIN rx : rx[i].n = 4 => step \in Late
  /\ \A i \in DOMAIN rx : rx[i].n = 4 /\ rx[i].crc = F!Image => Verified
  /\ step = "reset" => Verified
  /\ verify => step \in Late \cup {"sync"} /\ ReadsOnly

(* How far the writing has come before and after the ROM executes the      *)
(* command in hand. *)
Before == step = "send" => ptr = off /\ \A a \in 0 .. off - 1 : flash[a] = a
After ==
  /\ step = "download" => ptr = 0
  /\ step = "send" => ptr = off + F!ChunkLen /\ \A a \in 0 .. off + F!ChunkLen - 1 : flash[a] = a
Stage == IF chk THEN After ELSE Before

(* What answers the packet in hand when nothing goes wrong. *)
Due ==
  IF chk THEN <<F!Byte("ack"), F!StatusReply("ok")>>
         ELSE IF step = "crc" THEN <<F!Byte("ack"), F!CrcReply(flash)>> ELSE <<F!Byte("ack")>>
Idle == {<<>>, <<F!Byte("zero")>>}

(* Host and ROM in step, as long as nothing has gone wrong. *)
InStep ==
  /\ rom = "ok"
  /\ pc = "send" => tx = <<>> /\ rx \in Idle /\ Stage
  /\ pc = "ack" => \/ tx = <<F!Packet>> /\ rx \in Idle /\ Stage
                   \/ tx = <<>> /\ rx \in Idle
                   \/ tx = <<>> /\ (\E z \in Idle : rx = z \o Due) /\ After
  /\ pc = "resp" => tx = <<>> /\ rx = Tail(Due) /\ After
  /\ step \in Late /\ ~verify /\ pc # "fail" => flash = F!Image
  /\ pc = "fail" => left = 0 \/ (verify /\ flash # F!Image)

FInv == Types /\ Ordered /\ (faults = 0 => InStep)
-----------------------------------------------------------------------------
(* Packets, replies and contents *)

(* Taking the first element off a sequence. *)
LEMMA TailParts ==
  ASSUME NEW S, NEW s \in Seq(S), s # <<>>
  PROVE  /\ Tail(s) \in Seq(S) /\ 1 \in DOMAIN s /\ Head(s) = s[1] /\ Head(s) \in S
         /\ \A j \in DOMAIN Tail(s) : j + 1 \in DOMAIN s /\ Tail(s)[j] = s[j + 1]
<1>1. Len(s) \in Nat \ {0}
  OBVIOUS
<1>2. Tail(s) \in Seq(S) /\ Len(Tail(s)) = Len(s) - 1
  BY <1>1
<1>3. \A j \in 1 .. Len(s) - 1 : Tail(s)[j] = s[j + 1]
  BY <1>1
<1>. QED BY <1>1, <1>2, <1>3

(* The image is a possible content of the flash, and not the empty answer. *)
LEMMA ImageContents ==
  ASSUME Geometry
  PROVE  F!Image \in Contents /\ F!Image # <<>> /\ [a \in F!Addr |-> F!Blank] \in Contents
<1>1. 0 \in F!Addr
  BY DEF Geometry, F!Addr
<1>2. DOMAIN F!Image = F!Addr
  BY DEF F!Image
<1>3. DOMAIN (<<>>) = {}
  OBVIOUS
<1>4. F!Image # <<>>
  BY <1>1, <1>2, <1>3
<1>. QED BY <1>4 DEF F!Image, Contents

(* What the ROM can say. *)
LEMMA Replies ==
  /\ \A b \in {"ack", "nack", "zero", "junk"} : F!Byte(b) \in Reply
  /\ \A s \in {"ok", "failed"} : F!StatusReply(s) \in Reply
  /\ \A f \in Contents : F!CrcReply(f) \in Reply
BY DEF F!Byte, F!StatusReply, F!CrcReply, Reply

(* The packet in hand is well formed and stays inside the image. *)
LEMMA PacketTypes ==
  ASSUME Geometry, Types
  PROVE  /\ F!Packet \in Pkt /\ F!Packet.off + F!Packet.n <= FlashSize
         /\ step = "send" => F!ChunkLen \in 1 .. FlashSize - off
<1>1. step = "send" => F!ChunkLen \in 1 .. FlashSize - off
  BY DEF Geometry, Types, F!TypeOK, F!ChunkLen
<1>. QED BY <1>1 DEF F!Packet, Pkt, Geometry, Types, F!TypeOK, Writes, Late

(* What reaches the host of an answer: all of it when there is no fault, and *)
(* otherwise bytes of it, a reply of it with its data damaged, or noise.     *)
Passed(r, s) ==
  \/ r.n = 0
  \/ \E j \in DOMAIN s : r.n = s[j].n /\ r.crc \in {s[j].crc, <<>>}

(* What an answer adds to the line.                                        *)
LEMMA AnswerParts ==
  ASSUME rx \in Seq(Reply), NEW s \in Seq(Reply), Len(s) \in {1, 2}, F!Answer(s),
         faults \in 0 .. MaxFaults, MaxFaults \in Nat
  PROVE  /\ rx' \in Seq(Reply) /\ faults' \in 0 .. MaxFaults /\ faults' >= faults
         /\ faults' = 0 => faults = 0 /\ rx' = rx \o s
         /\ \A i \in DOMAIN rx' : (i \in DOMAIN rx /\ rx'[i] = rx[i]) \/ Passed(rx'[i], s)
<1>1. faults' \in 0 .. MaxFaults /\ faults' >= faults /\ (faults' = faults \/ faults' > 0)
  BY DEF F!Answer, F!Fault
<1>2. CASE rx' = rx \o s /\ UNCHANGED faults
  BY <1>1, <1>2 DEF Passed
<1>3. CASE rx' \in {rx, Append(rx, s[1]), rx \o Tail(s), Append(rx, F!Byte("junk"))} /\ F!Fault
  <2>1. faults' > 0
    BY <1>3 DEF F!Fault
  <2>2. CASE rx' = rx
    BY <1>1, <2>1, <2>2
  <2>3. CASE rx' = Append(rx, s[1])
    BY <1>1, <2>1, <2>3 DEF Passed
  <2>4. CASE rx' = rx \o Tail(s)
    <3>1. Tail(s) \in Seq(Reply) /\ \A j \in DOMAIN Tail(s) : j + 1 \in DOMAIN s /\ Tail(s)[j] = s[j + 1]
      <4>1. s # <<>>
        OBVIOUS
      <4>. QED BY <4>1, TailParts
    <3>2. rx' \in Seq(Reply) /\ Len(rx') = Len(rx) + Len(Tail(s))
      BY <2>4, <3>1
    <3>3. ASSUME NEW i \in DOMAIN rx' PROVE (i \in DOMAIN rx /\ rx'[i] = rx[i]) \/ Passed(rx'[i], s)
      <4>1. CASE i <= Len(rx)
        BY <2>4, <3>1, <3>2, <4>1
      <4>2. CASE i > Len(rx)
        <5>1. i - Len(rx) \in DOMAIN Tail(s) /\ rx'[i] = Tail(s)[i - Len(rx)]
          BY <2>4, <3>1, <3>2, <4>2
        <5>. QED BY <3>1, <5>1 DEF Passed
      <4>. QED BY <3>2, <4>1, <4>2
    <3>. QED BY <1>1, <2>1, <3>2, <3>3
  <2>5. CASE rx' = Append(rx, F!Byte("junk"))
    <3>1. F!Byte("junk") \in Reply /\ F!Byte("junk").n = 0
      BY Replies DEF F!Byte
    <3>. QED BY <1>1, <2>1, <2>5, <3>1 DEF Passed
  <2>. QED BY <1>3, <2>2, <2>3, <2>4, <2>5
<1>4. CASE /\ Len(s) = 2 /\ F!Fault
           /\ \E t \in {[s[2] EXCEPT !.sum = FALSE], [s[2] EXCEPT !.st = "ok", !.crc = <<>>]} :
                rx' = rx \o <<s[1], t>>
  <2>1. faults' > 0
    BY <1>4 DEF F!Fault
  <2>2. s[1] \in Reply /\ s[2] \in Reply
    <3>1. Len(s) = 2
      BY <1>4
    <3>. QED BY <3>1
  <2>3. PICK t : /\ t \in {[s[2] EXCEPT !.sum = FALSE], [s[2] EXCEPT !.st = "ok", !.crc = <<>>]}
                 /\ rx' = rx \o <<s[1], t>>
    BY <1>4
  <2>4. t \in Reply /\ t.n = s[2].n /\ t.crc \in {s[2].crc, <<>>}
    BY <2>2, <2>3 DEF Reply
  <2>5. Passed(s[1], s) /\ Passed(t, s)
    BY <1>4, <2>4 DEF Passed
  <2>6. <<s[1], t>> \in Seq(Reply) /\ Len(<<s[1], t>>) = 2
    BY <2>2, <2>4
  <2>. QED BY <1>1, <2>1, <2>2, <2>3, <2>4, <2>5, <2>6
<1>. QED BY <1>2, <1>3, <1>4 DEF F!Answer

(* Every answer of the ROM is one or two replies. *)
LEMMA Answers ==
  ASSUME NEW f \in Contents, NEW st \in {"ok", "failed"}
  PROVE  /\ \A b \in {"ack", "nack"} : <<F!Byte(b)>> \in Seq(Reply) /\ Len(<<F!Byte(b)>>) = 1
         /\ <<F!Byte("ack"), F!StatusReply(st)>> \in Seq(Reply)
         /\ Len(<<F!Byte("ack"), F!StatusReply(st)>>) = 2
         /\ <<F!Byte("ack"), F!CrcReply(f)>> \in Seq(Reply) /\ Len(<<F!Byte("ack"), F!CrcReply(f)>>) = 2
BY Replies

(* Writing a chunk that lies inside the image leaves a possible content. *)
LEMMA WrittenContents ==
  ASSUME Geometry, flash \in Contents, ptr \in Nat,
         NEW p \in Pkt, p.off + p.n <= FlashSize
  PROVE  F!Written(p) \in Contents
<1>1. ASSUME NEW a \in F!Addr PROVE F!Written(p)[a] \in F!Addr \cup {F!Old, F!Blank, F!Bad}
  <2>1. CASE a \in ptr .. ptr + p.n - 1
    <3>1. p.off \in Nat /\ p.n \in Nat
      BY DEF Pkt
    <3>2. p.off + (a - ptr) \in F!Addr
      BY <2>1, <3>1 DEF F!Addr, Geometry
    <3>. QED BY <2>1, <3>2 DEF F!Written
  <2>2. CASE a \notin ptr .. ptr + p.n - 1
    BY <2>2 DEF F!Written, Contents
  <2>. QED BY <2>1, <2>2
<1>. QED BY <1>1 DEF F!Written, Contents

(* What executing a packet can do: only an erase or a chunk changes the     *)
(* flash, only the question for the CRC is answered with four bytes, and    *)
(* they are the contents of the flash or damaged.                           *)
LEMMA RomEffect ==
  ASSUME Geometry, Types, F!Rom
  PROVE  /\ Head(tx) \in Pkt /\ Head(tx) = tx[1] /\ 1 \in DOMAIN tx
         /\ tx' = Tail(tx) /\ Tail(tx) \in Seq(Pkt)
         /\ \A j \in DOMAIN Tail(tx) : j + 1 \in DOMAIN tx /\ Tail(tx)[j] = tx[j + 1]
         /\ flash' \in Contents /\ ptr' \in Nat
         /\ rom' \in {"ok", "failed"} /\ target' \in {"app", "boot"}
         /\ rx' \in Seq(Reply) /\ faults' \in 0 .. MaxFaults /\ faults' >= faults
         /\ tx[1].cmd \notin Writes => flash' = flash
         /\ target' # target => tx[1].cmd = "reset"
         /\ \A i \in DOMAIN rx' : \/ i \in DOMAIN rx /\ rx'[i] = rx[i]
                                  \/ rx'[i].n # 4
                                  \/ tx[1].cmd = "crc" /\ rx'[i].crc \in {flash, <<>>}
         /\ UNCHANGED <<F!options, F!host>>
<1>0. /\ tx \in Seq(Pkt) /\ tx # <<>> /\ tx' = Tail(tx) /\ UNCHANGED <<F!options, F!host>>
      /\ flash \in Contents /\ ptr \in Nat /\ rom \in {"ok", "failed"} /\ target = "boot"
      /\ rx \in Seq(Reply) /\ faults \in 0 .. MaxFaults /\ MaxFaults \in Nat
  BY DEF F!Rom, Types, F!TypeOK, Contents, Geometry
<1>1. /\ Head(tx) \in Pkt /\ Head(tx) = tx[1] /\ 1 \in DOMAIN tx /\ Tail(tx) \in Seq(Pkt)
      /\ \A j \in DOMAIN Tail(tx) : j + 1 \in DOMAIN tx /\ Tail(tx)[j] = tx[j + 1]
  BY <1>0, TailParts
<1>2. tx[1].off + tx[1].n <= FlashSize
  BY <1>1 DEF Types, F!TypeOK
<1>. DEFINE p == Head(tx)
            Plain == /\ rx' \in Seq(Reply) /\ faults' \in 0 .. MaxFaults /\ faults' >= faults
                     /\ \A i \in DOMAIN rx' : (i \in DOMAIN rx /\ rx'[i] = rx[i]) \/ rx'[i].n # 4
<1>3. ASSUME NEW b \in {"ack", "nack"}, F!Answer(<<F!Byte(b)>>) PROVE Plain
  <2>1. <<F!Byte(b)>> \in Seq(Reply) /\ Len(<<F!Byte(b)>>) = 1
    BY <1>0, Answers
  <2>2. ASSUME NEW r, Passed(r, <<F!Byte(b)>>) PROVE r.n # 4
    BY <2>2 DEF Passed, F!Byte
  <2>. QED BY <1>0, <1>3, <2>1, <2>2, AnswerParts
<1>4. ASSUME F!Answer(<<F!Byte("ack"), F!StatusReply(rom)>>) PROVE Plain
  <2>. DEFINE s == <<F!Byte("ack"), F!StatusReply(rom)>>
  <2>1. s \in Seq(Reply) /\ Len(s) = 2
    BY <1>0, Answers
  <2>2. ASSUME NEW r, Passed(r, s) PROVE r.n # 4
    <3>1. s[1].n = 0 /\ s[2].n = 1 /\ DOMAIN s = {1, 2}
      BY DEF F!Byte, F!StatusReply
    <3>. QED BY <2>2, <3>1 DEF Passed
  <2>. QED BY <1>0, <1>4, <2>1, <2>2, AnswerParts
<1>5. ASSUME F!Answer(<<F!Byte("ack"), F!CrcReply(flash)>>)
      PROVE  /\ rx' \in Seq(Reply) /\ faults' \in 0 .. MaxFaults /\ faults' >= faults
             /\ \A i \in DOMAIN rx' : \/ i \in DOMAIN rx /\ rx'[i] = rx[i]
                                      \/ rx'[i].n # 4
                                      \/ rx'[i].crc \in {flash, <<>>}
  <2>. DEFINE s == <<F!Byte("ack"), F!CrcReply(flash)>>
  <2>1. s \in Seq(Reply) /\ Len(s) = 2
    BY <1>0, Answers
  <2>2. ASSUME NEW r, Passed(r, s) PROVE r.n # 4 \/ r.crc \in {flash, <<>>}
    <3>1. s[1].n = 0 /\ s[1].crc = <<>> /\ s[2].crc = flash /\ DOMAIN s = {1, 2}
      BY DEF F!Byte, F!CrcReply
    <3>. QED BY <2>2, <3>1 DEF Passed
  <2>. QED BY <1>0, <1>5, <2>1, <2>2, AnswerParts
<1>6. CASE p.wire = "garbled"
  <2>1. F!Answer(<<F!Byte("nack")>>) /\ UNCHANGED F!dev
    BY <1>6 DEF F!Rom
  <2>. QED BY <1>0, <1>1, <1>3, <2>1 DEF F!dev
<1>7. CASE p.wire # "garbled" /\ p.cmd = "sync"
  <2>1. F!Answer(<<F!Byte("ack")>>) /\ UNCHANGED F!dev
    BY <1>7 DEF F!Rom
  <2>. QED BY <1>0, <1>1, <1>3, <2>1 DEF F!dev
<1>8. CASE p.wire # "garbled" /\ p.cmd = "status"
  <2>1. F!Answer(<<F!Byte("ack"), F!StatusReply(rom)>>) /\ UNCHANGED F!dev
    BY <1>8 DEF F!Rom
  <2>. QED BY <1>0, <1>1, <1>4, <2>1 DEF F!dev
<1>9. CASE p.wire # "garbled" /\ p.cmd = "erase"
  <2>1. /\ F!Answer(<<F!Byte("ack")>>)
        /\ rom' = "ok" /\ flash' = [a \in F!Addr |-> F!Blank] /\ UNCHANGED <<target, ptr>>
    BY <1>9 DEF F!Rom
  <2>. QED BY <1>0, <1>1, <1>3, <1>9, <2>1, ImageContents DEF Writes
<1>10. CASE p.wire # "garbled" /\ p.cmd = "download"
  <2>1. F!Answer(<<F!Byte("ack")>>) /\ rom' = "ok" /\ ptr' = 0 /\ UNCHANGED <<target, flash>>
    BY <1>10 DEF F!Rom
  <2>. QED BY <1>0, <1>1, <1>3, <2>1
<1>11. CASE p.wire # "garbled" /\ p.cmd = "send"
  <2>1. /\ F!Answer(<<F!Byte("ack")>>)
        /\ rom' = "ok" /\ flash' = F!Written(p) /\ ptr' = ptr + p.n /\ UNCHANGED target
    BY <1>11 DEF F!Rom
  <2>2. F!Written(p) \in Contents /\ ptr + p.n \in Nat
    BY <1>0, <1>1, <1>2, WrittenContents DEF Pkt
  <2>. QED BY <1>0, <1>1, <1>3, <1>11, <2>1, <2>2 DEF Writes
<1>12. CASE p.wire # "garbled" /\ p.cmd = "crc"
  <2>1. F!Answer(<<F!Byte("ack"), F!CrcReply(flash)>>) /\ UNCHANGED F!dev
    BY <1>12 DEF F!Rom
  <2>. QED BY <1>0, <1>1, <1>5, <1>12, <2>1 DEF F!dev
<1>13. CASE p.wire # "garbled" /\ p.cmd = "reset"
  <2>1. F!Answer(<<F!Byte("ack")>>) /\ target' = "app" /\ UNCHANGED <<rom, ptr, flash>>
    BY <1>13 DEF F!Rom
  <2>. QED BY <1>0, <1>1, <1>3, <1>13, <2>1
<1>. QED BY <1>1, <1>6, <1>7, <1>8, <1>9, <1>10, <1>11, <1>12, <1>13 DEF Pkt, Writes, Late

(* The failing write and the deaf application take packets off the line. *)
LEMMA LineEffect ==
  ASSUME Geometry, Types, F!RomFails \/ F!Deaf
  PROVE  /\ tx' \in Seq(Pkt) /\ rx' \in Seq(Reply)
         /\ \A j \in DOMAIN tx' : j + 1 \in DOMAIN tx /\ tx'[j] = tx[j + 1]
         /\ \A i \in DOMAIN rx' : (i \in DOMAIN rx /\ rx'[i] = rx[i]) \/ rx'[i].n # 4
         /\ faults' \in 0 .. MaxFaults /\ faults' >= faults /\ rom' \in {"ok", "failed"}
         /\ UNCHANGED <<F!options, F!host, target, ptr, flash>>
<1>1. CASE F!RomFails
  <2>1. tx \in Seq(Pkt) /\ rx \in Seq(Reply) /\ tx # <<>> /\ tx' = Tail(tx)
    BY <1>1 DEF F!RomFails, Types
  <2>2. F!Byte("ack") \in Reply /\ F!Byte("ack").n = 0 /\ rx' = Append(rx, F!Byte("ack"))
    BY <1>1, Replies DEF F!RomFails, F!Byte
  <2>3. /\ rx' \in Seq(Reply)
        /\ \A i \in DOMAIN rx' : (i \in DOMAIN rx /\ rx'[i] = rx[i]) \/ rx'[i].n # 4
    BY <2>1, <2>2
  <2>4. /\ faults' \in 0 .. MaxFaults /\ faults' >= faults /\ rom' \in {"ok", "failed"}
        /\ UNCHANGED <<F!options, F!host, target, ptr, flash>>
    BY <1>1 DEF F!RomFails, F!Fault, Types, F!TypeOK, Geometry
  <2>. QED BY <2>1, <2>3, <2>4, TailParts
<1>2. CASE F!Deaf
  BY <1>2 DEF F!Deaf, F!dev, Types, F!TypeOK
<1>. QED BY <1>1, <1>2

(* A host's answer to a good status: the next command. *)
LEMMA NextCommand ==
  ASSUME Geometry, Types, chk, F!AfterStatus
  PROVE  /\ step' \in {"erase", "download", "send", "crc"} /\ off' \in Nat
         /\ step' = "send" => off' < FlashSize
         /\ verify /\ step = "sync" => step' = "crc"
         /\ step \notin Late
<1>1. step \in {"sync", "erase", "download", "send"} /\ off \in Nat
  BY DEF Types, F!TypeOK, Late
<1>2. CASE step = "sync"
  BY <1>2 DEF F!AfterStatus, Types, Late
<1>3. CASE step = "erase"
  BY <1>3 DEF F!AfterStatus, Types, Late
<1>4. CASE step = "download"
  BY <1>4 DEF F!AfterStatus, Types, Late, Geometry
<1>5. CASE step = "send"
  BY <1>1, <1>5 DEF F!AfterStatus, Types, Late, Geometry
<1>. QED BY <1>1, <1>2, <1>3, <1>4, <1>5

(* Types is preserved. *)
LEMMA TypesStep ==
  ASSUME Geometry, Types, [F!Next]_F!vars PROVE Types'
<1>0. /\ tx \in Seq(Pkt) /\ rx \in Seq(Reply) /\ faults \in 0 .. MaxFaults /\ left \in 0 .. Timeout
      /\ FlashSize \in Nat \ {0} /\ Timeout \in Nat /\ MaxFaults \in Nat
      /\ \A i \in DOMAIN tx : tx[i].off + tx[i].n <= FlashSize
  BY DEF Types, F!TypeOK, Geometry
<1>1. CASE F!bootloader
  BY <1>0, <1>1 DEF F!bootloader, Types, F!TypeOK, F!options
<1>2. CASE F!command
  <2>1. PICK q \in {F!Packet, [F!Packet EXCEPT !.wire = "garbled"], [F!Packet EXCEPT !.wire = "altered"]} :
          tx' \in {tx, Append(tx, q)}
    BY <1>2 DEF F!command
  <2>2. q \in Pkt /\ q.off + q.n <= FlashSize
    BY PacketTypes DEF Pkt
  <2>3. tx' \in Seq(Pkt) /\ \A i \in DOMAIN tx' : tx'[i].off + tx'[i].n <= FlashSize
    <3>1. CASE tx' = tx
      BY <1>0, <3>1
    <3>2. CASE tx' = Append(tx, q)
      <4>1. tx' \in Seq(Pkt) /\ Len(tx') = Len(tx) + 1 /\ tx'[Len(tx) + 1] = q
        BY <1>0, <2>2, <3>2
      <4>2. \A i \in 1 .. Len(tx) : tx'[i] = tx[i]
        BY <1>0, <2>2, <3>2
      <4>. QED BY <1>0, <2>2, <4>1, <4>2, SMTT(30)
    <3>. QED BY <2>1, <3>1, <3>2
  <2>4. faults' \in 0 .. MaxFaults
    BY <1>0, <1>2 DEF F!command, F!Fault
  <2>. QED BY <1>0, <1>2, <2>3, <2>4 DEF F!command, Types, F!TypeOK, F!options, F!dev
<1>3. CASE F!nonzero \/ F!expect_ack \/ F!response
  <2>1. rx # <<>> /\ rx' = Tail(rx) /\ UNCHANGED <<F!options, tx, F!dev, faults>> /\ pc # "start"
    BY <1>3 DEF F!nonzero, F!expect_ack, F!response
  <2>2. rx' \in Seq(Reply)
    BY <1>0, <2>1, TailParts
  <2>3. /\ pc' \in {"send", "ack", "resp", "ok", "fail"} /\ chk' \in BOOLEAN
        /\ step' \in {"sync", "erase", "download", "send", "crc", "reset"}
        /\ off' \in Nat /\ left' \in 0 .. Timeout
        /\ step' = "send" => off' < FlashSize
        /\ pc' = "resp" => chk' \/ step' = "crc"
        /\ step' \in Late => ~chk'
        /\ pc' = "ok" => step' = "reset"
    <3>1. CASE F!nonzero
      BY <3>1 DEF F!nonzero, F!host, Types, F!TypeOK
    <3>2. CASE F!expect_ack
      <4>1. \/ pc' = "fail" /\ UNCHANGED <<step, chk, off, left>>
            \/ (chk \/ step = "crc") /\ pc' = "resp" /\ left' = Timeout /\ UNCHANGED <<step, chk, off>>
            \/ step = "reset" /\ pc' = "ok" /\ UNCHANGED <<step, chk, off, left>>
            \/ step \notin Late /\ pc' = "send" /\ chk' = TRUE /\ UNCHANGED <<step, off, left>>
        BY <3>2 DEF F!expect_ack, Late
      <4>2. CASE pc' = "fail" /\ UNCHANGED <<step, chk, off, left>>
        BY <4>2 DEF Types, F!TypeOK
      <4>3. CASE (chk \/ step = "crc") /\ pc' = "resp" /\ left' = Timeout /\ UNCHANGED <<step, chk, off>>
        BY <1>0, <4>3 DEF Types, F!TypeOK
      <4>4. CASE step = "reset" /\ pc' = "ok" /\ UNCHANGED <<step, chk, off, left>>
        BY <4>4 DEF Types, F!TypeOK
      <4>5. CASE step \notin Late /\ pc' = "send" /\ chk' = TRUE /\ UNCHANGED <<step, off, left>>
        BY <4>5 DEF Types, F!TypeOK
      <4>. QED BY <4>1, <4>2, <4>3, <4>4, <4>5
    <3>3. CASE F!response
      <4>1. CASE pc' = "fail" /\ UNCHANGED <<step, chk, off>>
        BY <3>3, <4>1 DEF F!response, Types, F!TypeOK
      <4>2. CASE pc' = "send" /\ chk' = FALSE /\ chk /\ F!AfterStatus
        BY <3>3, <4>2, NextCommand DEF F!response, Types, F!TypeOK
      <4>3. CASE pc' = "send" /\ chk' = FALSE /\ step' = "reset" /\ off' = off
        BY <3>3, <4>3 DEF F!response, Types, F!TypeOK
      <4>. QED BY <3>3, <4>1, <4>2, <4>3 DEF F!response
    <3>. QED BY <1>3, <3>1, <3>2, <3>3
  <2>. QED BY <2>1, <2>2, <2>3 DEF Types, F!TypeOK, F!options, F!dev
<1>4. CASE F!TimedOut \/ F!fail \/ F!Tick
  <2>1. faults' \in 0 .. MaxFaults
    BY <1>0, <1>4 DEF F!TimedOut, F!fail, F!Tick, F!Fault
  <2>. QED BY <1>0, <1>4, <2>1 DEF F!TimedOut, F!fail, F!Tick, Types, F!TypeOK, F!options, F!dev
<1>5. CASE F!Noise
  <2>1. faults' \in 0 .. MaxFaults
    BY <1>0, <1>5 DEF F!Noise, F!Fault
  <2>2. rx' \in Seq(Reply)
    <3>1. PICK b \in {"zero", "ack", "junk"} : rx' = <<F!Byte(b)>>
      BY <1>5 DEF F!Noise
    <3>2. F!Byte(b) \in Reply
      BY Replies
    <3>. QED BY <3>1, <3>2
  <2>. QED BY <1>5, <2>1, <2>2 DEF F!Noise, Types, F!TypeOK, F!options, F!host, F!dev, F!Running
<1>6. CASE F!Rom
  <2>1. tx # <<>>
    BY <1>6 DEF F!Rom
  <2>2. \A i \in DOMAIN tx' : tx'[i].off + tx'[i].n <= FlashSize
    BY <1>0, <1>6, RomEffect
  <2>3. /\ tx' \in Seq(Pkt) /\ rx' \in Seq(Reply) /\ flash' \in Contents /\ ptr' \in Nat
        /\ rom' \in {"ok", "failed"} /\ target' \in {"app", "boot"} /\ faults' \in 0 .. MaxFaults
        /\ UNCHANGED <<F!options, F!host>>
    BY <1>6, RomEffect
  <2>. QED BY <2>1, <2>2, <2>3 DEF Types, F!TypeOK, F!options, F!host, Contents
<1>7. CASE F!RomFails \/ F!Deaf
  <2>1. tx # <<>>
    BY <1>7 DEF F!RomFails, F!Deaf
  <2>2. \A i \in DOMAIN tx' : tx'[i].off + tx'[i].n <= FlashSize
    BY <1>0, <1>7, LineEffect
  <2>. QED BY <1>7, <2>1, <2>2, LineEffect DEF Types, F!TypeOK, F!options, F!host
<1>8. CASE UNCHANGED F!vars
  BY <1>8 DEF F!vars, Types, F!TypeOK
<1>. QED BY <1>1, <1>2, <1>3, <1>4, <1>5, <1>6, <1>7, <1>8 DEF F!Next, F!Host, F!Device

(* Ordered is preserved when the target takes a packet off the line. *)
LEMMA OrderedTail ==
  ASSUME Geometry, Types, Ordered, UNCHANGED <<F!options, F!host>>,
         tx' \in Seq(Pkt), \A j \in DOMAIN tx' : j + 1 \in DOMAIN tx /\ tx'[j] = tx[j + 1],
         Verified => flash' = flash,
         \A i \in DOMAIN rx' : \/ i \in DOMAIN rx /\ rx'[i] = rx[i]
                               \/ rx'[i].n # 4
                               \/ /\ 1 \in DOMAIN tx /\ tx[1].cmd = "crc" /\ flash' = flash
                                  /\ rx'[i].crc \in {flash, <<>>}
  PROVE  Ordered'
<1>0. UNCHANGED <<verify, step>>
  BY DEF F!options, F!host
<1>1. ReadsOnly => ReadsOnly'
  BY DEF ReadsOnly
<1>2. Verified => Verified'
  BY <1>1 DEF Verified, F!Image
<1>3. /\ \A i, j \in DOMAIN tx' : i < j /\ tx'[i].cmd = "crc" => tx'[j].cmd \notin Writes
      /\ \A i \in DOMAIN tx' : tx'[i].cmd = "crc" => step \in Late
      /\ \A i \in DOMAIN tx' : tx'[i].cmd = "reset" => step = "reset"
  <2>1. ASSUME NEW i \in DOMAIN tx', NEW j \in DOMAIN tx', i < j, tx'[i].cmd = "crc"
        PROVE  tx'[j].cmd \notin Writes
    <3>1. i \in Nat /\ j \in Nat /\ i + 1 < j + 1
      BY <2>1
    <3>. QED BY <2>1, <3>1 DEF Ordered
  <2>. QED BY <2>1 DEF Ordered
<1>4. ASSUME NEW i \in DOMAIN rx', rx'[i].n = 4
      PROVE  step \in Late /\ (rx'[i].crc = F!Image => Verified')
  <2>1. CASE i \in DOMAIN rx /\ rx'[i] = rx[i]
    BY <1>2, <1>4, <2>1 DEF Ordered
  <2>2. CASE /\ 1 \in DOMAIN tx /\ tx[1].cmd = "crc" /\ flash' = flash
             /\ rx'[i].crc \in {flash, <<>>}
    <3>1. step \in Late
      BY <2>2 DEF Ordered
    <3>2. ASSUME rx'[i].crc = F!Image PROVE Verified'
      <4>1. flash' = F!Image
        BY <2>2, <3>2, ImageContents
      <4>2. ASSUME NEW j \in DOMAIN tx' PROVE tx'[j].cmd \notin Writes
        <5>1. j \in Nat /\ 1 < j + 1 /\ j + 1 \in DOMAIN tx /\ tx'[j] = tx[j + 1]
          OBVIOUS
        <5>. QED BY <2>2, <5>1 DEF Ordered
      <4>. QED BY <4>1, <4>2 DEF Verified, ReadsOnly, F!Image
    <3>. QED BY <3>1, <3>2
  <2>. QED BY <1>4, <2>1, <2>2
<1>5. step = "reset" => Verified'
  BY <1>2 DEF Ordered
<1>6. verify => step \in Late \cup {"sync"} /\ ReadsOnly'
  BY <1>1 DEF Ordered
<1>7. F!Image' = F!Image
  BY DEF F!Image
<1>. QED BY <1>0, <1>3, <1>4, <1>5, <1>6, <1>7 DEF Ordered

(* Ordered is preserved. *)
LEMMA OrderedStep ==
  ASSUME Geometry, Types, Ordered, [F!Next]_F!vars PROVE Ordered'
<1>0. /\ tx \in Seq(Pkt) /\ rx \in Seq(Reply) /\ F!Image' = F!Image
      /\ step \in {"sync", "erase", "download", "send", "crc", "reset"}
  BY DEF Types, F!TypeOK, F!Image
<1>1. CASE F!bootloader
  <2>1. /\ step = "sync" /\ tx' = <<>> /\ rx' = <<>> /\ UNCHANGED <<verify, step>>
    BY <1>1 DEF F!bootloader, Types, F!options
  <2>. QED BY <2>1 DEF Ordered, ReadsOnly, Late
<1>2. CASE F!command
  <2>0. /\ UNCHANGED <<verify, step, flash, rx>>
    BY <1>2 DEF F!command, F!options, F!dev
  <2>1. PICK q \in {F!Packet, [F!Packet EXCEPT !.wire = "garbled"], [F!Packet EXCEPT !.wire = "altered"]} :
          tx' \in {tx, Append(tx, q)}
    BY <1>2 DEF F!command
  <2>2. q \in Pkt /\ q.cmd = IF chk THEN "status" ELSE step
    BY PacketTypes DEF Pkt, F!Packet
  <2>3. CASE tx' = tx
    BY <1>0, <2>0, <2>3 DEF Ordered, Verified, ReadsOnly
  <2>4. CASE tx' = Append(tx, q)
    <3>1. tx' \in Seq(Pkt) /\ Len(tx') = Len(tx) + 1 /\ tx'[Len(tx) + 1] = q
      BY <1>0, <2>2, <2>4
    <3>2. \A i \in 1 .. Len(tx) : tx'[i] = tx[i]
      BY <1>0, <2>2, <2>4
    <3>3. \A i \in DOMAIN tx' : (i \in DOMAIN tx /\ tx'[i] = tx[i]) \/ (i = Len(tx) + 1 /\ tx'[i] = q)
      BY <1>0, <3>1, <3>2
    <3>4. step \in Late \cup {"sync"} => q.cmd \notin Writes
      BY <2>2 DEF Late, Writes
    <3>5. step \in Late \cup {"sync"} /\ ReadsOnly => ReadsOnly'
      BY <3>3, <3>4 DEF ReadsOnly
    <3>6. step \in Late /\ Verified => Verified'
      BY <1>0, <2>0, <3>5 DEF Verified
    <3>7. ASSUME NEW i \in DOMAIN tx', NEW j \in DOMAIN tx', i < j, tx'[i].cmd = "crc"
          PROVE  tx'[j].cmd \notin Writes
      <4>1. i \in DOMAIN tx /\ tx'[i] = tx[i]
        BY <1>0, <3>1, <3>3, <3>7
      <4>. QED BY <3>3, <3>4, <3>7, <4>1 DEF Ordered
    <3>8. ASSUME NEW i \in DOMAIN tx'
          PROVE  (tx'[i].cmd = "crc" => step \in Late) /\ (tx'[i].cmd = "reset" => step = "reset")
      BY <2>2, <3>3 DEF Ordered, Late
    <3>. QED BY <1>0, <2>0, <3>5, <3>6, <3>7, <3>8 DEF Ordered, Late
  <2>. QED BY <2>1, <2>3, <2>4
<1>3. CASE F!nonzero \/ F!expect_ack \/ F!response
  <2>0. rx # <<>> /\ rx' = Tail(rx) /\ UNCHANGED <<verify, tx, flash>>
    BY <1>3 DEF F!nonzero, F!expect_ack, F!response, F!options, F!dev
  <2>1. /\ 1 \in DOMAIN rx /\ Head(rx) = rx[1]
        /\ \A i \in DOMAIN rx' : i + 1 \in DOMAIN rx /\ rx'[i] = rx[i + 1]
    BY <1>0, <2>0, TailParts
  <2>2. (ReadsOnly => ReadsOnly') /\ (Verified => Verified')
    BY <1>0, <2>0 DEF ReadsOnly, Verified
  <2>3. CASE UNCHANGED step
    BY <1>0, <2>0, <2>1, <2>2, <2>3 DEF Ordered
  <2>4. CASE F!response /\ chk /\ F!AfterStatus
    <3>1. step \notin Late /\ step' \in {"erase", "download", "send", "crc"}
      BY <2>4, NextCommand
    <3>2. /\ \A i \in DOMAIN tx : tx[i].cmd \notin Late
          /\ \A i \in DOMAIN rx' : rx'[i].n # 4
      BY <2>1, <3>1 DEF Ordered, Late
    <3>3. verify => step' = "crc"
      BY <2>4, <3>1, NextCommand DEF Ordered
    <3>. QED BY <2>0, <2>2, <3>1, <3>2, <3>3 DEF Ordered, Late
  <2>5. CASE F!response /\ step' = "reset" /\ Head(rx).n = 4 /\ Head(rx).crc = F!Image
    <3>1. Verified /\ step \in Late
      BY <2>1, <2>5 DEF Ordered
    <3>. QED BY <1>0, <2>0, <2>1, <2>2, <2>5, <3>1 DEF Ordered, Late, Verified
  <2>6. UNCHANGED step \/ (F!response /\ chk /\ F!AfterStatus)
          \/ (F!response /\ step' = "reset" /\ Head(rx).n = 4 /\ Head(rx).crc = F!Image)
    BY <1>3 DEF F!nonzero, F!expect_ack, F!response, F!host
  <2>. QED BY <2>3, <2>4, <2>5, <2>6
<1>4. CASE F!TimedOut \/ F!fail \/ F!Tick \/ UNCHANGED F!vars
  <2>1. UNCHANGED <<verify, step, tx, rx, flash>>
    BY <1>4 DEF F!TimedOut, F!fail, F!Tick, F!options, F!dev, F!vars
  <2>. QED BY <1>0, <2>1 DEF Ordered, ReadsOnly, Verified
<1>5. CASE F!Noise
  <2>1. UNCHANGED <<verify, step, tx, flash>>
    BY <1>5 DEF F!Noise, F!options, F!dev, F!host
  <2>2. \A i \in DOMAIN rx' : rx'[i].n = 0
    BY <1>5 DEF F!Noise, F!Byte
  <2>. QED BY <1>0, <2>1, <2>2 DEF Ordered, ReadsOnly, Verified
<1>6. CASE F!Rom
  <2>1. Verified => flash' = flash
    BY <1>6, RomEffect DEF Verified, ReadsOnly
  <2>2. tx[1].cmd = "crc" => flash' = flash
    BY <1>6, RomEffect DEF Writes
  <2>3. /\ UNCHANGED <<F!options, F!host>> /\ tx' \in Seq(Pkt) /\ 1 \in DOMAIN tx
        /\ \A j \in DOMAIN tx' : j + 1 \in DOMAIN tx /\ tx'[j] = tx[j + 1]
    BY <1>6, RomEffect
  <2>4. \A i \in DOMAIN rx' : \/ i \in DOMAIN rx /\ rx'[i] = rx[i]
                              \/ rx'[i].n # 4
                              \/ /\ 1 \in DOMAIN tx /\ tx[1].cmd = "crc" /\ flash' = flash
                                 /\ rx'[i].crc \in {flash, <<>>}
    BY <1>6, <2>2, <2>3, RomEffect
  <2>. QED BY <2>1, <2>3, <2>4, OrderedTail
<1>7. CASE F!RomFails \/ F!Deaf
  BY <1>7, LineEffect, OrderedTail
<1>. QED BY <1>1, <1>2, <1>3, <1>4, <1>5, <1>6, <1>7 DEF F!Next, F!Host, F!Device

(* The answer that is due, as a sequence. *)
LEMMA DueParts ==
  ASSUME Types
  PROVE  /\ Due \in Seq(Reply) /\ Due # <<>> /\ Head(Due) = F!Byte("ack")
         /\ chk => Tail(Due) = <<F!StatusReply("ok")>>
         /\ ~chk /\ step = "crc" => Tail(Due) = <<F!CrcReply(flash)>>
         /\ ~chk /\ step # "crc" => Tail(Due) = <<>>
<1>1. flash \in Contents
  BY DEF Types, F!TypeOK, Contents
<1>2. CASE chk
  <2>1. Due = <<F!Byte("ack"), F!StatusReply("ok")>>
    BY <1>2 DEF Due
  <2>. QED BY <1>1, <1>2, <2>1, Answers
<1>3. CASE ~chk /\ step = "crc"
  <2>1. Due = <<F!Byte("ack"), F!CrcReply(flash)>>
    BY <1>3 DEF Due
  <2>. QED BY <1>1, <1>3, <2>1, Answers
<1>4. CASE ~chk /\ step # "crc"
  <2>1. Due = <<F!Byte("ack")>>
    BY <1>4 DEF Due
  <2>. QED BY <1>1, <1>4, <2>1, Answers
<1>. QED BY <1>2, <1>3, <1>4

(* Idle bytes before the answer are at most one. *)
LEMMA IdleParts ==
  ASSUME Types, NEW z \in Idle
  PROVE  /\ z # <<>> => Head(z).b = "zero" /\ Tail(z) = <<>>
         /\ z \o Due # <<>>
         /\ z = <<>> => z \o Due = Due
         /\ z # <<>> => Head(z \o Due).b = "zero" /\ Tail(z \o Due) = Due
<1>1. F!Byte("zero") \in Reply /\ F!Byte("zero").b = "zero"
  BY Replies DEF F!Byte
<1>2. CASE z = <<>>
  BY <1>2, DueParts
<1>3. CASE z = <<F!Byte("zero")>>
  <2>1. z \in Seq(Reply) /\ Len(z) = 1 /\ z[1] = F!Byte("zero")
    BY <1>1, <1>3
  <2>2. z \o Due \in Seq(Reply) /\ Len(z \o Due) = Len(Due) + 1 /\ (z \o Due)[1] = F!Byte("zero")
    <3>1. Due \in Seq(Reply) /\ Len(Due) \in Nat
      BY DueParts
    <3>2. /\ z \o Due \in Seq(Reply) /\ Len(z \o Due) = Len(z) + Len(Due)
          /\ \A i \in 1 .. Len(z) + Len(Due) :
               (z \o Due)[i] = IF i <= Len(z) THEN z[i] ELSE Due[i - Len(z)]
      BY <2>1, <3>1, ConcatProperties
    <3>3. Len(z) + Len(Due) = Len(Due) + 1 /\ 1 \in 1 .. Len(z) + Len(Due) /\ 1 <= Len(z)
      BY <2>1, <3>1
    <3>4. (z \o Due)[1] = z[1]
      BY <3>2, <3>3
    <3>. QED BY <2>1, <3>2, <3>3, <3>4
  <2>3. Tail(z \o Due) \in Seq(Reply) /\ Len(Tail(z \o Due)) = Len(Due)
    BY <2>2, DueParts
  <2>4. \A i \in 1 .. Len(Due) : Tail(z \o Due)[i] = Due[i]
    BY <2>1, <2>2, DueParts
  <2>5. Tail(z \o Due) = Due
    BY <2>3, <2>4, DueParts
  <2>6. Head(z) = F!Byte("zero") /\ Tail(z) = <<>> /\ z \o Due # <<>> /\ Head(z \o Due) = F!Byte("zero")
    BY <1>3, <2>1, <2>2, DueParts
  <2>. QED BY <1>1, <1>3, <2>5, <2>6
<1>. QED BY <1>2, <1>3 DEF Idle

(* When the ROM executes the packet in hand on a quiet line, it gives the   *)
(* answer that is due, and the writing has come as far as it should.        *)
LEMMA Executed ==
  ASSUME Geometry, Types, rom = "ok", tx = <<F!Packet>>, Stage, F!Rom, faults' = 0, pc = "ack"
  PROVE  /\ tx' = <<>> /\ rx' = rx \o Due' /\ After' /\ rom' = "ok"
         /\ step \in Late => flash' = flash
<1>0. /\ flash \in Contents /\ ptr \in Nat /\ off \in Nat /\ FlashSize \in Nat \ {0} /\ Chunk \in Nat \ {0}
      /\ rx \in Seq(Reply) /\ faults \in 0 .. MaxFaults /\ MaxFaults \in Nat /\ chk \in BOOLEAN
      /\ step \in {"sync", "erase", "download", "send", "crc", "reset"}
      /\ step = "send" => off < FlashSize
  BY DEF Types, F!TypeOK, Contents, Geometry
<1>1. /\ Head(tx) = F!Packet /\ Tail(tx) = <<>> /\ F!Packet.wire = "clean"
      /\ F!Packet.cmd = IF chk THEN "status" ELSE step
  BY DEF F!Packet
<1>2. tx' = <<>> /\ UNCHANGED <<step, chk, off>> /\ F!ChunkLen' = F!ChunkLen
  BY <1>1 DEF F!Rom, F!host, F!ChunkLen
<1>3. ASSUME NEW s \in Seq(Reply), Len(s) \in {1, 2}, F!Answer(s) PROVE rx' = rx \o s
  BY <1>0, <1>3, AnswerParts
<1>4. CASE chk
  <2>1. F!Answer(<<F!Byte("ack"), F!StatusReply(rom)>>) /\ UNCHANGED F!dev
    BY <1>1, <1>4 DEF F!Rom
  <2>2. rx' = rx \o <<F!Byte("ack"), F!StatusReply("ok")>>
    BY <1>0, <1>3, <2>1, Answers
  <2>3. After'
    BY <1>2, <1>4, <2>1 DEF Stage, After, F!dev
  <2>. QED BY <1>2, <1>4, <2>1, <2>2, <2>3 DEF Due, F!dev
<1>5. CASE ~chk /\ step \in {"sync", "erase", "download", "reset"}
  <2>1. F!Answer(<<F!Byte("ack")>>)
    BY <1>1, <1>5 DEF F!Rom
  <2>2. rx' = rx \o <<F!Byte("ack")>>
    BY <1>0, <1>3, <2>1, Answers
  <2>3. /\ step = "download" => ptr' = 0
        /\ step \in Late => flash' = flash
        /\ rom' = "ok"
    BY <1>1, <1>5 DEF F!Rom, F!dev, Late
  <2>. QED BY <1>2, <1>5, <2>2, <2>3 DEF Due, After
<1>6. CASE ~chk /\ step = "crc"
  <2>1. F!Answer(<<F!Byte("ack"), F!CrcReply(flash)>>) /\ UNCHANGED F!dev
    BY <1>1, <1>6 DEF F!Rom
  <2>2. rx' = rx \o <<F!Byte("ack"), F!CrcReply(flash)>>
    BY <1>0, <1>3, <2>1, Answers
  <2>. QED BY <1>2, <1>6, <2>1, <2>2 DEF Due, After, F!dev
<1>7. CASE ~chk /\ step = "send"
  <2>1. /\ F!Answer(<<F!Byte("ack")>>)
        /\ rom' = "ok" /\ flash' = F!Written(F!Packet) /\ ptr' = ptr + F!Packet.n
    BY <1>1, <1>7 DEF F!Rom
  <2>2. rx' = rx \o <<F!Byte("ack")>>
    BY <1>0, <1>3, <2>1, Answers
  <2>3. F!Packet.n = F!ChunkLen /\ F!Packet.off = off /\ ptr = off /\ F!ChunkLen \in 1 .. FlashSize - off
    BY <1>7, PacketTypes DEF F!Packet, Stage, Before
  <2>4. ASSUME NEW a \in 0 .. off + F!ChunkLen - 1 PROVE F!Written(F!Packet)[a] = a
    <3>1. a \in F!Addr
      BY <1>0, <2>3 DEF F!Addr
    <3>2. CASE a \in ptr .. ptr + F!ChunkLen - 1
      <4>1. F!Written(F!Packet)[a] = off + (a - ptr)
        BY <1>1, <2>3, <3>1, <3>2 DEF F!Written
      <4>. QED BY <1>0, <2>3, <3>1, <3>2, <4>1 DEF F!Addr
    <3>3. CASE a \notin ptr .. ptr + F!ChunkLen - 1
      <4>1. a \in 0 .. off - 1
        BY <1>0, <2>3, <3>3
      <4>2. flash[a] = a
        BY <1>7, <4>1 DEF Stage, Before
      <4>. QED BY <2>3, <3>1, <3>3, <4>2 DEF F!Written
    <3>. QED BY <3>2, <3>3
  <2>5. After'
    BY <1>2, <1>7, <2>1, <2>3, <2>4 DEF After
  <2>. QED BY <1>2, <1>7, <2>1, <2>2, <2>5 DEF Due, Late
<1>. QED BY <1>0, <1>4, <1>5, <1>6, <1>7

(* The next command starts where the last one ended, and the CRC is asked   *)
(* for when every byte of the image is written.                             *)
LEMMA NextStage ==
  ASSUME Geometry, Types, chk, After, F!AfterStatus, UNCHANGED <<ptr, flash>>
  PROVE  Before' /\ (step' \in Late /\ ~verify => flash = F!Image)
<1>0. /\ flash \in Contents /\ off \in Nat /\ FlashSize \in Nat \ {0} /\ Chunk \in Nat \ {0}
      /\ step \in {"sync", "erase", "download", "send"} /\ (step = "send" => off < FlashSize)
  BY DEF Types, F!TypeOK, Contents, Geometry, Late
<1>1. CASE step \in {"sync", "erase"}
  BY <1>1 DEF F!AfterStatus, Before, Late
<1>2. CASE step = "download"
  BY <1>2 DEF F!AfterStatus, Before, After, Late
<1>3. CASE step = "send" /\ off + Chunk < FlashSize
  <2>1. step' = "send" /\ off' = off + Chunk /\ F!ChunkLen = Chunk
    BY <1>0, <1>3 DEF F!AfterStatus, F!ChunkLen
  <2>2. ptr = off + Chunk /\ \A a \in 0 .. off + Chunk - 1 : flash[a] = a
    BY <1>3, <2>1 DEF After
  <2>. QED BY <1>0, <2>1, <2>2 DEF Before, Late
<1>4. CASE step = "send" /\ ~(off + Chunk < FlashSize)
  <2>1. step' = "crc" /\ off + F!ChunkLen = FlashSize /\ F!ChunkLen \in Nat
    BY <1>0, <1>4 DEF F!AfterStatus, F!ChunkLen
  <2>2. \A a \in F!Addr : flash[a] = a
    <3>1. \A a \in 0 .. off + F!ChunkLen - 1 : flash[a] = a
      BY <1>4 DEF After
    <3>. QED BY <1>0, <2>1, <3>1 DEF F!Addr
  <2>3. flash = F!Image
    BY <1>0, <2>2 DEF Contents, F!Image
  <2>. QED BY <2>1, <2>3 DEF Before
<1>. QED BY <1>0, <1>1, <1>2, <1>3, <1>4

(* InStep is preserved as long as there is no fault. *)
LEMMA InStepStep ==
  ASSUME Geometry, Types, Ordered, faults = 0 => InStep, [F!Next]_F!vars, faults' = 0
  PROVE  InStep'
<1>0. /\ faults = 0 /\ ~F!Fault
  <2>1. faults \in Nat
    BY DEF Types, F!TypeOK
  <2>2. ~F!Fault
    BY <2>1 DEF F!Fault
  <2>3. faults' >= faults
    <3>1. CASE F!Host \/ F!fail \/ F!Tick \/ F!Noise \/ UNCHANGED F!vars
      BY <2>1, <2>2, <3>1 DEF F!Host, F!bootloader, F!command, F!nonzero, F!expect_ack, F!response, F!TimedOut,
           F!fail, F!Tick, F!Noise, F!vars
    <3>2. CASE F!Device
      BY <3>2, RomEffect, LineEffect DEF F!Device
    <3>. QED BY <3>1, <3>2 DEF F!Next
  <2>. QED BY <2>1, <2>2, <2>3
<1>1. InStep /\ F!Image' = F!Image
  BY <1>0 DEF F!Image
<1>. DEFINE Same == UNCHANGED <<verify, step, chk, off, ptr, flash, rom>>
<1>2. ASSUME Same
      PROVE  Before' = Before /\ After' = After /\ Stage' = Stage /\ Due' = Due /\ F!Packet' = F!Packet
  BY <1>2 DEF Before, After, Stage, Due, F!Packet, F!ChunkLen, F!Addr
<1>3. CASE F!bootloader
  <2>1. /\ pc' = "send" /\ step' = "sync" /\ ~chk' /\ tx' = <<>> /\ rx' = <<>> /\ rom' = "ok"
    BY <1>1, <1>3 DEF F!bootloader, Types, InStep
  <2>2. Stage' /\ rx' \in Idle /\ Idle' = Idle
    BY <2>1 DEF Stage, Before, Idle
  <2>. QED BY <2>1, <2>2 DEF InStep, Late
<1>4. CASE F!command
  <2>1. /\ pc = "send" /\ pc' = "ack" /\ Same /\ rx' = rx /\ tx' = Append(tx, F!Packet)
    BY <1>0, <1>4 DEF F!command, F!options, F!dev
  <2>2. tx = <<>> /\ rx \in Idle /\ Stage
    BY <1>1, <2>1 DEF InStep
  <2>3. tx' = <<F!Packet>>
    BY <2>1, <2>2
  <2>4. F!Packet' = F!Packet /\ Stage' /\ rx' \in Idle'
    BY <1>2, <2>1, <2>2 DEF Idle
  <2>. QED BY <1>1, <2>1, <2>3, <2>4 DEF InStep
<1>5. CASE F!nonzero
  <2>1. /\ rx # <<>> /\ Head(rx).b = "zero" /\ rx' = Tail(rx) /\ Same /\ UNCHANGED <<pc, left, tx>>
        /\ pc \in {"ack", "resp"}
    BY <1>5 DEF F!nonzero, F!options, F!host, F!dev
  <2>2. pc = "ack"
    <3>1. ASSUME pc = "resp" PROVE FALSE
      <4>1. rx = <<F!StatusReply("ok")>> \/ rx = <<F!CrcReply(flash)>>
        BY <1>1, <3>1, DueParts DEF InStep, Types
      <4>2. Head(rx).b = "rsp"
        BY <4>1 DEF F!StatusReply, F!CrcReply
      <4>. QED BY <2>1, <4>2
    <3>. QED BY <2>1, <3>1
  <2>3. \/ rx \in Idle /\ Tail(rx) = <<>>
        \/ \E z \in Idle : z # <<>> /\ rx = z \o Due /\ Tail(rx) = Due
    <3>1. CASE rx \in Idle
      BY <2>1, <3>1, IdleParts
    <3>2. ASSUME NEW z \in Idle, rx = z \o Due PROVE z # <<>> /\ Tail(rx) = Due
      <4>1. Head(Due).b = "ack"
        BY DueParts DEF F!Byte
      <4>2. z # <<>>
        BY <2>1, <3>2, <4>1, IdleParts
      <4>. QED BY <3>2, <4>2, IdleParts
    <3>. QED BY <1>1, <2>2, <3>1, <3>2 DEF InStep
  <2>4. Due = <<>> \o Due /\ <<>> \in Idle /\ Idle' = Idle
    BY DueParts, ConcatEmptySeq DEF Idle
  <2>5. /\ F!Packet' = F!Packet /\ Stage' = Stage /\ After' = After /\ Due' = Due
    BY <1>2, <2>1
  <2>6. CASE rx \in Idle /\ Tail(rx) = <<>>
    <3>1. (tx = <<F!Packet>> /\ Stage) \/ tx = <<>>
      BY <1>1, <2>2 DEF InStep
    <3>. QED BY <1>1, <2>1, <2>2, <2>4, <2>5, <2>6, <3>1 DEF InStep
  <2>7. CASE \E z \in Idle : z # <<>> /\ rx = z \o Due /\ Tail(rx) = Due
    <3>1. rx \notin Idle
      <4>1. PICK z \in Idle : rx = z \o Due /\ z # <<>> /\ Tail(rx) = Due
        BY <2>7
      <4>2. Tail(rx) # <<>>
        BY <4>1, DueParts
      <4>. QED BY <2>1, <4>2, IdleParts
    <3>2. tx = <<>> /\ After
      BY <1>1, <2>2, <3>1 DEF InStep
    <3>. QED BY <1>1, <2>1, <2>2, <2>4, <2>5, <2>7, <3>2 DEF InStep
  <2>. QED BY <2>3, <2>6, <2>7
<1>6. CASE F!expect_ack
  <2>1. /\ pc = "ack" /\ rx # <<>> /\ Head(rx).b # "zero" /\ rx' = Tail(rx)
        /\ UNCHANGED <<verify, tx, ptr, flash, rom>>
    BY <1>6 DEF F!expect_ack, F!options, F!dev
  <2>2. rx = Due /\ tx = <<>> /\ After
    <3>1. rx \notin Idle
      BY <2>1, IdleParts
    <3>2. PICK z \in Idle : rx = z \o Due
      BY <1>1, <2>1, <3>1 DEF InStep
    <3>3. z = <<>>
      BY <2>1, <3>2, IdleParts
    <3>. QED BY <1>1, <2>1, <3>1, <3>2, <3>3, IdleParts DEF InStep
  <2>3. Head(rx).b = "ack"
    BY <2>2, DueParts DEF F!Byte
  <2>4. CASE chk \/ step = "crc"
    <3>1. pc' = "resp" /\ UNCHANGED <<step, chk, off>>
      BY <1>6, <2>3, <2>4 DEF F!expect_ack
    <3>2. Due' = Due /\ After'
      BY <1>2, <2>1, <2>2, <3>1
    <3>. QED BY <1>1, <2>1, <2>2, <3>1, <3>2 DEF InStep
  <2>5. CASE ~chk /\ step = "reset"
    <3>1. pc' = "ok" /\ UNCHANGED <<step, chk, off>>
      BY <1>6, <2>3, <2>5 DEF F!expect_ack
    <3>. QED BY <1>1, <2>1, <3>1 DEF InStep
  <2>6. CASE ~chk /\ step \notin Late
    <3>1. pc' = "send" /\ chk' = TRUE /\ UNCHANGED <<step, off>>
      BY <1>6, <2>3, <2>6 DEF F!expect_ack, Late
    <3>2. Tail(rx) = <<>>
      BY <2>2, <2>6, DueParts DEF Late
    <3>3. Stage' /\ <<>> \in Idle'
      BY <2>1, <2>2, <3>1 DEF Stage, After, F!ChunkLen, Idle
    <3>. QED BY <1>1, <2>1, <2>2, <3>1, <3>2, <3>3 DEF InStep
  <2>. QED BY <2>4, <2>5, <2>6 DEF Late
<1>7. CASE F!response
  <2>1. /\ pc = "resp" /\ rx' = Tail(rx) /\ UNCHANGED <<verify, tx, ptr, flash, rom>>
    BY <1>7 DEF F!response, F!options, F!dev
  <2>2. tx = <<>> /\ rx = Tail(Due) /\ After
    BY <1>1, <2>1 DEF InStep
  <2>3. CASE chk
    <3>1. rx = <<F!StatusReply("ok")>>
      BY <2>2, <2>3, DueParts
    <3>2. Head(rx) = F!StatusReply("ok") /\ Tail(rx) = <<>>
      BY <3>1
    <3>3. pc' = "send" /\ chk' = FALSE /\ F!AfterStatus
      <4>1. Head(rx).b = "rsp" /\ Head(rx).n = 1 /\ Head(rx).sum = TRUE /\ Head(rx).st = "ok"
        BY <3>2 DEF F!StatusReply
      <4>. QED BY <1>7, <2>3, <4>1 DEF F!response
    <3>4. Before' /\ (step' \in Late /\ ~verify => flash = F!Image)
      BY <2>1, <2>2, <2>3, <3>3, NextStage
    <3>5. Stage' /\ <<>> \in Idle'
      BY <3>3, <3>4 DEF Stage, Idle
    <3>. QED BY <1>1, <2>1, <2>2, <3>2, <3>3, <3>4, <3>5 DEF InStep
  <2>4. CASE ~chk
    <3>1. step = "crc" /\ rx = <<F!CrcReply(flash)>>
      BY <2>1, <2>2, <2>4, DueParts DEF Types
    <3>2. Head(rx) = F!CrcReply(flash) /\ Tail(rx) = <<>>
      BY <3>1
    <3>3. CASE flash = F!Image
      <4>1. pc' = "send" /\ chk' = FALSE /\ step' = "reset"
        BY <1>7, <2>4, <3>2, <3>3 DEF F!response, F!CrcReply
      <4>2. Stage' /\ <<>> \in Idle'
        BY <4>1 DEF Stage, Before, Idle
      <4>. QED BY <1>1, <2>1, <2>2, <3>2, <3>3, <4>1, <4>2 DEF InStep
    <3>4. CASE flash # F!Image
      <4>1. pc' = "fail"
        BY <1>7, <2>4, <3>2, <3>4 DEF F!response, F!CrcReply
      <4>2. verify
        BY <1>1, <2>1, <3>1, <3>4 DEF InStep, Late
      <4>. QED BY <1>1, <2>1, <3>4, <4>1, <4>2 DEF InStep
    <3>. QED BY <3>3, <3>4
  <2>. QED BY <2>3, <2>4
<1>8. CASE F!TimedOut
  BY <1>1, <1>8 DEF F!TimedOut, InStep, F!dev
<1>9. CASE F!fail
  BY <1>0, <1>9 DEF F!fail
<1>10. CASE F!Tick \/ UNCHANGED F!vars
  <2>1. Same /\ UNCHANGED <<pc, tx, rx>> /\ (pc = "fail" => left' = left)
    BY <1>10 DEF F!Tick, F!options, F!dev, F!vars
  <2>2. F!Packet' = F!Packet /\ Stage' = Stage /\ After' = After /\ Due' = Due /\ Idle' = Idle
    BY <1>2, <2>1 DEF Idle
  <2>. QED BY <1>1, <2>1, <2>2 DEF InStep
<1>11. CASE F!Noise
  <2>1. /\ rx = <<>> /\ rx' = <<F!Byte("zero")>> /\ Same /\ UNCHANGED <<pc, tx, left>>
        /\ pc \in {"send", "ack", "resp"}
    BY <1>0, <1>11 DEF F!Noise, F!Running, F!options, F!host, F!dev
  <2>2. F!Packet' = F!Packet /\ Stage' = Stage /\ After' = After /\ Due' = Due /\ Idle' = Idle
    BY <1>2, <2>1 DEF Idle
  <2>3. pc # "resp"
    <3>1. ASSUME pc = "resp" PROVE FALSE
      <4>1. rx = <<F!StatusReply("ok")>> \/ rx = <<F!CrcReply(flash)>>
        BY <1>1, <3>1, DueParts DEF InStep, Types
      <4>. QED BY <2>1, <4>1
    <3>. QED BY <3>1
  <2>4. ~ \E z \in Idle : rx = z \o Due
    BY <2>1, IdleParts
  <2>5. rx' \in Idle'
    BY <2>1 DEF Idle
  <2>. QED BY <1>1, <2>1, <2>2, <2>3, <2>4, <2>5 DEF InStep
<1>12. CASE F!Rom
  <2>1. /\ tx # <<>> /\ UNCHANGED <<verify, pc, step, chk, off, left>>
    BY <1>12 DEF F!Rom, F!options, F!host
  <2>2. rom' = "ok"
    BY <1>1, <1>12, RomEffect DEF F!Rom, InStep, F!dev, Pkt, Writes, Late
  <2>3. Verified \/ verify => flash' = flash
    BY <1>12, RomEffect DEF Verified, ReadsOnly, Ordered
  <2>4. CASE pc = "ack"
    <3>1. tx = <<F!Packet>> /\ rx \in Idle /\ Stage
      BY <1>1, <2>1, <2>4 DEF InStep
    <3>2. tx' = <<>> /\ rx' = rx \o Due' /\ After' /\ (step \in Late => flash' = flash)
      BY <1>1, <1>12, <2>4, <3>1, Executed DEF InStep
    <3>3. \E z \in Idle' : rx' = z \o Due'
      BY <3>1, <3>2 DEF Idle
    <3>. QED BY <1>1, <2>1, <2>2, <2>4, <3>2, <3>3 DEF InStep
  <2>5. CASE pc \in {"ok", "fail"}
    <3>1. pc = "ok" => flash' = flash
      BY <2>3 DEF Types, Ordered
    <3>. QED BY <1>1, <2>1, <2>2, <2>3, <2>5, <3>1 DEF InStep
  <2>. QED BY <1>1, <2>1, <2>4, <2>5 DEF InStep, Types, F!TypeOK
<1>13. CASE F!RomFails
  BY <1>0, <1>13 DEF F!RomFails
<1>14. CASE F!Deaf
  <2>1. tx # <<>> /\ tx' = <<>> /\ Same /\ UNCHANGED <<pc, rx, left>>
    BY <1>14 DEF F!Deaf, F!options, F!host, F!dev
  <2>2. pc \notin {"send", "resp"} /\ (pc = "ack" => rx \in Idle)
    BY <1>1, <2>1 DEF InStep
  <2>3. Idle' = Idle
    BY DEF Idle
  <2>. QED BY <1>1, <2>1, <2>2, <2>3 DEF InStep
<1>. QED BY <1>3, <1>4, <1>5, <1>6, <1>7, <1>8, <1>9, <1>10, <1>11, <1>12, <1>13, <1>14
     DEF F!Next, F!Host, F!Device

-----------------------------------------------------------------------------
(* The theorems *)

(* Before the first command the line is empty.                             *)
LEMMA FlashInit == ASSUME Geometry, F!Init PROVE FInv
<1>1. Types
  <2>1. flash \in Contents
    BY ImageContents DEF F!Init, Contents, F!Image
  <2>2. rx \in Seq(Reply) /\ tx \in Seq(Pkt)
    <3>1. F!Byte("ack") \in Reply
      BY Replies
    <3>2. rx = <<>> \/ rx = <<F!Byte("ack")>>
      BY DEF F!Init
    <3>3. <<>> \in Seq(Reply) /\ <<>> \in Seq(Pkt) /\ <<F!Byte("ack")>> \in Seq(Reply)
      BY <3>1
    <3>4. tx = <<>>
      BY DEF F!Init
    <3>. QED BY <3>2, <3>3, <3>4
  <2>3. /\ pc = "start" /\ step = "sync" /\ chk = FALSE /\ off = 0 /\ left = Timeout
        /\ tx = <<>> /\ target \in {"app", "boot"} /\ rom = "ok" /\ ptr = 0 /\ faults = 0
        /\ verify \in BOOLEAN
    BY DEF F!Init
  <2>4. Timeout \in Nat /\ MaxFaults \in Nat
    BY DEF Geometry
  <2>5. F!TypeOK
    <3>1. \A i \in DOMAIN tx : tx[i].off + tx[i].n <= FlashSize
      BY <2>3
    <3>2. left \in 0 .. Timeout /\ faults \in 0 .. MaxFaults /\ off \in Nat /\ ptr \in Nat
      BY <2>3, <2>4
    <3>3. flash \in [F!Addr -> F!Addr \cup {F!Old, F!Blank, F!Bad}]
      BY <2>1 DEF Contents
    <3>. QED BY <2>3, <3>1, <3>2, <3>3, Zenon DEF F!TypeOK
  <2>. QED BY <2>2, <2>3, <2>5 DEF Types, Late
<1>2. Ordered
  <2>1. \A i \in DOMAIN rx : rx[i].n = 0
    BY DEF F!Init, F!Byte
  <2>. QED BY <2>1 DEF F!Init, Ordered, ReadsOnly, Late
<1>3. InStep
  BY DEF F!Init, InStep, Late
<1>. QED BY <1>1, <1>2, <1>3 DEF FInv

(* Each step of the host, the ROM and the line keeps the invariant.        *)
LEMMA FlashStep == ASSUME Geometry, FInv, [F!Next]_F!vars PROVE FInv'
BY TypesStep, OrderedStep, InStepStep DEF FInv

(* Whatever the line loses, damages or invents and wherever an answer comes *)
(* out of step, exit code 0 means that the flash holds the padded image; no *)
(* chunk reaches past it; and a run that fails had a fault, let a deadline  *)
(* pass, or was a --verify-only that found other contents.                  *)
THEOREM FlashSafe ==
  ASSUME Geometry PROVE F!Spec => []Programmed
<1>1. F!Init => FInv
  BY FlashInit
<1>2. FInv /\ [F!Next]_F!vars => FInv'
  BY FlashStep
<1>3. FInv => Programmed
  <2>1. ASSUME FInv PROVE F!TypeOK /\ F!Programmed
    BY <2>1 DEF FInv, Types, Ordered, Verified, F!Programmed
  <2>2. ASSUME FInv PROVE F!FailsForCause
    <3>1. faults \in Nat
      BY <2>2 DEF FInv, Types, F!TypeOK
    <3>. QED BY <2>2, <3>1 DEF FInv, InStep, F!FailsForCause
  <2>. QED BY <2>1, <2>2 DEF Programmed
<1>. QED BY <1>1, <1>2, <1>3, PTL DEF F!Spec

(* main resets the target only on the right CRC, and nothing that writes is *)
(* on the line by then: the target leaves the bootloader with the image in  *)
(* its flash, and --verify-only changes no byte of it.                      *)
THEOREM FlashReset ==
  ASSUME Geometry PROVE F!Spec => ResetOnlyVerified
<1>1. F!Init => FInv
  BY FlashInit
<1>2. FInv /\ [F!Next]_F!vars => FInv'
  BY FlashStep
<1>3. FInv /\ [F!Next]_F!vars => (target = "boot" /\ target' = "app" => flash = F!Image)
  <2>. SUFFICES ASSUME FInv, [F!Next]_F!vars, target = "boot", target' = "app" PROVE flash = F!Image
    OBVIOUS
  <2>1. CASE F!Rom
    BY <2>1, RomEffect DEF FInv, Ordered, Verified
  <2>2. CASE F!RomFails \/ F!Deaf
    BY <2>2, LineEffect DEF FInv
  <2>3. CASE F!Host \/ F!fail \/ F!Tick \/ F!Noise \/ UNCHANGED F!vars
    BY <2>3 DEF F!Host, F!bootloader, F!command, F!nonzero, F!expect_ack, F!response, F!TimedOut,
         F!fail, F!Tick, F!Noise, F!vars, F!dev
  <2>. QED BY <2>1, <2>2, <2>3 DEF F!Next, F!Device
<1>4. FInv /\ [F!Next]_F!vars => (verify => flash' = flash)
  <2>. SUFFICES ASSUME FInv, [F!Next]_F!vars, verify PROVE flash' = flash
    OBVIOUS
  <2>1. CASE F!Rom
    BY <2>1, RomEffect DEF FInv, Ordered, ReadsOnly
  <2>2. CASE F!RomFails \/ F!Deaf
    BY <2>2, LineEffect DEF FInv
  <2>3. CASE F!Host \/ F!fail \/ F!Tick \/ F!Noise \/ UNCHANGED F!vars
    BY <2>3 DEF F!Host, F!bootloader, F!command, F!nonzero, F!expect_ack, F!response, F!TimedOut,
         F!fail, F!Tick, F!Noise, F!vars, F!dev
  <2>. QED BY <2>1, <2>2, <2>3 DEF F!Next, F!Device
<1>. QED BY <1>1, <1>2, <1>3, <1>4, PTL DEF F!Spec, ResetOnlyVerified, F!ResetOnlyVerified, F!VerifyReadsOnly
=============================================================================

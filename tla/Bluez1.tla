------------------------------- MODULE Bluez1 -------------------------------
(***************************************************************************)
(* The BlueZ peripheral of tester1/bluez1.cpp: the public functions, called*)
(* one at a time, and the worker thread that owns the D-Bus connection.    *)
(* start waits for the worker's setup on a condition variable; send, pair  *)
(* and stop hand a Work to the worker through an idle source of its main   *)
(* context and wait for it; stop and a failed start join the worker.       *)
(*                                                                         *)
(* While it waits for a reply of bluetoothd the worker iterates its        *)
(* context, so a remote client's calls are served in the middle of setup,  *)
(* pairing and cleanup.  Calls may fail and the bus connection may break.  *)
(***************************************************************************)
EXTENDS Integers, Sequences

CONSTANTS
  Messages,   \* contents given to bluez1_send
  MaxCalls,   \* bound on the number of public calls
  Faults      \* D-Bus calls may fail and the bus may close the connection

(* The D-Bus calls of setup, in their order. *)
SetupCalls == <<"Get", "Powered", "RegisterAgent", "RequestDefaultAgent", "Pairable",
                "RegisterApplication", "RegisterAdvertisement">>
Op == {"start", "stop", "destroy", "send", "notify", "pair"}

VARIABLES
  caller,     \* "idle", "start", "dispatch", "join" or "gone" (destroyed)
  op,         \* the public function being executed
  calls,      \* number of public calls so far
  started,    \* s->worker is set
  worker,     \* "none", "setup", "ready", "enter", "run", "pair",
              \* "signal", "restore", "close" or "exited"
  at,         \* call of setup in hand; 0 is the connection to the bus
  ready, start_result,      \* of State
  running,    \* is_running of the GMainLoop
  source,     \* an idle source with run_work is attached
  done,       \* w.done
  active, notifying, pairing, restore_pairable, old_pairable, value,  \* of State
  object_count, \* exported objects, at most the 6 of s->objects
  bus,        \* s->bus: "none", "open" or "broken"
  pairable,   \* property of the adapter
  registered, \* what bluetoothd knows of this connection
  before,     \* Pairable when start was called
  spoiled     \* Pairable could not be restored for want of bluetoothd's answer

conn == <<bus, object_count>>
st   == <<active, notifying, pairing, restore_pairable, old_pairable, value>>
api  == <<caller, op, calls, started>>
daemon == <<pairable, registered, before, spoiled>>
vars == <<caller, op, calls, started, worker, at, ready, start_result, running, source, done,
          active, notifying, pairing, restore_pairable, old_pairable, value,
          object_count, bus, pairable, registered, before, spoiled>>

(* bluez1_init *)
Init ==
  /\ caller = "idle" /\ op = "none" /\ calls = 0 /\ started = FALSE
  /\ worker = "none" /\ at = 0 /\ ready = FALSE /\ start_result = 0
  /\ running = FALSE /\ source = FALSE /\ done = FALSE
  /\ active = FALSE /\ notifying = FALSE /\ pairing = FALSE
  /\ restore_pairable = FALSE /\ old_pairable = FALSE /\ value = "empty"
  /\ object_count = 0 /\ bus = "none" /\ pairable \in BOOLEAN /\ before = pairable
  /\ registered = {} /\ spoiled = FALSE
-----------------------------------------------------------------------------
(* The public functions *)

Call(o) == caller = "idle" /\ calls < MaxCalls /\ calls' = calls + 1 /\ op' = o

(* Mutant: ready keeps its value from the last start. *)
bluez1_start_stale ==
  /\ Call("start") /\ ~started
  /\ started' = TRUE /\ worker' = "setup" /\ at' = 0 /\ ready' = ready
  /\ caller' = "start" /\ before' = pairable /\ spoiled' = FALSE
  /\ UNCHANGED <<start_result, running, source, done, st, conn, pairable, registered>>

bluez1_start ==
  /\ Call("start") /\ ~started
  /\ started' = TRUE /\ worker' = "setup" /\ at' = 0 /\ ready' = FALSE
  /\ caller' = "start" /\ before' = pairable /\ spoiled' = FALSE
  /\ UNCHANGED <<start_result, running, source, done, st, conn, pairable, registered>>

StartReturns ==
  /\ caller = "start" /\ ready
  /\ caller' = IF start_result = 0 THEN "idle" ELSE "join"
  /\ UNCHANGED <<op, calls, started, worker, at, ready, start_result, running, source, done,
                 st, conn, daemon>>

(* dispatch: attach the work and wait for it *)
dispatch(o) ==
  /\ Call(o) /\ started
  /\ source' = TRUE /\ done' = FALSE /\ caller' = "dispatch"
  /\ UNCHANGED <<started, worker, at, ready, start_result, running, st, conn, daemon>>

(* Mutant: the loop is told to quit by the calling thread. *)
bluez1_stop_direct(o) ==
  /\ Call(o) /\ started
  /\ running' = FALSE /\ caller' = "join"
  /\ UNCHANGED <<started, worker, at, ready, start_result, source, done, st, conn, daemon>>

bluez1_stop(o) == dispatch(o)
bluez1_send(o) == dispatch(o)
bluez1_pair == dispatch("pair")

(* bluez1_destroy with no worker to stop *)
bluez1_destroy ==
  /\ Call("destroy") /\ ~started /\ caller' = "gone"
  /\ UNCHANGED <<started, worker, at, ready, start_result, running, source, done, st, conn, daemon>>

DispatchReturns ==
  /\ caller = "dispatch" /\ done
  /\ caller' = IF op \in {"stop", "destroy"} THEN "join" ELSE "idle"
  /\ UNCHANGED <<op, calls, started, worker, at, ready, start_result, running, source, done,
                 st, conn, daemon>>

(* Mutant: the worker is not waited for. *)
release_worker_detach ==
  /\ caller = "join" /\ worker \in {"restore", "close", "exited"}
  /\ started' = FALSE /\ worker' = (IF worker = "exited" THEN "none" ELSE worker)
  /\ caller' = IF op = "destroy" THEN "gone" ELSE "idle"
  /\ UNCHANGED <<op, calls, at, ready, start_result, running, source, done, st, conn, daemon>>

(* release_worker: g_thread_join *)
release_worker ==
  /\ caller = "join" /\ worker = "exited"
  /\ started' = FALSE /\ worker' = "none"
  /\ caller' = IF op = "destroy" THEN "gone" ELSE "idle"
  /\ UNCHANGED <<op, calls, at, ready, start_result, running, source, done, st, conn, daemon>>
-----------------------------------------------------------------------------
(* The worker: setup *)

rest == <<api, running, source, done>>

(* What bluetoothd does for a call of setup *)
Executes(c) ==
  /\ pairable' = (pairable \/ c = "Pairable")
  /\ registered' = IF c \in {"RegisterAgent", "RegisterApplication", "RegisterAdvertisement"}
                     THEN registered \cup {c} ELSE registered

(* setup returns -1; what was connected, exported and registered stays.  A  *)
(* call that times out may have been executed: restore_pairable is not set. *)
SetupFails ==
  /\ worker = "setup" /\ (Faults \/ bus = "broken")
  /\ worker' = "ready" /\ start_result' = -1
  /\ \/ /\ at = 0 /\ bus' = "open" /\ \E n \in 0 .. 5 : object_count' = object_count + n
        /\ UNCHANGED daemon
     \/ UNCHANGED <<conn, daemon>>
     \/ /\ at \in DOMAIN SetupCalls /\ bus = "open" /\ Executes(SetupCalls[at])
        /\ spoiled' = (spoiled \/ SetupCalls[at] = "Pairable")
        /\ UNCHANGED <<conn, before>>
  /\ UNCHANGED <<rest, at, ready, st>>

(* setup: the private connection and the exported objects *)
SetupConnect ==
  /\ worker = "setup" /\ at = 0 /\ bus' = "open" /\ at' = 1
  /\ object_count' = object_count + 6
  /\ UNCHANGED <<rest, worker, ready, start_result, st, daemon>>

(* setup: one call and what is done with its reply *)
SetupCall ==
  /\ worker = "setup" /\ at \in DOMAIN SetupCalls /\ bus = "open"
  /\ LET c == SetupCalls[at]
         last == at = Len(SetupCalls) IN
     /\ old_pairable' = IF c = "Get" THEN pairable ELSE old_pairable
     /\ Executes(c)
     /\ restore_pairable' = (restore_pairable \/ c = "Pairable")
     /\ IF last THEN active' = TRUE /\ start_result' = 0 /\ worker' = "ready" /\ at' = at
                ELSE at' = at + 1 /\ UNCHANGED <<active, start_result, worker>>
  /\ UNCHANGED <<rest, ready, notifying, pairing, value, conn, before, spoiled>>

(* worker_main: publish the result *)
WorkerReady ==
  /\ worker = "ready" /\ ready' = TRUE
  /\ worker' = IF start_result = 0 THEN "enter" ELSE "restore"
  /\ UNCHANGED <<rest, at, start_result, st, conn, daemon>>

(* g_main_loop_run: an earlier quit is forgotten. *)
LoopRun ==
  /\ worker = "enter" /\ worker' = "run" /\ running' = TRUE
  /\ UNCHANGED <<api, source, done, at, ready, start_result, st, conn, daemon>>

LoopQuits ==
  /\ worker = "run" /\ ~running /\ worker' = "restore"
  /\ UNCHANGED <<rest, at, ready, start_result, st, conn, daemon>>
-----------------------------------------------------------------------------
(* The worker: run_work *)

(* The idle source fires: stop_work, send_work and pair_work *)
run_work ==
  /\ worker = "run" /\ running /\ source /\ source' = FALSE
  /\ CASE op \in {"stop", "destroy"} ->
            running' = FALSE /\ worker' = "signal" /\ UNCHANGED <<value, pairing>>
       [] op \in {"send", "notify"} ->
            /\ worker' = "signal" /\ UNCHANGED <<running, pairing>>
            /\ IF ~active \/ bus = "broken" \/ (op = "notify" /\ ~notifying)
                 THEN UNCHANGED value ELSE value' \in Messages
       [] op = "pair" ->
            /\ UNCHANGED <<running, value>>
            /\ IF ~active \/ pairing THEN worker' = "signal" /\ UNCHANGED pairing
                                     ELSE worker' = "pair" /\ pairing' = TRUE
  /\ UNCHANGED <<api, done, at, ready, start_result, active, notifying, restore_pairable,
                 old_pairable, conn, daemon>>

(* pair_work: the call returned, in whatever way *)
PairReply ==
  /\ worker = "pair" /\ worker' = "signal" /\ pairing' = FALSE
  /\ UNCHANGED <<rest, at, ready, start_result, active, notifying, restore_pairable,
                 old_pairable, value, conn, daemon>>

(* run_work: under w.mutex, done is set and the caller is woken *)
RunWorkDone ==
  /\ worker = "signal" /\ done' = TRUE /\ worker' = "run"
  /\ UNCHANGED <<api, running, source, at, ready, start_result, st, conn, daemon>>
-----------------------------------------------------------------------------
(* The worker: cleanup *)

(* cleanup: restore Pairable; a failure is not looked at. *)
CleanupRestore ==
  /\ worker = "restore" /\ worker' = "close"
  /\ \/ /\ bus = "open" /\ restore_pairable
        /\ pairable' = old_pairable /\ UNCHANGED spoiled
     \/ /\ restore_pairable /\ (Faults \/ bus = "broken")
        /\ spoiled' = TRUE /\ UNCHANGED pairable
     \/ ~restore_pairable /\ UNCHANGED <<pairable, spoiled>>
  /\ UNCHANGED <<rest, at, ready, start_result, st, conn, registered, before>>

(* cleanup: closing the connection ends every registration. *)
CleanupClose ==
  /\ worker = "close" /\ worker' = "exited"
  /\ bus' = "none" /\ object_count' = 0 /\ registered' = {}
  /\ active' = FALSE /\ notifying' = FALSE /\ restore_pairable' = FALSE
  /\ UNCHANGED <<rest, at, ready, start_result, pairing, old_pairable, value,
                 pairable, before, spoiled>>
-----------------------------------------------------------------------------
(* bluetoothd and the bus *)

Iterating == worker \in {"run", "pair", "restore"} \/ (worker = "setup" /\ at > 0)

(* method: StartNotify, StopNotify.  Other methods only answer or call the  *)
(* receive function.                                                        *)
method(on) ==
  /\ Iterating /\ bus = "open" /\ "RegisterApplication" \in registered
  /\ notifying' = on
  /\ UNCHANGED <<rest, worker, at, ready, start_result, active, pairing, restore_pairable,
                 old_pairable, value, conn, daemon>>

BusBreaks ==
  /\ Faults /\ bus = "open" /\ bus' = "broken" /\ registered' = {}
  /\ UNCHANGED <<object_count, rest, worker, at, ready, start_result, st, pairable, before, spoiled>>
-----------------------------------------------------------------------------
Caller ==
  \/ bluez1_start \/ bluez1_pair \/ bluez1_destroy
  \/ \E o \in {"stop", "destroy"} : bluez1_stop(o)
  \/ \E o \in {"send", "notify"} : bluez1_send(o)

Waits == StartReturns \/ DispatchReturns \/ release_worker

Worker ==
  \/ SetupFails \/ SetupConnect \/ SetupCall \/ WorkerReady \/ LoopRun \/ LoopQuits
  \/ run_work \/ PairReply \/ RunWorkDone \/ CleanupRestore \/ CleanupClose

Env == BusBreaks \/ \E on \in BOOLEAN : method(on)

Next == Caller \/ Waits \/ Worker \/ Env

Spec == Init /\ [][Next]_vars

(* Both threads run, and D-Bus calls return within their 30 s. *)
FairSpec == Spec /\ WF_vars(Waits) /\ WF_vars(Worker)
-----------------------------------------------------------------------------
(* Properties *)

(* Every variable has its type; setup stays within s->objects, however      *)
(* often it is run and wherever it failed.                                  *)
TypeOK ==
  /\ caller \in {"idle", "start", "dispatch", "join", "gone"} /\ op \in Op \cup {"none"}
  /\ worker \in {"none", "setup", "ready", "enter", "run", "pair", "signal",
                 "restore", "close", "exited"}
  /\ at \in 0 .. Len(SetupCalls) /\ start_result \in {0, -1}
  /\ {started, ready, running, source, done, active, notifying, pairing, restore_pairable,
      old_pairable, pairable, before, spoiled} \subseteq BOOLEAN
  /\ object_count \in 0 .. 6
  /\ bus \in {"none", "open", "broken"} /\ registered \subseteq {SetupCalls[i] : i \in DOMAIN SetupCalls}

(* When bluez1_start has returned 0, setup is complete: the worker serves   *)
(* its loop and the peripheral is active.                                   *)
StartTruth == caller = "idle" /\ started => active /\ worker \in {"enter", "run"}

(* run_work touches its Work only while the caller whose stack it is on     *)
(* waits for it, from the attaching of the source to the last unlock.       *)
WorkAlive == source \/ worker \in {"pair", "signal"} => caller = "dispatch"

(* After stop, destroy or a failed start nothing of the worker is left: no  *)
(* thread that could still call the receive function, no connection and no  *)
(* registration.  "Stopping restores the previous Pairable value", and so   *)
(* does a start that fails half-way, unless bluetoothd is not there to do   *)
(* it, or has set it and its answer was lost.                               *)
NothingLeft ==
  caller \in {"idle", "gone"} /\ ~started =>
    /\ worker = "none" /\ bus = "none" /\ registered = {} /\ ~active /\ ~notifying
    /\ ~spoiled => pairable = before

(* Every public call returns: no wake-up, quit or work is lost between the  *)
(* two threads.                                                             *)
Returns == caller \notin {"idle", "gone"} ~> caller \in {"idle", "gone"}
=============================================================================

---------------------------------- MODULE Ev3 ----------------------------------
(* tester_ev3 as it is built (every USE_ flag set): main brings up the loop,   *)
(* the management server, the console, the ipc pipe, a timer and the managers  *)
(* of Wi-Fi, capture, USB and Bluetooth, runs the loop until a console command *)
(* sets quit, and tears down what its pointers lead to, one destroy per step.  *)
(* Each service has a module of its own; here is what it owns: memory,         *)
(* descriptors and a handle in the loop.                                       *)
EXTENDS Integers, FiniteSets

CONSTANTS
  Conn,       \* management connections (mgmt1_client_t)
  BatchMax    \* bound: handles ready in one aloe_evb2_run_once

\* A session is opened and closed by console commands; the one of "bluez" is a thread
\* with a bus connection of its own.
Session == {"bt", "ble", "bluez"}
Services == {"mgmt", "cli", "ipc", "wifi", "v4l2", "usb"} \union Session

VARIABLES
  step,     \* main: what it starts or destroys next, "timer", "run" or "exit"
  ending,   \* main is at `finally'
  quit,     \* impl.quit
  mem,      \* allocated: services, connections, "loop", "cmds" (the commands)
  fds,      \* whose descriptors are open
  watch,    \* who has a handle in the loop, "cycle" (main's timer) included
  ptr,      \* main's pointers that are not NULL: of services, and "loop"
  batch,    \* whose callback this run_once still has to call
  broken,   \* history: a failed read has freed the pipe behind ipc_global
  raced     \* history: a closed descriptor was closed again beside another thread

vars == <<step, ending, quit, mem, fds, watch, ptr, batch, broken, raced>>
resVars == <<mem, fds, watch>>
histVars == <<broken, raced>>

TypeOK ==
  /\ step \in Services \union {"loop", "timer", "run", "exit"}
  /\ mem \subseteq Conn \union Services \union {"loop", "cmds"}
  /\ fds \subseteq Conn \union Services \union {"loop"} /\ ptr \subseteq Services \union {"loop"}
  /\ watch \union batch \subseteq Conn \union Services \union {"cycle"}
  /\ {ending, quit, broken, raced} \subseteq BOOLEAN

Init ==
  /\ step = "loop" /\ ending = FALSE /\ quit = FALSE
  /\ mem = {} /\ fds = {} /\ watch = {} /\ ptr = {} /\ batch = {}
  /\ broken = FALSE /\ raced = FALSE

-----------------------------------------------------------------------------
(* main up to the loop.                                                        *)

\* Without a loop or its timer main goes to `finally', whose first destroy is bluez1's.
Goes(ok, next) == step' = (IF ok THEN next ELSE "bluez") /\ ending' = ~ok

aloe_evb2_create(ok) ==
  LET new == IF ok THEN {"loop"} ELSE {} IN
  /\ ~ending /\ step = "loop" /\ Goes(ok, "mgmt")
  /\ mem' = new /\ fds' = new /\ ptr' = new
  /\ UNCHANGED <<quit, watch, batch, histVars>>

(* A service comes up whole, or the error path of its init releases what it    *)
(* had and returns NULL.  Those with sessions only allocate.                   *)
ServiceInit(o, next, ok) ==
  LET new == IF ok THEN {o} ELSE {} IN
  /\ ~ending /\ step = o /\ step' = next
  /\ mem' = mem \union new /\ ptr' = ptr \union new
  /\ fds' = fds \union (new \ Session) /\ watch' = watch \union (new \ Session)
  /\ UNCHANGED <<ending, quit, batch, histVars>>

mgmt1_init(ok) == ServiceInit("mgmt", "cli", ok)
cli1_init(ok) == ServiceInit("cli", "ipc", ok)
ipc1_init(ok) == ServiceInit("ipc", "timer", ok)
wifi2_init(ok) == ServiceInit("wifi", "v4l2", ok)
v4l2_init(ok) == ServiceInit("v4l2", "usb", ok)
usb_init(ok) == ServiceInit("usb", "bt", ok)
bt_init(ok) == ServiceInit("bt", "ble", ok)
blegatt_init(ok) == ServiceInit("ble", "bluez", ok)
bluez1_init(ok) == ServiceInit("bluez", "run", ok)

\* A null console gets no commands.
cli1_cmd_add == IF "cli" \in ptr THEN {"cmds"} ELSE {}

\* aloe_evb2_add_timer, whose failure ends the program, and the first of the commands.
MainTimer(ok) ==
  /\ ~ending /\ step = "timer" /\ Goes(ok, "wifi")
  /\ mem' = IF ok THEN mem \union cli1_cmd_add ELSE mem
  /\ watch' = IF ok THEN watch \union {"cycle"} ELSE watch
  /\ UNCHANGED <<quit, fds, ptr, batch, histVars>>

Start ==
  \E ok \in BOOLEAN :
    \/ aloe_evb2_create(ok)
    \/ mgmt1_init(ok)
    \/ cli1_init(ok)
    \/ ipc1_init(ok)
    \/ MainTimer(ok)
    \/ wifi2_init(ok)
    \/ v4l2_init(ok)
    \/ usb_init(ok)
    \/ bt_init(ok)
    \/ blegatt_init(ok)
    \/ bluez1_init(ok)

-----------------------------------------------------------------------------
(* aloe_evb2_run_once: the ready handles, then their callbacks one by one; a   *)
(* handle that is cancelled meanwhile is not called.                           *)

RunOnce(ready) ==
  /\ step = "run" /\ batch = {} /\ ~quit
  /\ ready # {} /\ ready \subseteq watch /\ Cardinality(ready) <= BatchMax
  /\ batch' = ready
  /\ UNCHANGED <<step, ending, quit, ptr, resVars, histVars>>

LoopEnds ==
  /\ step = "run" /\ batch = {} /\ quit
  /\ step' = "bluez" /\ ending' = TRUE
  /\ UNCHANGED <<quit, ptr, batch, resVars, histVars>>

Called(o) == step = "run" /\ o \in batch
Serve(o) == Called(o) /\ batch' = batch \ {o}

\* The callback of o frees or closes these.
Release(o, gone) ==
  /\ Serve(o)
  /\ mem' = mem \ gone /\ fds' = fds \ gone /\ watch' = watch \ gone

(* cli1_cb with data: the lines it completes are run (Cli).  The commands wifi *)
(* and v4l2 bring up their service when main could not (new), v4l2 starts and  *)
(* stops capturing (on), the Bluetooth commands open and close sessions (open).*)
cli1_cb(new, on, open, q) ==
  LET watched == ((watch \ (Session \union {"v4l2"})) \union on \union (open \ {"bluez"}))
                 \union (new \intersect {"wifi"})
  IN /\ Called("cli")
     /\ new \subseteq {"wifi", "v4l2"} \ ptr
     /\ open \subseteq Session \intersect ptr
     /\ on \subseteq {"v4l2"} \intersect (ptr \union new)
     /\ ptr' = ptr \union new /\ mem' = mem \union new
     /\ fds' = (fds \ Session) \union open \union new
     /\ watch' = watched
     /\ batch' = (batch \ {"cli"}) \intersect watched
     /\ quit' = q
     /\ UNCHANGED <<step, ending, histVars>>

\* Mutant: the end of the console ends the program.
cli1_cb_end_quits(r) ==
  /\ Release("cli", IF r = "EAGAIN" THEN {} ELSE {"cli"})
  /\ quit' = (r # "EAGAIN")
  /\ UNCHANGED <<step, ending, ptr, histVars>>

\* End of file or a read error: cli1_release.  The commands stay allocated and
\* cli_global is not cleared.  EAGAIN is a call without effect.
cli1_cb_end(r) ==
  /\ Release("cli", IF r = "EAGAIN" THEN {} ELSE {"cli"})
  /\ UNCHANGED <<step, ending, quit, ptr, histVars>>

\* ipc1_cb: the messages are Ipc1's; a read error or an end of file frees the pipe.
ipc1_cb(r) ==
  LET gone == r \in {"eof", "error"} IN
  /\ Release("ipc", IF gone THEN {"ipc"} ELSE {})
  /\ broken' = (broken \/ gone)
  /\ UNCHANGED <<step, ending, quit, ptr, raced>>

\* mgmt1_accept_cb: accept, the socket options, the record and the handle may
\* fail; each failure leaves nothing behind.
mgmt1_accept_cb(c, ok) ==
  LET new == IF ok THEN {c} ELSE {} IN
  /\ Serve("mgmt") /\ c \in Conn \ mem
  /\ mem' = mem \union new /\ fds' = fds \union new /\ watch' = watch \union new
  /\ UNCHANGED <<step, ending, quit, ptr, histVars>>

mgmt1_client_cb(c, r) ==
  /\ c \in Conn /\ Release(c, IF r \in {"eof", "error"} THEN {c} ELSE {})
  /\ UNCHANGED <<step, ending, quit, ptr, histVars>>

\* A Bluetooth session that loses its peer may be closed (Btrfcomm, Blegatt).
SessionCb(o, lost) ==
  /\ o \in {"bt", "ble"}
  /\ Serve(o)
  /\ fds' = IF lost THEN fds \ {o} ELSE fds
  /\ watch' = IF lost THEN watch \ {o} ELSE watch
  /\ UNCHANGED <<step, ending, quit, ptr, mem, histVars>>

\* The other callbacks keep what they have.  The listener is also readable when every
\* record of the bound is taken.
OtherCb(o) ==
  /\ o \in {"cycle", "wifi", "v4l2", "usb"} \/ (o = "mgmt" /\ Conn \subseteq mem)
  /\ Serve(o)
  /\ UNCHANGED <<step, ending, quit, ptr, resVars, histVars>>

Callback ==
  \/ \E new \in SUBSET {"wifi", "v4l2"}, on \in SUBSET {"v4l2"}, open \in SUBSET Session, q \in BOOLEAN :
       cli1_cb(new, on, open, q)
  \/ \E r \in {"eof", "error", "EAGAIN"} :
       \/ cli1_cb_end(r)
       \/ ipc1_cb(r)
       \/ \E c \in Conn : mgmt1_client_cb(c, r)
  \/ \E ok \in BOOLEAN :
       \/ \E c \in Conn : mgmt1_accept_cb(c, ok)
       \/ \E o \in Session : SessionCb(o, ok)
  \/ \E o \in Services \union {"cycle"} : OtherCb(o)

-----------------------------------------------------------------------------
(* finally: each destroy, if its pointer is set.                               *)

\* What the destroy of o frees, closes and cancels.
Owned(o) ==
  IF o \notin ptr THEN {}
  ELSE CASE o = "mgmt" -> {"mgmt"} \union Conn
         [] o = "cli" -> {"cli", "cmds"}
         [] OTHER -> {o}

Destroy(o, next) ==
  /\ ending /\ step = o /\ step' = next
  /\ mem' = mem \ Owned(o) /\ fds' = fds \ Owned(o)

(* bluez1_destroy joins the thread and clears its pointer.  ipc1_destroy       *)
(* closes fd[0] as evconn.fd and again as fd[0]: the second close finds no     *)
(* descriptor, unless another thread has just been given that number.          *)
bluez1_destroy ==
  /\ Destroy("bluez", "mgmt")
  /\ watch' = watch /\ ptr' = ptr \ {"bluez"} /\ UNCHANGED <<ending, quit, batch, histVars>>

ipc1_destroy ==
  /\ Destroy("ipc", "v4l2")
  /\ watch' = watch \ Owned("ipc")
  /\ raced' = (raced \/ ("ipc" \in ptr /\ "bluez" \in fds))
  /\ UNCHANGED <<ending, quit, ptr, batch, broken>>

OtherDestroy(o, next) ==
  /\ Destroy(o, next)
  /\ watch' = watch \ Owned(o)
  /\ UNCHANGED <<ending, quit, ptr, batch, histVars>>

mgmt1_destroy == OtherDestroy("mgmt", "cli")
cli1_destroy == OtherDestroy("cli", "ipc")
v4l2_destroy == OtherDestroy("v4l2", "usb")
usb_destroy == OtherDestroy("usb", "bt")
bt_destroy == OtherDestroy("bt", "ble")
blegatt_destroy == OtherDestroy("ble", "loop")

\* The loop frees every handle left in it, main's timer and the Wi-Fi manager's, after
\* calling it back with ALOE_EVB2_FLAG_CANCELLED.
aloe_evb2_destroy ==
  /\ Destroy("loop", "exit")
  /\ watch' = IF "loop" \in ptr THEN {} ELSE watch
  /\ UNCHANGED <<ending, quit, ptr, batch, histVars>>

Finally ==
  \/ bluez1_destroy
  \/ mgmt1_destroy
  \/ cli1_destroy
  \/ ipc1_destroy
  \/ v4l2_destroy
  \/ usb_destroy
  \/ bt_destroy
  \/ blegatt_destroy
  \/ aloe_evb2_destroy

Next ==
  \/ Start
  \/ \E ready \in SUBSET watch : RunOnce(ready)
  \/ LoopEnds
  \/ Callback
  \/ Finally

Spec == Init /\ [][Next]_vars

-----------------------------------------------------------------------------
(* Nothing in the loop outlives what it is for, and the loop outlives every    *)
(* handle, also the ones it calls back at its own end.  Every destroy of       *)
(* `finally' gets live memory, although an end of file has freed the console   *)
(* behind cli_global; the one exception is the pipe after a failed read, which *)
(* ipc1_cb frees behind ipc_global.  The descriptor ipc1_destroy closes twice  *)
(* is nobody's: no other thread runs by then.  At the end nothing is left but  *)
(* the Wi-Fi manager, which main never frees.                                  *)
ExitClean ==
  /\ watch \subseteq mem \union {"cycle"} /\ (watch # {} => "loop" \in mem)
  /\ ending /\ step \in ptr => step \in mem \/ (step = "ipc" /\ broken)
  /\ ~raced
  /\ step = "exit" => mem \union fds \subseteq {"wifi"} /\ watch = {}
================================================================================

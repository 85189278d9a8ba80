---------------------------- MODULE EvbLifecycle ----------------------------
(***************************************************************************)
(* What evb2.h promises about the life of a handle, without lists, links,  *)
(* locks or descriptors.  A handle is registered (armed), called back      *)
(* (firing) one at a time, re-armed after its callback when it is          *)
(* persistent and was neither cancelled nor overtaken by a destroy, and    *)
(* released otherwise.  Cancelling an armed handle releases it without a   *)
(* callback.  A CANCELLED callback happens only during destruction, and a  *)
(* context disappears only after every handle was released.                *)
(***************************************************************************)
CONSTANT Handle

VARIABLES st, loop, doomed, persistent
vars == <<st, loop, doomed, persistent>>

Init == /\ st = [h \in Handle |-> "none"] /\ loop = "absent"
        /\ doomed = {} /\ persistent = {}

Idle == \A h \in Handle : st[h] \notin {"firing", "cancelled"}

Create == /\ loop = "absent" /\ loop' = "running"
          /\ UNCHANGED <<st, doomed, persistent>>

(* A new handle; whether it is persistent is fixed here. *)
Register(h) ==
  /\ loop = "running" /\ st[h] = "none"
  /\ st' = [st EXCEPT ![h] = "armed"]
  /\ persistent' \in {persistent, persistent \cup {h}}
  /\ UNCHANGED <<loop, doomed>>

Fire(h) ==
  /\ loop # "absent" /\ st[h] = "armed" /\ Idle
  /\ st' = [st EXCEPT ![h] = "firing"]
  /\ UNCHANGED <<loop, doomed, persistent>>

Release(h) ==
  /\ st' = [st EXCEPT ![h] = "none"]
  /\ doomed' = doomed \ {h} /\ persistent' = persistent \ {h}
  /\ UNCHANGED loop

(* The callback returns. *)
Rearm(h) ==
  /\ st[h] = "firing" /\ loop = "running" /\ h \in persistent \ doomed
  /\ st' = [st EXCEPT ![h] = "armed"]
  /\ UNCHANGED <<loop, doomed, persistent>>

Retire(h) ==
  /\ st[h] = "firing"
  /\ loop = "stopping" \/ h \notin persistent \/ h \in doomed
  /\ Release(h)

(* Cancellation, in the handle's own callback and otherwise. *)
Doom(h) ==
  /\ st[h] = "firing" /\ doomed' = doomed \cup {h}
  /\ UNCHANGED <<st, loop, persistent>>

Cancel(h) == loop # "absent" /\ st[h] = "armed" /\ Release(h)

Destroy == /\ loop = "running" /\ loop' = "stopping"
           /\ UNCHANGED <<st, doomed, persistent>>

(* The CANCELLED callback of a remaining handle, and its return. *)
Abandon(h) ==
  /\ loop = "stopping" /\ st[h] = "armed" /\ Idle
  /\ st' = [st EXCEPT ![h] = "cancelled"]
  /\ UNCHANGED <<loop, doomed, persistent>>

Abandoned(h) == st[h] = "cancelled" /\ Release(h)

Vanish == /\ loop = "stopping" /\ \A h \in Handle : st[h] = "none"
          /\ loop' = "absent"
          /\ UNCHANGED <<st, doomed, persistent>>

Next ==
  \/ Create \/ Destroy \/ Vanish
  \/ \E h \in Handle :
       \/ Register(h) \/ Fire(h) \/ Rearm(h) \/ Retire(h) \/ Doom(h)
       \/ Cancel(h) \/ Abandon(h) \/ Abandoned(h)

Spec == Init /\ [][Next]_vars
=============================================================================

---------------------------------- MODULE Ev ----------------------------------
(* The one-shot loop with any clients that keep the API's contract: a client   *)
(* holds at most one handle, and forgets it when its callback is entered (as   *)
(* every callback of dummy1 does with evconn.ev = NULL).  The calls a client   *)
(* makes while the ready list is being drained are calls made by callbacks.    *)
EXTENDS EvOps

CONSTANTS
  Fd,       \* descriptor numbers
  Owner     \* the callback arguments

FdOrTimer == Fd \union {NoFd}

VARIABLES
  ctx,      \* the loop's context
  handle,   \* per client, the handle aloe_ev_put gave it, or NULL
  calling   \* TRUE while aloe_ev_once drains the ready list

vars == <<ctx, handle, calling>>

Init ==
  /\ ctx = aloe_ev_init(FdOrTimer)
  /\ handle = [o \in Owner |-> NULL]
  /\ calling = FALSE

Put(o, f, wait, due, fault) ==
  LET p == aloe_ev_put(ctx, f, o, wait, due, fault) IN
  /\ handle[o] = NULL
  /\ ctx' = p.ctx
  /\ handle' = [handle EXCEPT ![o] = p.ev]
  /\ UNCHANGED calling

Cancel(o) ==
  /\ handle[o] # NULL
  /\ ctx' = aloe_ev_cancel(ctx, handle[o])
  /\ handle' = [handle EXCEPT ![o] = NULL]
  /\ UNCHANGED calling

from_epoll(e) ==
  (e \intersect {"read", "write"}) \union (IF "hup" \in e THEN {"read", "except"} ELSE {})

(* epoll_wait reports, for some of the watched descriptors, installed events   *)
(* that hold, and a hang-up whatever is installed; nothing at all when the     *)
(* time limit ends it.                                                         *)
aloe_ev_once(events) ==
  LET E(f) == IF f = NoFd THEN {} ELSE events[f] IN
  /\ ~calling
  /\ \A f \in Fd : /\ events[f] \subseteq ctx.kern[f] \union {"hup"}
                    /\ ctx.kern[f] = {} => events[f] = {}
  /\ (\E f \in Fd : events[f] # {}) \/ ~SleepsForEver(ctx)
  /\ ctx' = Sweep(ctx, [f \in FdOrTimer |-> from_epoll(E(f))],
                       {f \in Fd : "hup" \in events[f]})
  /\ calling' = TRUE
  /\ UNCHANGED handle

Callback(o) ==
  /\ calling /\ ctx.ready # <<>>
  /\ ctx.rec[Head(ctx.ready)].owner = o
  /\ ctx' = PopReady(ctx)
  /\ handle' = [handle EXCEPT ![o] = NULL]
  /\ UNCHANGED calling

OnceReturns ==
  /\ calling /\ ctx.ready = <<>>
  /\ calling' = FALSE
  /\ UNCHANGED <<ctx, handle>>

(* Every notification is freed, the ready and the spare ones included, so no   *)
(* handle outlives the context; the next one starts as the first did.          *)
aloe_ev_destroy ==
  /\ ~calling
  /\ ctx' = aloe_ev_init(FdOrTimer)
  /\ handle' = [o \in Owner |-> NULL]
  /\ UNCHANGED calling

Next ==
  \/ \E o \in Owner, f \in FdOrTimer, w \in {{}, {"read"}, {"write"}},
        d \in {"inf", "past"}, x \in {"none", "malloc", "epoll"} : Put(o, f, w, d, x)
  \/ \E o \in Owner : Cancel(o)
  \/ \E e \in [Fd -> SUBSET {"read", "write", "hup"}] : aloe_ev_once(e)
  \/ \E o \in Owner : Callback(o)
  \/ OnceReturns
  \/ aloe_ev_destroy

Spec == Init /\ [][Next]_vars

-----------------------------------------------------------------------------
Waiting == UNION {Elems(ctx.grp[f]) : f \in FdOrTimer}

(* The handle a client holds is its own registration and the only one it has:  *)
(* it is in the group of its descriptor or on the ready list, never recycled,  *)
(* and nobody's callback argument is left behind without a handle.  A cancel   *)
(* through it therefore hits nobody else (aloe_ev_cancel, and the recycling    *)
(* before the callback in aloe_ev_once).                                       *)
HandleExact ==
  /\ \A o \in Owner : handle[o] # NULL =>
       /\ handle[o] \in Waiting \union Elems(ctx.ready)
       /\ ctx.rec[handle[o]].owner = o
  /\ \A i \in Waiting \union Elems(ctx.ready) : handle[ctx.rec[i].owner] = i
  /\ Waiting \intersect Elems(ctx.ready) = {}
  /\ Elems(ctx.spare) = DOMAIN ctx.rec \ (Waiting \union Elems(ctx.ready))
  /\ NoDup(ctx.spare \o ctx.ready)

(* The kernel watches exactly what the waiting notifications ask for, and      *)
(* a descriptor without a group is not watched at all: an event neither is     *)
(* missed nor leads to a recycled group (fd_ep_refresh).                       *)
WatchesWaiting ==
  /\ \A f \in Fd : ctx.kern[f] = Mask(ctx, f) /\ (f \in Elems(ctx.fdq) => ctx.epw[f] = ctx.kern[f])
  /\ \A f \in FdOrTimer : f \in Elems(ctx.fdq) <=> ctx.grp[f] # <<>>
===============================================================================

--------------------------------- MODULE EvOps ---------------------------------
(* The one-shot event loop of aloe/sys_linux/ev.c as operators on its context  *)
(* (aloe_ev_ctx_t).  A context is a record                                     *)
(*   fdq    the descriptors of the groups on fd_q, in list order               *)
(*   grp    per descriptor, the notifications waiting on it (noti_q)           *)
(*   epw    per descriptor, ep_wait: the mask the loop believes is installed   *)
(*   kern   per descriptor, the mask the kernel's epoll instance really has    *)
(*   ready  the notifications moved out for their callbacks (ctx->noti_q)      *)
(*   spare  the recycled notifications (spare_noti_q), reused first in first   *)
(*   rec    per notification, its fields: fd, owner (cbarg), wait, due, noti   *)
(* Notifications are the numbers 1..n in the order malloc made them.  A group  *)
(* is named by its descriptor: the kernel's pointer to it is good as long as   *)
(* kern and grp agree.                                                         *)
EXTENDS Qent

CONSTANTS
  NoFd,     \* -1, the group of pure timers
  NULL      \* the null pointer

\* The members of a list that are in T, in list order.
Kept(s, T) ==
  LET kept[n \in 0..Len(s)] ==
        IF n = 0 THEN <<>>
        ELSE IF s[n] \in T THEN Append(kept[n - 1], s[n]) ELSE kept[n - 1]
  IN kept[Len(s)]

Mask(ctx, fd) == UNION {ctx.rec[i].wait : i \in Elems(ctx.grp[fd])}

(* A notification goes to spare_noti_q.  Of a recycled one only the fd field   *)
(* can be read again, by a cancel through a stale handle; the rest is scrubbed.*)
Recycle(ctx, ev) ==
  [ctx EXCEPT !.spare = Append(@, ev),
              !.rec[ev] = [fd |-> @.fd, owner |-> NULL, wait |-> {}, due |-> "inf",
                           noti |-> {}]]

\* fds are the numbers a descriptor can have, NoFd among them.
aloe_ev_init(fds) ==
  [fdq |-> <<>>, grp |-> [f \in fds |-> <<>>],
   epw |-> [f \in fds |-> {}], kern |-> [f \in fds |-> {}],
   ready |-> <<>>, spare |-> <<>>, rec |-> <<>>]

\* The kernel drops a closed descriptor from the epoll instance by itself.
CloseFd(ctx, fd) == [ctx EXCEPT !.kern[fd] = {}]

(* fd_ep_refresh, for the groups of fds: nothing for the timer group; an empty *)
(* mask deletes; a mask equal to the cached one is not installed again;        *)
(* everything else is added or modified.                                       *)
fd_ep_refresh(ctx, fds) ==
  LET mask == [f \in DOMAIN ctx.grp |-> Mask(ctx, f)]
      set  == {f \in fds \ {NoFd} : mask[f] = {} \/ mask[f] # ctx.epw[f]}
  IN [ctx EXCEPT !.epw = [f \in DOMAIN @ |-> IF f \in set THEN mask[f] ELSE @[f]],
                 !.kern = [f \in DOMAIN @ |-> IF f \in set THEN mask[f] ELSE @[f]]]

\* Of these groups the empty ones leave fd_q (they are kept on spare_fd_q, which
\* is only memory).
DropEmptyGroups(ctx, fds) ==
  [ctx EXCEPT !.fdq = Kept(@, DOMAIN ctx.grp \ {f \in fds : ctx.grp[f] = <<>>})]

(* aloe_ev_put: find or open the group of fd, take the first spare             *)
(* notification or a new one, chain it, install the mask.  The result is the   *)
(* context and the handle; fault is "none", "malloc" or "epoll", and a fault   *)
(* that does not bite (nothing to allocate, no mask to install) is no fault.   *)
(* Whether spare_fd_q has a group for a new descriptor is left open.           *)
aloe_ev_put(ctx, fd, owner, wait, due, fault) ==
  LET new   == ctx.spare = <<>>
      ev    == IF new THEN Len(ctx.rec) + 1 ELSE Head(ctx.spare)
      opens == fd \notin Elems(ctx.fdq)
      fresh == [fd |-> fd, owner |-> owner, wait |-> wait, due |-> due, noti |-> {}]
      c1    == [ctx EXCEPT !.spare = IF new THEN @ ELSE Tail(@),
                           !.rec = IF new THEN Append(@, fresh) ELSE [@ EXCEPT ![ev] = fresh],
                           !.fdq = IF opens THEN Append(@, fd) ELSE @,
                           !.epw[fd] = IF opens THEN {} ELSE @,
                           !.grp[fd] = Append(@, ev)]
      bites == fd # NoFd /\ fault = "epoll" /\ Mask(c1, fd) \notin {{}, c1.epw[fd]}
      back  == Recycle([c1 EXCEPT !.grp[fd] = ctx.grp[fd]], ev)
  IN CASE fault = "malloc" /\ (new \/ opens) -> [ctx |-> ctx, ev |-> NULL]
       [] bites -> [ctx |-> IF opens THEN DropEmptyGroups(back, {fd}) ELSE back, ev |-> NULL]
       [] OTHER -> [ctx |-> fd_ep_refresh(c1, {fd}), ev |-> ev]

\* Mutant: the ready list is not searched.
aloe_ev_cancel_waiting(ctx, ev) ==
  LET fd == ctx.rec[ev].fd IN
  IF fd \in Elems(ctx.fdq) /\ ev \in Elems(ctx.grp[fd])
  THEN LET c == Recycle([ctx EXCEPT !.grp[fd] = qent_remove(@, ev)], ev)
       IN DropEmptyGroups(fd_ep_refresh(c, {fd}), {fd})
  ELSE ctx

(* aloe_ev_cancel: the notification is looked for in the group its own fd      *)
(* field names, then among the ready ones; anywhere else the call does nothing.*)
aloe_ev_cancel(ctx, ev) ==
  LET fd == ctx.rec[ev].fd IN
  IF fd \in Elems(ctx.fdq) /\ ev \in Elems(ctx.grp[fd])
  THEN LET c == Recycle([ctx EXCEPT !.grp[fd] = qent_remove(@, ev)], ev)
       IN DropEmptyGroups(fd_ep_refresh(c, {fd}), {fd})
  ELSE IF ev \in Elems(ctx.ready)
  THEN Recycle([ctx EXCEPT !.ready = qent_remove(@, ev)], ev)
  ELSE ctx

(* What one notification is told after epoll_wait: the events it waits for;    *)
(* failing these, an exception when the descriptor hung up; failing that, the  *)
(* time when its due time has passed.                                          *)
Notified(rec, triggered, hup) ==
  LET io == triggered \intersect rec.wait IN
  IF io # {} THEN io ELSE IF hup THEN {"except"}
  ELSE IF rec.due = "past" THEN {"time"} ELSE {}

(* The groups are gone through in the order of fd_q: what is told moves to the *)
(* ready list in the order it was chained.                                     *)
MovedOut(ctx, told) ==
  LET ready[n \in 0..Len(ctx.fdq)] ==
        IF n = 0 THEN ctx.ready ELSE ready[n - 1] \o Kept(ctx.grp[ctx.fdq[n]], told)
  IN ready[Len(ctx.fdq)]

(* The sweep of aloe_ev_once over fd_q: move out what is notified, reinstall   *)
(* the mask of what is left, drop empty groups.  trig and hup come from the    *)
(* events epoll_wait returned.                                                 *)
Sweep(ctx, trig, hup) ==
  LET tell  == [i \in DOMAIN ctx.rec |->
                 LET fd == ctx.rec[i].fd IN Notified(ctx.rec[i], trig[fd], fd \in hup)]
      told  == {i \in DOMAIN ctx.rec : tell[i] # {}}
      groups == Elems(ctx.fdq)
      swept == [ctx EXCEPT
                 !.rec = [i \in DOMAIN @ |->
                           IF i \in Elems(ctx.grp[@[i].fd]) THEN [@[i] EXCEPT !.noti = tell[i]]
                           ELSE @[i]],
                 !.grp = [f \in DOMAIN @ |-> Kept(@[f], DOMAIN ctx.rec \ told)],
                 !.ready = MovedOut(ctx, told)]
  IN DropEmptyGroups(fd_ep_refresh(swept, groups), groups)

(* The head of the ready list is recycled before its callback runs.            *)
PopReady(ctx) == Recycle([ctx EXCEPT !.ready = Tail(@)], Head(ctx.ready))

\* epoll_wait may sleep without end: a descriptor is waited for and no due time
\* is set.  Without any descriptor or with a due time it returns.
SleepsForEver(ctx) ==
  /\ \E f \in Elems(ctx.fdq) : f # NoFd
  /\ \A f \in Elems(ctx.fdq) : \A i \in Elems(ctx.grp[f]) : ctx.rec[i].due = "inf"
===============================================================================

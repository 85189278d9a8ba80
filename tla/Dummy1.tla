-------------------------------- MODULE Dummy1 --------------------------------
(* The dummy1 program on the one-shot loop: a timer that rearms itself, the    *)
(* mgmt1 listener and its connections, the console and the ipc socket.  Every  *)
(* callback clears the handle it was called through and ends by registering    *)
(* again; a callback is one action, peers move in between.                     *)
EXTENDS EvOps

CONSTANTS
  Fd,       \* descriptor numbers
  Owner,    \* the callback arguments: "cycle", "mgmt", "cli", "ipc" and Conn
  Conn      \* connection records (mgmt1_client_t)

FdOrTimer == Fd \union {NoFd}

VARIABLES
  step,     \* main: "cycle", "mgmt", "cli", "ipc", "loop", "exit"
  ctx,      \* the loop's context
  fd,       \* evconn.fd per owner, NoFd when there is none
  ev,       \* evconn.ev per owner
  live,     \* the owners whose memory is allocated
  peer,     \* per owner: "quiet", "data" or "eof" (for mgmt, data is a backlog)
  waiting,  \* the callback due: "poll", or "call" while ready is drained
  failed,   \* history: of "mgmt" and "cycle", whose new registration was refused
  pair      \* ipc's fd[1], the end of its socket pair the loop does not watch

vars == <<step, ctx, fd, ev, live, peer, waiting, failed, pair>>

Reader == {"cli"} \union Conn
Fault == {"none", "malloc", "epoll"}

Lowest(used) == CHOOSE f \in Fd \ used : \A g \in Fd \ used : f <= g
OpenFds == ({fd[o] : o \in live} \union {pair}) \ {NoFd}

TypeOK ==
  /\ step \in {"cycle", "mgmt", "cli", "ipc", "loop", "exit"}
  /\ waiting \in {"poll", "call"}
  /\ fd \in [Owner -> FdOrTimer] /\ live \subseteq Owner
  /\ failed \subseteq {"mgmt", "cycle"} /\ pair \in FdOrTimer
  /\ peer \in [Owner -> {"quiet", "data", "eof"}]
  /\ \A o \in Owner : ev[o] \in DOMAIN ctx.rec \union {NULL}
  /\ Elems(ctx.fdq) \subseteq FdOrTimer /\ NoDup(ctx.fdq)

Init ==
  /\ step = "cycle" /\ waiting = "poll"
  /\ ctx = aloe_ev_init(FdOrTimer)
  /\ fd = [o \in Owner |-> NoFd] /\ ev = [o \in Owner |-> NULL]
  /\ live = {} /\ peer = [o \in Owner |-> "quiet"] /\ failed = {} /\ pair = NoFd

-----------------------------------------------------------------------------
(* main: the timer must be accepted, the three services may fail one by one.   *)

MainCycle(fault) ==
  LET p == aloe_ev_put(ctx, NoFd, "cycle", {}, "past", fault) IN
  /\ step = "cycle"
  /\ ctx' = p.ctx
  /\ step' = IF p.ev = NULL THEN "exit" ELSE "mgmt"
  /\ live' = IF p.ev = NULL THEN {} ELSE {"cycle"}
  /\ UNCHANGED <<fd, ev, peer, waiting, failed, pair>>

(* mgmt1_init, cli1_init and ipc1_init: a socket, then the registration; what  *)
(* fails is undone.  `sys' is the outcome of socket, bind, dup, listen, fcntl; *)
(* a socket needs a free descriptor.                                           *)
ServiceInit(o, next, sys, fault) ==
  LET f == Lowest(OpenFds)
      p == aloe_ev_put(ctx, f, o, {"read"}, "inf", fault)
      up == sys /\ p.ev # NULL
  IN /\ step = o /\ (sys => Fd \ OpenFds # {})
     /\ step' = next
     /\ ctx' = IF ~sys THEN ctx ELSE IF up THEN p.ctx ELSE CloseFd(p.ctx, f)
     /\ fd' = IF up THEN [fd EXCEPT ![o] = f] ELSE fd
     /\ ev' = IF up THEN [ev EXCEPT ![o] = p.ev] ELSE ev
     /\ live' = IF up THEN live \union {o} ELSE live
     /\ UNCHANGED <<peer, waiting, failed>>

mgmt1_init(sys, fault) == ServiceInit("mgmt", "cli", sys, fault) /\ UNCHANGED pair
cli1_init(sys, fault) == ServiceInit("cli", "ipc", sys, fault) /\ UNCHANGED pair

\* A socket pair takes two descriptors, of which the loop watches the first.
ipc1_init(sys, fault) ==
  LET used == OpenFds \union {Lowest(OpenFds)} IN
  /\ ServiceInit("ipc", "loop", sys, fault)
  /\ sys => Fd \ used # {}
  /\ pair' = IF "ipc" \in live' THEN Lowest(used) ELSE pair

-----------------------------------------------------------------------------
(* The peers: a client connects, writes or closes; input reaches the console.  *)
(* Nothing writes to the ipc socket, the thread that would is compiled out.    *)

PeerActs(o, what) ==
  /\ o \in live \ {"cycle", "ipc"} /\ peer[o] = "quiet"
  /\ what = "eof" => o # "mgmt"
  /\ o = "mgmt" => Conn \ live # {}     \* bound: no more clients than Conn
  /\ peer' = [peer EXCEPT ![o] = what]
  /\ UNCHANGED <<step, ctx, fd, ev, live, waiting, failed, pair>>

-----------------------------------------------------------------------------
(* aloe_ev_once up to the callbacks.  Level-triggered: every descriptor with   *)
(* an installed mask and something to report is reported; an end of file is    *)
(* EPOLLIN and EPOLLHUP.  A signal (EINTR) makes the call return with nothing, *)
(* which is no step.                                                           *)
Reported(o) == fd[o] \in Fd /\ ctx.kern[fd[o]] # {} /\ peer[o] # "quiet"

aloe_ev_once ==
  LET on   == {o \in live : Reported(o)}
      trig == [f \in FdOrTimer |->
                UNION {IF peer[o] = "eof" THEN {"read", "except"} ELSE {"read"}
                       : o \in {p \in on : fd[p] = f}}]
      hup  == {fd[o] : o \in {p \in on : peer[p] = "eof"}}
  IN /\ step = "loop" /\ waiting = "poll"
     /\ on # {} \/ ~SleepsForEver(ctx)
     /\ ctx' = Sweep(ctx, trig, hup)
     /\ waiting' = "call"
     /\ UNCHANGED <<step, fd, ev, live, peer, failed, pair>>

OnceReturns ==
  /\ waiting = "call" /\ ctx.ready = <<>>
  /\ waiting' = "poll"
  /\ UNCHANGED <<step, ctx, fd, ev, live, peer, failed, pair>>

Called(o) ==
  /\ waiting = "call" /\ ctx.ready # <<>>
  /\ ctx.rec[Head(ctx.ready)].owner = o

\* cycletime_cb: if the registration is refused the timer is gone.
cycletime_cb(fault) ==
  LET p == aloe_ev_put(PopReady(ctx), NoFd, "cycle", {}, "past", fault) IN
  /\ Called("cycle")
  /\ ctx' = p.ctx
  /\ failed' = IF p.ev = NULL THEN failed \union {"cycle"} ELSE failed
  /\ UNCHANGED <<step, fd, ev, live, peer, waiting, pair>>

(* What cli1_cb and mgmt1_client_cb do: read what is there; end of file or an  *)
(* error releases the owner; otherwise it registers again, and is released if  *)
(* that fails.  The handle was cleared on entry, so a release has nothing to   *)
(* cancel: it closes and frees.  `io' is the outcome of read when data is there.*)
read_cb(o, io, fault) ==
  LET c    == PopReady(ctx)
      told == ctx.rec[Head(ctx.ready)].noti
      lost == "read" \in told /\ (peer[o] = "eof" \/ io = "error")
      p    == aloe_ev_put(c, fd[o], o, {"read"}, "inf", fault)
      gone == lost \/ p.ev = NULL
  IN /\ Called(o) /\ o \in Reader
     /\ ev' = [ev EXCEPT ![o] = IF gone THEN NULL ELSE p.ev]
     /\ ctx' = IF lost THEN CloseFd(c, fd[o]) ELSE IF gone THEN CloseFd(p.ctx, fd[o]) ELSE p.ctx
     /\ fd' = IF gone THEN [fd EXCEPT ![o] = NoFd] ELSE fd
     /\ live' = IF gone THEN live \ {o} ELSE live
     /\ peer' = IF gone \/ ("read" \in told /\ io = "ok" /\ peer[o] = "data")
                THEN [peer EXCEPT ![o] = "quiet"] ELSE peer
     /\ UNCHANGED <<step, waiting, failed, pair>>

cli1_cb(io, fault) == read_cb("cli", io, fault)
mgmt1_client_cb(o, io, fault) == o \in Conn /\ read_cb(o, io, fault)

\* Mutant: without a connection to serve the callback returns before it listens again.
mgmt1_accept_cb_early(o, sys, fault, fault2) ==
  LET c  == PopReady(ctx)
      f  == Lowest(OpenFds)
      p  == aloe_ev_put(c, f, o, {"read"}, "inf", fault)
      q  == IF sys /\ p.ev # NULL
            THEN aloe_ev_put(p.ctx, fd["mgmt"], "mgmt", {"read"}, "inf", fault2)
            ELSE [ctx |-> c, ev |-> NULL]
      up == sys /\ p.ev # NULL
  IN /\ Called("mgmt") /\ o \in Conn \ live /\ (sys => Fd \ OpenFds # {})
     /\ ctx' = q.ctx
     /\ ev' = [ev EXCEPT !["mgmt"] = q.ev, ![o] = IF up THEN p.ev ELSE NULL]
     /\ fd' = IF up THEN [fd EXCEPT ![o] = f] ELSE fd
     /\ live' = IF up THEN live \union {o} ELSE live
     /\ peer' = [peer EXCEPT !["mgmt"] = "quiet"]
     /\ failed' = IF up /\ q.ev = NULL THEN failed \union {"mgmt"} ELSE failed
     /\ UNCHANGED <<step, waiting, pair>>

(* mgmt1_accept_cb: accept a connection, register it, and keep listening       *)
(* whatever happened to the connection; if that registration fails the         *)
(* listener stays without one.  `sys' is the outcome of accept and of what     *)
(* follows up to the registration: when accept itself fails the client still   *)
(* waits.                                                                      *)
mgmt1_accept_cb(o, sys, fault, fault2) ==
  LET c  == PopReady(ctx)
      f  == Lowest(OpenFds)
      p  == aloe_ev_put(c, f, o, {"read"}, "inf", fault)
      up == sys /\ p.ev # NULL
      c2 == IF ~sys THEN c ELSE IF up THEN p.ctx ELSE CloseFd(p.ctx, f)
      q  == aloe_ev_put(c2, fd["mgmt"], "mgmt", {"read"}, "inf", fault2)
  IN /\ Called("mgmt") /\ o \in Conn \ live /\ (sys => Fd \ OpenFds # {})
     /\ ctx' = q.ctx
     /\ ev' = [ev EXCEPT !["mgmt"] = q.ev, ![o] = IF up THEN p.ev ELSE NULL]
     /\ fd' = IF up THEN [fd EXCEPT ![o] = f] ELSE fd
     /\ live' = IF up THEN live \union {o} ELSE live
     /\ peer' = [peer EXCEPT !["mgmt"] = "quiet"] \/ (~sys /\ UNCHANGED peer)
     /\ failed' = IF q.ev = NULL THEN failed \union {"mgmt"} ELSE failed
     /\ UNCHANGED <<step, waiting, pair>>

Callback ==
  \/ \E x \in Fault : cycletime_cb(x)
  \/ \E io \in {"ok", "error"}, x \in Fault :
       \/ cli1_cb(io, x)
       \/ \E o \in Conn : mgmt1_client_cb(o, io, x)
  \/ \E o \in Conn, s \in BOOLEAN, x, y \in Fault : mgmt1_accept_cb(o, s, x, y)

Boot ==
  \/ \E x \in Fault : MainCycle(x)
  \/ \E s \in BOOLEAN, x \in Fault :
       \/ mgmt1_init(s, x)
       \/ cli1_init(s, x)
       \/ ipc1_init(s, x)

Peers == \E o \in Owner, w \in {"data", "eof"} : PeerActs(o, w)

Next ==
  \/ Boot
  \/ Peers
  \/ aloe_ev_once
  \/ OnceReturns
  \/ Callback

Spec == Init /\ [][Next]_vars

-----------------------------------------------------------------------------
(* Every service that is up is registered once under its own descriptor and is *)
(* watched there, although each registration serves one event only, and        *)
(* nothing that was freed is registered: no callback gets a freed argument     *)
(* (mgmt1_client_release, cli1_release).  The listener and the timer, which    *)
(* are not released when their new registration is refused, are the only ones  *)
(* that can be left without one, and only from then on (mgmt1_accept_cb,       *)
(* cycletime_cb).                                                              *)
OnePerService ==
  LET held == (UNION {Elems(ctx.grp[f]) : f \in FdOrTimer}) \union Elems(ctx.ready) IN
  /\ \A i \in held : ctx.rec[i].owner \in live /\ ctx.rec[i].fd = fd[ctx.rec[i].owner]
  /\ \A i, j \in held : ctx.rec[i].owner = ctx.rec[j].owner => i = j
  /\ \A o \in live \ failed : \E i \in held :
       /\ ctx.rec[i].owner = o
       /\ o # "cycle" => ev[o] = i /\ (i \in Elems(ctx.ready) \/ "read" \in ctx.kern[fd[o]])

===============================================================================

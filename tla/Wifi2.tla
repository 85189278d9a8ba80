-------------------------------- MODULE Wifi2 --------------------------------
(***************************************************************************)
(* The Wi-Fi manager of tester1/wifi.cpp: the state machine run_sm, driven *)
(* by a timerfd, by rtnetlink messages about the interface and by commands *)
(* typed by the user, together with the children it starts (udhcpc, zcip,  *)
(* wpa_supplicant) and the control connection to wpa_supplicant.           *)
(*                                                                         *)
(* wifi2_epoll_cb handles every descriptor one epoll_wait reported, and    *)
(* one rtnetlink message can give run_sm several inputs; todo holds what   *)
(* is left of that.  Commands run between two callbacks.  The kernel, the  *)
(* children and the access point move at any time.  Durations are left     *)
(* out: an armed timer may expire at any moment.  A netlink datagram holds *)
(* one message, so ifflag is the flags of the last message received.       *)
(***************************************************************************)
EXTENDS Integers, Sequences, FiniteSets

CONSTANTS
  CliStates,    \* states the user sets with "wifi state <name>"
  Networks,     \* networks given to wificfg and wificonn: "wpa", "open"
  TimerArgs,    \* milliseconds given to "wifi timer": 0 disarms
  Chores,       \* other commands in use: "iflink0", "iflink1", "dhcp", "zcip",
                \* "wpasup0", "wpasup1", "wpacmd", "forget"
  CliMax,       \* bound on the number of commands
  MaxQ,         \* bound on queued netlink messages, for spontaneous link changes
  Faults,       \* fork and aloe_ifup may fail and wpa_supplicant may die
  Foreign,      \* another program may start a wpa_supplicant
  InitRace      \* the interface may change while wifi2_init runs

ASSUME WifiAssumption ==
  /\ TimerArgs \subseteq Nat /\ CliMax \in Nat /\ MaxQ \in Nat 
  /\ {Faults, Foreign, InitRace} \subseteq BOOLEAN

State == {"ST_INIT", "ST_RESET", "ST_WPASUP_CTRL", "ST_WPASUP_READY",
          "ST_WPASUP_CONNECT", "ST_DHCPC", "ST_ZCIP", "ST_MON", "ST_PAUSE"}
Flag == {"UP", "LOWER", "RUNNING"}   \* IFF_UP, IFF_LOWER_UP, IFF_RUNNING

VARIABLES
  state,          \* wifi2->state, or "SEGV" after a null pointer was followed
  timer,          \* timer_fd: "off", "armed" or "fired"
  ifflag,         \* wifi2->ifflag
  network_apply,  \* "NULL" or the kind of network configured
  todo,           \* rest of the callback: "rtnl", "timer" or inputs of run_sm
  link,           \* flags the interface has in the kernel
  nlq,            \* rtnetlink messages not received yet: sets of flags or {"ADDR"}
  sup,            \* wpa_supplicant: "none", "starting", "ready" or another program's, "foreign"
  net,            \* network it has selected
  cln,            \* wpasup_cln: "none", to our child "fresh" or, when that is gone, "stale";
                  \* to a foreign wpa_supplicant "other" or, when that is gone, "lost"
  mon,            \* wpasup_mon, likewise
  mon_ev,         \* whether evconn_wpasup_mon is registered with the loop
  wpasup_pid,     \* whether wpasup_pid > 0
  udhcpc, zcip,   \* the children: "none", "running", "done"
  cli             \* number of commands given so far

fsm  == <<state, timer, ifflag, network_apply, todo>>
wpa  == <<cln, mon, mon_ev>>
vars == <<state, timer, ifflag, network_apply, todo, link, nlq, sup, net, cln, mon,
          mon_ev, wpasup_pid, udhcpc, zcip, cli>>

(* wifi2_init reads the flags before it binds the netlink socket. *)
Init ==
  /\ state = "ST_PAUSE" /\ timer = "off" /\ network_apply = "NULL" /\ todo = <<>>
  /\ link \in {{}, {"UP"}} /\ ifflag \in {{}, {"UP"}} /\ (InitRace \/ ifflag = link)
  /\ nlq = <<>> /\ sup \in (IF Foreign THEN {"none", "foreign"} ELSE {"none"}) /\ net = "none"
  /\ cln = "none" /\ mon = "none" /\ mon_ev = FALSE
  /\ wpasup_pid = FALSE /\ udhcpc = "none" /\ zcip = "none" /\ cli = 0
-----------------------------------------------------------------------------
(* What the calls of run_sm do *)

(* A new set of flags, reported when it differs. *)
SetLink(f) == link' = f /\ nlq' = IF f = link THEN nlq ELSE Append(nlq, f)

(* wpa_supplicant is gone: open connections lead nowhere. *)
Gone(c) == CASE c = "fresh" -> "stale" [] c = "other" -> "lost" [] OTHER -> c

(* fork and exec: the child runs, or the call failed. *)
Forked == IF Faults THEN {"none", "running"} ELSE {"running"}

(* dhcpc_start and zcip_start: kill the old child and reap it, start anew. *)
dhcpc_start(en) == udhcpc' \in (IF en THEN Forked ELSE {"none"})
zcip_start(en)  == zcip' \in (IF en THEN Forked ELSE {"none"})

(* The new wpa_supplicant.  One that finds the control interface in use by  *)
(* another program's exits again; its pid is kept all the same.             *)
Started(en, busy) ==
  /\ wpasup_pid' \in (IF ~en THEN {FALSE} ELSE IF Faults THEN BOOLEAN ELSE {TRUE})
  /\ sup' = IF busy THEN "foreign" ELSE IF wpasup_pid' THEN "starting" ELSE "none"
  /\ net' = IF busy THEN net ELSE "none"

(* Mutant: the control connections are left open. *)
wpasup_start_open(en, busy) ==
  /\ cln' = (IF busy THEN cln ELSE Gone(cln)) /\ mon' = (IF busy THEN mon ELSE Gone(mon))
  /\ mon_ev' = mon_ev
  /\ Started(en, busy)

(* wpasup_start: if there is a child the connections are closed and it is   *)
(* killed and reaped; the new one takes a while to listen.  Without a child *)
(* the connections are left as they are.                                    *)
wpasup_start(en, busy) ==
  /\ IF wpasup_pid THEN cln' = "none" /\ mon' = "none" /\ mon_ev' = FALSE
     ELSE /\ cln' = (IF busy THEN cln ELSE Gone(cln)) /\ mon' = (IF busy THEN mon ELSE Gone(mon))
          /\ mon_ev' = mon_ev
  /\ Started(en, busy)

(* wpasup_cmd: open what is not open; the request is answered if the peer   *)
(* lives.  A connection that fails is kept.                                 *)
Listening == sup \in {"ready", "foreign"}
Opened(c) == IF c # "none" THEN c ELSE CASE sup = "ready"   -> "fresh"
                                         [] sup = "foreign" -> "other"
                                         [] OTHER           -> "none"
Answered == Listening /\ cln \notin {"stale", "lost"}
wpasup_cmd ==
  /\ cln' = Opened(cln)
  /\ mon' = IF cln' # "none" THEN Opened(mon) ELSE mon
  /\ mon_ev' = (mon_ev \/ (cln' # "none" /\ mon' # "none"))

(* A passphrase has 8 to 63 characters; no passphrase means key_mgmt NONE.  *)
Accepts(psk) == psk \in {"passphrase", "NULL"}

(* wpasup_network_connect: FLUSH drops the association, SELECT_NETWORK is   *)
(* reached if every SET_NETWORK was accepted.                               *)
wpasup_network_connect(n, psk) ==
  /\ wpasup_cmd
  /\ IF Answered
       THEN /\ net' = IF Accepts(psk) THEN n ELSE "none"
            /\ SetLink(link \cap {"UP"})
       ELSE UNCHANGED <<net, link, nlq>>

(* The psk a command or run_sm passes on.  network[0].psk is an array: an   *)
(* absent psk becomes the empty string, not NULL.                           *)
GivenPsk(n)   == IF n = "wpa" THEN "passphrase" ELSE "NULL"
AppliedPsk(n) == IF n = "wpa" THEN "passphrase" ELSE ""
-----------------------------------------------------------------------------
(* run_sm: one operator for entering each state, one per input.  SM_GOTO    *)
(* chains are followed to their end.                                        *)

Goto(s) == state' = s
Arm == timer' = "armed"                                       \* timer_set

EnterConnect ==
  IF network_apply = "NULL"
    THEN Goto("SEGV") /\ UNCHANGED <<timer, net, link, nlq, wpa>>
    ELSE /\ Goto("ST_WPASUP_CONNECT") /\ Arm
         /\ wpasup_network_connect(network_apply, AppliedPsk(network_apply))

(* Mutant: the network is not looked at. *)
EnterReady_blind(pinged) == EnterConnect

EnterReady(pinged) ==
  IF network_apply # "NULL" THEN EnterConnect
  ELSE /\ Goto("ST_WPASUP_READY") /\ Arm
       /\ IF pinged THEN wpasup_cmd ELSE UNCHANGED wpa
       /\ UNCHANGED <<net, link, nlq>>

(* ST_WPASUP_CTRL, entered or timed out: wpasup_ping *)
EnterCtrl ==
  IF Answered THEN EnterReady(TRUE)
  ELSE Goto("ST_WPASUP_CTRL") /\ Arm /\ wpasup_cmd /\ UNCHANGED <<net, link, nlq>>

EnterDhcpc == Goto("ST_DHCPC") /\ dhcpc_start(TRUE) /\ Arm /\ UNCHANGED zcip
EnterZcip == Goto("ST_ZCIP") /\ zcip_start(TRUE) /\ Arm /\ UNCHANGED udhcpc

(* ST_RESET entered: stop the children, take the interface down and up,     *)
(* start wpa_supplicant.  The results are not looked at and no timer is set.*)
(* killall has stopped a wpa_supplicant that is not ours as well.           *)
EnterReset ==
  /\ Goto("ST_RESET") /\ dhcpc_start(FALSE) /\ zcip_start(FALSE)
  /\ link' \in (IF Faults THEN {{}, {"UP"}} ELSE {{"UP"}})
  /\ nlq' = nlq \o (IF link = {} THEN <<>> ELSE << {} >>)
                \o (IF link' = {} THEN <<>> ELSE <<link'>>)
  /\ wpasup_start(TRUE, FALSE) /\ UNCHANGED timer

kids == <<udhcpc, zcip>>
outer == <<sup, wpasup_pid, kids>>

EnterState(s) ==
  CASE s = "ST_INIT"           -> Goto(s) /\ Arm /\ UNCHANGED <<outer, wpa, net, link, nlq>>
    [] s = "ST_RESET"          -> EnterReset
    [] s = "ST_WPASUP_CTRL"    -> EnterCtrl /\ UNCHANGED outer
    [] s = "ST_WPASUP_READY"   -> EnterReady(FALSE) /\ UNCHANGED outer
    [] s = "ST_WPASUP_CONNECT" -> EnterConnect /\ UNCHANGED outer
    [] s = "ST_DHCPC"          -> EnterDhcpc /\ UNCHANGED <<sup, wpasup_pid, wpa, net, link, nlq>>
    [] s = "ST_ZCIP"           -> EnterZcip /\ UNCHANGED <<sup, wpasup_pid, wpa, net, link, nlq>>
    [] s = "ST_MON"            -> Goto(s) /\ Arm /\ UNCHANGED <<outer, wpa, net, link, nlq>>
    [] s = "ST_PAUSE"          -> Goto(s) /\ UNCHANGED <<timer, outer, wpa, net, link, nlq>>

(* Mutant: a lost link is no input of ST_MON. *)
After_deaf(s, in) ==
  CASE s = "ST_INIT" /\ in = "TIMEOUT"              -> "ST_RESET"
    [] s = "ST_RESET" /\ in = "IFFUP"               -> "ST_WPASUP_CTRL"
    [] s = "ST_WPASUP_CTRL" /\ in = "TIMEOUT"       -> "ST_WPASUP_CTRL"
    [] s = "ST_WPASUP_READY" /\ in = "TIMEOUT"      -> "ST_WPASUP_READY"
    [] s = "ST_WPASUP_CONNECT" /\ in = "IFFRUNNING" -> "ST_DHCPC"
    [] s = "ST_WPASUP_CONNECT" /\ in = "TIMEOUT"    -> "ST_WPASUP_READY"
    [] s = "ST_DHCPC" /\ in = "TIMEOUT"             -> "ST_ZCIP"
    [] s = "ST_DHCPC" /\ in = "IPADD"               -> "ST_MON"
    [] s = "ST_ZCIP" /\ in \in {"TIMEOUT", "IPADD"} -> "ST_MON"
    [] s = "ST_MON" /\ in = "TIMEOUT"               -> "ST_MON"
    [] OTHER                                        -> "none"

(* Where an input other than STIN_ENTER leads: the state entered, or none.  *)
After(s, in) ==
  CASE s = "ST_INIT" /\ in = "TIMEOUT"              -> "ST_RESET"
    [] s = "ST_RESET" /\ in = "IFFUP"               -> "ST_WPASUP_CTRL"
    [] s = "ST_WPASUP_CTRL" /\ in = "TIMEOUT"       -> "ST_WPASUP_CTRL"
    [] s = "ST_WPASUP_READY" /\ in = "TIMEOUT"      -> "ST_WPASUP_READY"
    [] s = "ST_WPASUP_CONNECT" /\ in = "IFFRUNNING" -> "ST_DHCPC"
    [] s = "ST_WPASUP_CONNECT" /\ in = "TIMEOUT"    -> "ST_WPASUP_READY"
    [] s = "ST_DHCPC" /\ in = "TIMEOUT"             -> "ST_ZCIP"
    [] s = "ST_DHCPC" /\ in = "IPADD"               -> "ST_MON"
    [] s = "ST_ZCIP" /\ in \in {"TIMEOUT", "IPADD"} -> "ST_MON"
    [] s = "ST_MON" /\ in = "TIMEOUT"               -> "ST_MON"
    [] s = "ST_MON" /\ in = "IFFLOWDOWN"            -> "ST_WPASUP_READY"
    [] OTHER                                        -> "none"

Inputs == {"TIMEOUT", "IFFUP", "IFFRUNNING", "IFFLOWDOWN", "IPADD"}

(* run_sm on the next input of the callback. *)
run_sm ==
  /\ todo # <<>> /\ Head(todo) \in Inputs
  /\ IF After(state, Head(todo)) = "none"
       THEN UNCHANGED <<state, timer, outer, wpa, net, link, nlq>>
       ELSE EnterState(After(state, Head(todo)))
  /\ todo' = Tail(todo)
  /\ UNCHANGED <<ifflag, network_apply, cli>>
-----------------------------------------------------------------------------
(* wifi2_epoll_cb *)

(* epoll_wait reports all that is ready, in either order. *)
wifi2_epoll_cb ==
  /\ todo = <<>> /\ state # "SEGV"
  /\ \/ nlq # <<>> /\ timer # "fired" /\ todo' = <<"rtnl">>
     \/ nlq = <<>> /\ timer = "fired" /\ todo' = <<"timer">>
     \/ nlq # <<>> /\ timer = "fired" /\ todo' \in {<<"rtnl", "timer">>, <<"timer", "rtnl">>}
  /\ UNCHANGED <<state, timer, ifflag, network_apply, link, nlq, sup, net, wpa,
                 wpasup_pid, kids, cli>>

(* The inputs handle_rtnl derives from one message, in its order. *)
Edges(msg) ==
  IF msg = {"ADDR"} THEN <<"IPADD">>
  ELSE (IF "UP" \in msg \ ifflag THEN <<"IFFUP">> ELSE <<>>)
    \o (IF "RUNNING" \in msg \ ifflag THEN <<"IFFRUNNING">> ELSE <<>>)
    \o (IF "LOWER" \in ifflag \ msg THEN <<"IFFLOWDOWN">> ELSE <<>>)

(* Mutant: the flags are not stored. *)
handle_rtnl_forget ==
  /\ todo # <<>> /\ Head(todo) = "rtnl"
  /\ todo' = Edges(Head(nlq)) \o Tail(todo) /\ nlq' = Tail(nlq)
  /\ UNCHANGED <<state, timer, network_apply, ifflag, link, sup, net, wpa, wpasup_pid, kids, cli>>

handle_rtnl ==
  /\ todo # <<>> /\ Head(todo) = "rtnl"
  /\ todo' = Edges(Head(nlq)) \o Tail(todo) /\ nlq' = Tail(nlq)
  /\ ifflag' = IF Head(nlq) = {"ADDR"} THEN ifflag ELSE Head(nlq)
  /\ UNCHANGED <<state, timer, network_apply, link, sup, net, wpa, wpasup_pid, kids, cli>>

(* The read of the timer blocks if the timer was set again after epoll_wait *)
(* reported it, until it expires.                                           *)
TimerRead ==
  /\ todo # <<>> /\ Head(todo) = "timer" /\ timer = "fired"
  /\ timer' = "off" /\ todo' = <<"TIMEOUT">> \o Tail(todo)
  /\ UNCHANGED <<state, ifflag, network_apply, link, nlq, sup, net, wpa, wpasup_pid, kids, cli>>
-----------------------------------------------------------------------------
(* wifi2_cli *)

Command == todo = <<>> /\ state # "SEGV" /\ cli < CliMax /\ cli' = cli + 1

(* wifi state <name> *)
CliState(s) ==
  /\ Command /\ EnterState(s)
  /\ UNCHANGED <<ifflag, network_apply, todo>>

(* wifi wificfg <ssid> [psk] *)
CliWificfg(n) ==
  /\ Command /\ network_apply' = n /\ Goto("ST_INIT") /\ Arm
  /\ UNCHANGED <<ifflag, todo, link, nlq, sup, net, wpa, wpasup_pid, kids>>

(* wifi wificonn <ssid> [psk] *)
CliWificonn(n) ==
  /\ Command /\ wpasup_network_connect(n, GivenPsk(n))
  /\ UNCHANGED <<fsm, sup, wpasup_pid, kids>>

(* wifi wificfg, without an ssid *)
CliForget ==
  /\ "forget" \in Chores /\ Command /\ network_apply' = "NULL"
  /\ UNCHANGED <<state, timer, ifflag, todo, link, nlq, sup, net, wpa, wpasup_pid, kids>>

(* wifi timer [ms] *)
CliTimer(ms) ==
  /\ Command /\ timer' = IF ms > 0 THEN "armed" ELSE "off"
  /\ UNCHANGED <<state, ifflag, network_apply, todo, link, nlq, sup, net, wpa, wpasup_pid, kids>>

(* wifi iflink [0 | 1] *)
CliIflink ==
  /\ Command
  /\ \/ "iflink0" \in Chores /\ SetLink({})
     \/ "iflink1" \in Chores /\ SetLink(link \cup {"UP"})
  /\ UNCHANGED <<fsm, sup, net, wpa, wpasup_pid, kids>>

(* wifi dhcp, wifi zcip *)
CliChild ==
  /\ Command
  /\ \/ "dhcp" \in Chores /\ \E en \in BOOLEAN : dhcpc_start(en) /\ UNCHANGED zcip
     \/ "zcip" \in Chores /\ \E en \in BOOLEAN : zcip_start(en) /\ UNCHANGED udhcpc
  /\ UNCHANGED <<fsm, link, nlq, sup, net, wpa, wpasup_pid>>

(* wifi wpasup [0..4]: without its supplicant the interface loses its link. *)
(* A foreign one is left alone.                                             *)
CliWpasup ==
  /\ Command
  /\ LET busy == sup = "foreign" IN
     /\ \/ "wpasup0" \in Chores /\ wpasup_start(FALSE, busy)
        \/ "wpasup1" \in Chores /\ wpasup_start(TRUE, busy)
     /\ SetLink(IF busy THEN link ELSE link \cap {"UP"})
  /\ UNCHANGED <<fsm, kids>>

(* wifi wpacmd PING *)
CliWpacmd ==
  /\ "wpacmd" \in Chores /\ Command /\ wpasup_cmd
  /\ UNCHANGED <<fsm, link, nlq, sup, net, wpasup_pid, kids>>
-----------------------------------------------------------------------------
(* The kernel, the children and the access point *)

(* The shortest time is 10 ms, in which the loop receives what is queued:   *)
(* an expiry meets at most one message, unless the loop is blocked in       *)
(* TimerRead.                                                               *)
Expire ==
  /\ timer = "armed" /\ (Len(nlq) <= 1 \/ (todo # <<>> /\ Head(todo) = "timer"))
  /\ timer' = "fired"
  /\ UNCHANGED <<state, ifflag, network_apply, todo, link, nlq, sup, net, wpa, wpasup_pid, kids, cli>>

SupListens ==
  /\ sup = "starting" /\ sup' = "ready"
  /\ UNCHANGED <<fsm, link, nlq, net, wpa, wpasup_pid, kids, cli>>

SupForeign ==
  /\ Foreign /\ sup = "none" /\ sup' = "foreign" /\ net' \in {"none", "wpa"}
  /\ UNCHANGED <<fsm, link, nlq, wpa, wpasup_pid, kids, cli>>

SupDies ==
  /\ Faults /\ sup # "none" /\ Len(nlq) < MaxQ
  /\ sup' = "none" /\ net' = "none" /\ SetLink(link \cap {"UP"})
  /\ cln' = Gone(cln) /\ mon' = Gone(mon)
  /\ UNCHANGED <<fsm, mon_ev, wpasup_pid, kids, cli>>

Associate ==
  /\ Listening /\ net # "none" /\ "UP" \in link /\ "LOWER" \notin link /\ Len(nlq) < MaxQ
  /\ SetLink(link \cup {"LOWER"})
  /\ UNCHANGED <<fsm, sup, net, wpa, wpasup_pid, kids, cli>>

Authorise ==
  /\ "LOWER" \in link /\ "RUNNING" \notin link /\ Len(nlq) < MaxQ
  /\ SetLink(link \cup {"RUNNING"})
  /\ UNCHANGED <<fsm, sup, net, wpa, wpasup_pid, kids, cli>>

(* The link is not lost again and again faster than the loop hears of it.  *)
LoseLink ==
  /\ "LOWER" \in link /\ Len(nlq) < MaxQ - 1
  /\ SetLink({"UP"})
  /\ UNCHANGED <<fsm, sup, net, wpa, wpasup_pid, kids, cli>>

(* udhcpc -q -n exits with or without a lease; zcip claims an address and   *)
(* stays.                                                                   *)
ChildMoves ==
  /\ \/ udhcpc = "running" /\ udhcpc' = "done" /\ UNCHANGED zcip
     \/ zcip = "running" /\ zcip' = "done" /\ UNCHANGED udhcpc
  /\ \/ UNCHANGED nlq
     \/ "RUNNING" \in link /\ Len(nlq) < MaxQ /\ nlq' = Append(nlq, {"ADDR"})
  /\ UNCHANGED <<fsm, link, sup, net, wpa, wpasup_pid, cli>>
-----------------------------------------------------------------------------
Loop == wifi2_epoll_cb \/ handle_rtnl \/ TimerRead \/ run_sm

Cli ==
  \/ \E s \in CliStates : CliState(s)
  \/ \E n \in Networks : CliWificfg(n) \/ CliWificonn(n)
  \/ \E ms \in TimerArgs : CliTimer(ms)
  \/ CliForget \/ CliIflink \/ CliChild \/ CliWpasup \/ CliWpacmd

Env == Expire \/ SupListens \/ SupForeign \/ SupDies \/ Associate \/ Authorise \/ LoseLink \/ ChildMoves

Next == Loop \/ Cli \/ Env

Spec == Init /\ [][Next]_vars

(* The loop runs, timers expire, wpa_supplicant comes up.  An access point  *)
(* is in reach: asked again and again, it lets the station in.              *)
FairSpec ==
  /\ Spec /\ WF_vars(Loop) /\ SF_vars(Expire) /\ WF_vars(SupListens)
  /\ SF_vars(Associate) /\ SF_vars(Authorise)
-----------------------------------------------------------------------------
(* Properties *)

(* Every variable has its type; a closed connection leaves no pointer.      *)
TypeOK ==
  /\ state \in State \cup {"SEGV"} /\ timer \in {"off", "armed", "fired"}
  /\ ifflag \subseteq Flag /\ link \subseteq Flag
  /\ network_apply \in {"NULL", "wpa", "open"}
  /\ sup \in {"none", "starting", "ready", "foreign"} /\ net \in {"none", "wpa", "open"}
  /\ {cln, mon} \subseteq {"none", "fresh", "stale", "other", "lost"} /\ mon_ev \in BOOLEAN
  /\ wpasup_pid \in BOOLEAN
  /\ {udhcpc, zcip} \subseteq {"none", "running", "done"}

(* In every state that waits for a limited time the timer runs or its       *)
(* expiry is being handled: run_sm cannot be left without a next input.     *)
TimerRunning ==
  state \notin {"ST_RESET", "ST_PAUSE", "SEGV"} /\ timer = "off" =>
    \E i \in DOMAIN todo : todo[i] = "TIMEOUT"

(* run_sm never follows network_apply when it is NULL, though wificfg       *)
(* without an ssid clears it in any state.                                  *)
NoNullNetwork == state # "SEGV"

(* The monitor callback is registered only while there is a connection for  *)
(* it to read from.                                                         *)
MonitorOpen == mon_ev => mon # "none"

(* run_sm is never left without a next input, a network or a connection it  *)
(* needs, in whatever order commands, netlink messages, expiries, failing   *)
(* forks and a dying wpa_supplicant reach it.                               *)
MachineAlive == TypeOK /\ TimerRunning /\ NoNullNetwork /\ MonitorOpen

(* No connection to an earlier child survives once a new child is there to  *)
(* answer; wpasup_cmd would never replace it.  One to another program's     *)
(* wpa_supplicant, opened while there was no child, does survive the        *)
(* killall of ST_RESET (cln = "lost"): wpasup_start closes nothing without  *)
(* a child.                                                                 *)
ControlFresh ==
  /\ sup \in {"starting", "ready"} => cln # "stale" /\ mon # "stale"
  /\ ~wpasup_pid => {cln, mon} \subseteq {"none", "other", "lost"}

(* A network given to wificfg is connected to, whatever went on before: the *)
(* machine leaves ST_INIT and gets to ST_MON, unless the user stops the     *)
(* timer or gives another command, or wpasup_cln was opened to another      *)
(* program's wpa_supplicant, which ST_RESET kills without closing it.       *)
Connects ==
  (/\ state = "ST_INIT" /\ timer # "off" /\ network_apply = "wpa" /\ cli = CliMax
   /\ cln \notin {"other", "lost"})
    ~> state = "ST_MON"

(* A link lost while ST_MON has seen it up takes the machine out of ST_MON. *)
LossNoticed ==
  (state = "ST_MON" /\ "LOWER" \in ifflag \ link) ~> state # "ST_MON"

(* The help text of wifi2_cli gives the psk of wificfg as optional: a       *)
(* network without one is connected to as well.                             *)
ConnectsOpen ==
  (state = "ST_INIT" /\ timer # "off" /\ network_apply = "open" /\ cli = CliMax)
    ~> state = "ST_MON"
=============================================================================

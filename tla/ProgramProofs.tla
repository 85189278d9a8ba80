---------------------------- MODULE ProgramProofs ----------------------------
(***************************************************************************)
(* Programs built on the event loop: the Wi-Fi manager of wifi.cpp, for    *)
(* any number of commands and any length of the netlink queue; the life of *)
(* tester_ev3's resources, for any number of connections; its console, for *)
(* any input, sizes of buffers and cutting of the input; and the settings  *)
(* file of settings.cpp, for any trees.                                    *)
(***************************************************************************)
EXTENDS Wifi2, Clients, QentProofs, FiniteSetTheorems

-----------------------------------------------------------------------------
(* wifi.cpp.  The user enters no state that needs a network, gives networks *)
(* of the two kinds and does not stop the timer by hand.                    *)
Usage ==
  /\ CliStates \subseteq State \ {"ST_WPASUP_CONNECT"}
  /\ Networks \subseteq {"wpa", "open"}
  /\ TimerArgs \subseteq Nat \ {0}

Item == Inputs \cup {"rtnl", "timer"}
NetMessage == (SUBSET Flag) \cup {{"ADDR"}}

(* The queues: a callback that is to read a netlink message finds one, and  *)
(* reads one only.                                                          *)
Queues ==
  /\ todo \in Seq(Item) /\ nlq \in Seq(NetMessage)
  /\ \A i \in 1..Len(todo) : todo[i] = "rtnl" => nlq # <<>>
  /\ \A i, j \in 1..Len(todo) : todo[i] = "rtnl" /\ todo[j] = "rtnl" => i = j

(* Without a child none is starting or listening.                           *)
Childless == ~wpasup_pid => sup \in {"none", "foreign"}

WInv == MachineAlive /\ ControlFresh /\ Childless /\ Queues

(* The connections and the interface, apart from the machine.               *)
WpaOK ==
  /\ sup \in {"none", "starting", "ready", "foreign"} /\ net \in {"none", "wpa", "open"}
  /\ {cln, mon} \subseteq {"none", "fresh", "stale", "other", "lost"} /\ mon_ev \in BOOLEAN
  /\ wpasup_pid \in BOOLEAN
  /\ MonitorOpen /\ ControlFresh /\ Childless

LinkOK == link \subseteq Flag /\ nlq \in Seq(NetMessage)

(* What a step may do to the queue of netlink messages while one is due.    *)
Grows == nlq # <<>> => nlq' # <<>>

KidsOK == {udhcpc, zcip} \subseteq {"none", "running", "done"}

(* The last conjuncts of WInv speak of these parts only.                    *)
LEMMA Parts ==
  WInv <=> /\ state \in State /\ timer \in {"off", "armed", "fired"} /\ ifflag \subseteq Flag
           /\ network_apply \in {"NULL", "wpa", "open"} /\ TimerRunning
           /\ WpaOK /\ LinkOK /\ KidsOK /\ Queues
BY Zenon DEF WInv, MachineAlive, TypeOK, NoNullNetwork, WpaOK, LinkOK, KidsOK, Queues, State

(* A report of new flags lengthens the queue or leaves it.                  *)
LEMMA Linked ==
  ASSUME LinkOK, NEW f \in SUBSET Flag, SetLink(f)
  PROVE  LinkOK' /\ Grows
<1>1. f \in NetMessage
  BY DEF NetMessage
<1>2. Append(nlq, f) \in Seq(NetMessage) /\ Append(nlq, f) # <<>>
  BY <1>1 DEF LinkOK
<1>. QED BY <1>2 DEF LinkOK, SetLink, Grows

(* A request opens what is not open and keeps the connections right.        *)
LEMMA Requested ==
  ASSUME WpaOK, wpasup_cmd, UNCHANGED <<sup, wpasup_pid>>, net' \in {"none", "wpa", "open"}
  PROVE  WpaOK'
BY DEF WpaOK, wpasup_cmd, Opened, MonitorOpen, ControlFresh, Childless

(* Starting or stopping wpa_supplicant leaves no connection to an old one.  *)
LEMMA Restarted ==
  ASSUME WpaOK, NEW en \in BOOLEAN, NEW busy \in BOOLEAN, wpasup_start(en, busy)
  PROVE  WpaOK'
BY DEF WpaOK, wpasup_start, Started, Gone, MonitorOpen, ControlFresh, Childless

(* Connecting to a network.                                                 *)
LEMMA Connected ==
  ASSUME WpaOK, LinkOK, NEW n \in {"wpa", "open"}, NEW psk, wpasup_network_connect(n, psk),
         UNCHANGED <<sup, wpasup_pid>>
  PROVE  WpaOK' /\ LinkOK' /\ Grows
<1>1. link \cap {"UP"} \in SUBSET Flag
  BY DEF LinkOK
<1>2. net' \in {"none", "wpa", "open"}
  BY DEF wpasup_network_connect, WpaOK
<1>3. WpaOK'
  BY <1>2, Requested DEF wpasup_network_connect
<1>4. CASE Answered
  <2>1. SetLink(link \cap {"UP"})
    BY <1>4 DEF wpasup_network_connect
  <2>. QED BY <1>1, <1>3, <2>1, Linked
<1>5. CASE ~Answered
  <2>1. UNCHANGED <<link, nlq>>
    BY <1>5 DEF wpasup_network_connect
  <2>. QED BY <1>3, <2>1 DEF LinkOK, Grows
<1>. QED BY <1>4, <1>5

(* What is left in order by entering a state: every state entered waits for *)
(* the timer, except ST_RESET and ST_PAUSE, and follows a network it has.   *)
Entered ==
  /\ state' \in State /\ timer' \in {"off", "armed", "fired"}
  /\ timer' = "off" => state' \in {"ST_RESET", "ST_PAUSE"}
  /\ WpaOK' /\ LinkOK' /\ KidsOK' /\ Grows

(* Entering ST_WPASUP_CONNECT with a network.                               *)
LEMMA ConnectEntered ==
  ASSUME WpaOK, LinkOK, KidsOK, network_apply \in {"wpa", "open"}, EnterConnect, UNCHANGED outer
  PROVE  Entered
<1>1. /\ state' = "ST_WPASUP_CONNECT" /\ timer' = "armed"
      /\ wpasup_network_connect(network_apply, AppliedPsk(network_apply))
  BY DEF EnterConnect, Goto, Arm
<1>2. WpaOK' /\ LinkOK' /\ Grows
  BY <1>1, Connected DEF outer
<1>3. KidsOK'
  BY DEF outer, kids, KidsOK
<1>. QED BY <1>1, <1>2, <1>3 DEF Entered, State

(* Entering ST_WPASUP_READY, with or without a ping before.                 *)
LEMMA ReadyEntered ==
  ASSUME WpaOK, LinkOK, KidsOK, network_apply \in {"NULL", "wpa", "open"}, NEW p \in BOOLEAN,
         EnterReady(p), UNCHANGED outer
  PROVE  Entered
<1>1. CASE network_apply # "NULL"
  BY <1>1, ConnectEntered DEF EnterReady
<1>2. CASE network_apply = "NULL"
  <2>1. /\ state' = "ST_WPASUP_READY" /\ timer' = "armed" /\ UNCHANGED <<net, link, nlq>>
        /\ IF p THEN wpasup_cmd ELSE UNCHANGED wpa
    BY <1>2 DEF EnterReady, Goto, Arm
  <2>2. net' \in {"none", "wpa", "open"}
    BY <2>1 DEF WpaOK
  <2>3. WpaOK'
    <3>1. CASE p
      BY <2>1, <2>2, <3>1, Requested DEF outer
    <3>2. CASE ~p
      BY <2>1, <3>2 DEF outer, wpa, WpaOK, MonitorOpen, ControlFresh, Childless
    <3>. QED BY <3>1, <3>2
  <2>4. LinkOK' /\ Grows /\ KidsOK'
    BY <2>1 DEF outer, kids, KidsOK, LinkOK, Grows
  <2>. QED BY <2>1, <2>3, <2>4 DEF Entered, State
<1>. QED BY <1>1, <1>2

(* Entering ST_WPASUP_CTRL: the ping is answered or tried again later.      *)
LEMMA CtrlEntered ==
  ASSUME WpaOK, LinkOK, KidsOK, network_apply \in {"NULL", "wpa", "open"}, EnterCtrl, UNCHANGED outer
  PROVE  Entered
<1>1. CASE Answered
  BY <1>1, ReadyEntered DEF EnterCtrl
<1>2. CASE ~Answered
  <2>1. /\ state' = "ST_WPASUP_CTRL" /\ timer' = "armed" /\ UNCHANGED <<net, link, nlq>>
        /\ wpasup_cmd
    BY <1>2 DEF EnterCtrl, Goto, Arm
  <2>2. net' \in {"none", "wpa", "open"}
    BY <2>1 DEF WpaOK
  <2>3. WpaOK'
    BY <2>1, <2>2, Requested DEF outer
  <2>4. LinkOK' /\ Grows /\ KidsOK'
    BY <2>1 DEF outer, kids, KidsOK, LinkOK, Grows
  <2>. QED BY <2>1, <2>3, <2>4 DEF Entered, State
<1>. QED BY <1>1, <1>2

(* Entering ST_RESET, whatever fails in it.                                 *)
LEMMA ResetEntered ==
  ASSUME WpaOK, LinkOK, timer \in {"off", "armed", "fired"}, EnterReset
  PROVE  Entered
<1>1. WpaOK'
  BY Restarted DEF EnterReset
<1>2. state' = "ST_RESET" /\ timer' = timer
  BY DEF EnterReset, Goto
<1>3. KidsOK'
  BY DEF EnterReset, dhcpc_start, zcip_start, KidsOK
<1>4. link' \in SUBSET Flag /\ link' \in NetMessage /\ {} \in NetMessage
  BY DEF EnterReset, NetMessage, Flag
<1>5. PICK a, b \in Seq(NetMessage) : nlq' = nlq \o a \o b
  <2>1. (IF link = {} THEN <<>> ELSE << {} >>) \in Seq(NetMessage)
    BY <1>4
  <2>2. (IF link' = {} THEN <<>> ELSE <<link'>>) \in Seq(NetMessage)
    BY <1>4
  <2>. QED BY <2>1, <2>2 DEF EnterReset
<1>6. nlq \o a \in Seq(NetMessage) /\ Len(nlq \o a) = Len(nlq) + Len(a)
  BY ConcatProperties DEF LinkOK
<1>7. nlq \o a \o b \in Seq(NetMessage) /\ Len(nlq \o a \o b) = Len(nlq \o a) + Len(b)
  BY <1>6, ConcatProperties
<1>8. nlq' \in Seq(NetMessage) /\ Len(nlq') = Len(nlq) + Len(a) + Len(b)
  BY <1>5, <1>6, <1>7
<1>9. Len(nlq) \in Nat /\ Len(a) \in Nat /\ Len(b) \in Nat /\ Len(nlq') \in Nat
  BY <1>8 DEF LinkOK
<1>10. Grows
  <2>. SUFFICES ASSUME nlq # <<>> PROVE nlq' # <<>>
    BY DEF Grows
  <2>1. Len(nlq) # 0
    BY EmptySeq DEF LinkOK
  <2>2. Len(nlq') # 0
    BY <1>8, <1>9, <2>1
  <2>. QED BY <2>2
<1>. QED BY <1>1, <1>2, <1>3, <1>4, <1>8, <1>10 DEF Entered, State, LinkOK

(* Entering any state by a command or an input, ST_WPASUP_CONNECT only with *)
(* a network.                                                               *)
LEMMA StateEntered ==
  ASSUME WpaOK, LinkOK, KidsOK, timer \in {"off", "armed", "fired"},
         network_apply \in {"NULL", "wpa", "open"},
         NEW s \in State, s = "ST_WPASUP_CONNECT" => network_apply # "NULL", EnterState(s)
  PROVE  Entered
<1>1. CASE s \in {"ST_INIT", "ST_MON"}
  <2>1. state' = s /\ timer' = "armed" /\ UNCHANGED <<outer, wpa, net, link, nlq>>
    BY <1>1 DEF EnterState, Goto, Arm
  <2>. QED BY <2>1 DEF Entered, outer, kids, wpa, WpaOK, MonitorOpen, ControlFresh, Childless,
                       LinkOK, KidsOK, Grows
<1>2. CASE s = "ST_PAUSE"
  <2>1. state' = s /\ timer' = timer /\ UNCHANGED <<outer, wpa, net, link, nlq>>
    BY <1>2 DEF EnterState, Goto
  <2>. QED BY <1>2, <2>1 DEF Entered, outer, kids, wpa, WpaOK, MonitorOpen, ControlFresh, Childless,
                       LinkOK, KidsOK, Grows
<1>3. CASE s \in {"ST_DHCPC", "ST_ZCIP"}
  <2>1. /\ state' = s /\ timer' = "armed" /\ UNCHANGED <<sup, wpasup_pid, wpa, net, link, nlq>>
        /\ KidsOK'
    BY <1>3 DEF EnterState, EnterDhcpc, EnterZcip, dhcpc_start, zcip_start, Forked, KidsOK, Goto, Arm
  <2>. QED BY <2>1 DEF Entered, wpa, WpaOK, MonitorOpen, ControlFresh, Childless, LinkOK, Grows
<1>4. CASE s = "ST_RESET"
  BY <1>4, ResetEntered DEF EnterState
<1>5. CASE s = "ST_WPASUP_CTRL"
  BY <1>5, CtrlEntered DEF EnterState
<1>6. CASE s = "ST_WPASUP_READY"
  BY <1>6, ReadyEntered DEF EnterState
<1>7. CASE s = "ST_WPASUP_CONNECT"
  BY <1>7, ConnectEntered DEF EnterState
<1>. QED BY <1>1, <1>2, <1>3, <1>4, <1>5, <1>6, <1>7 DEF State

-----------------------------------------------------------------------------
(* The steps of the manager *)

(* An input of run_sm leads to no state that needs a network, and every     *)
(* state that waits for the timer has a successor for its expiry.           *)
LEMMA Successor ==
  ASSUME NEW s \in State, NEW in \in Inputs
  PROVE  /\ After(s, in) \in (State \ {"ST_WPASUP_CONNECT"}) \cup {"none"}
         /\ in = "TIMEOUT" /\ s \notin {"ST_RESET", "ST_PAUSE"} => After(s, in) # "none"
BY DEF State, Inputs, After

(* The rest of a callback: its items keep their order.                      *)
LEMMA Rest ==
  ASSUME Queues, todo # <<>>, todo' = Tail(todo), nlq' \in Seq(NetMessage),
         nlq' # <<>> \/ (Head(todo) = "rtnl" \/ nlq = <<>>)
  PROVE  Queues'
<1>1. /\ Len(todo) \in Nat \ {0} /\ Len(todo') = Len(todo) - 1 /\ todo' \in Seq(Item)
      /\ \A i \in 1..Len(todo') : todo'[i] = todo[i + 1]
  <2>1. todo \in Seq(Item)
    BY DEF Queues
  <2>. QED BY <2>1, HeadTailProperties, EmptySeq
<1>2. Head(todo) = todo[1] /\ 1 \in 1..Len(todo)
  BY <1>1 DEF Queues
<1>3. ASSUME NEW i \in 1..Len(todo') PROVE i + 1 \in 1..Len(todo) /\ i + 1 # 1
  BY <1>1
<1>4. ASSUME NEW i \in 1..Len(todo'), todo'[i] = "rtnl" PROVE nlq' # <<>>
  <2>1. todo[i + 1] = "rtnl" /\ i + 1 \in 1..Len(todo) /\ i + 1 # 1
    BY <1>1, <1>3, <1>4
  <2>2. nlq # <<>> /\ Head(todo) # "rtnl"
    BY <1>2, <2>1 DEF Queues
  <2>. QED BY <2>2
<1>5. ASSUME NEW i \in 1..Len(todo'), NEW j \in 1..Len(todo'), todo'[i] = "rtnl", todo'[j] = "rtnl"
      PROVE  i = j
  <2>1. i + 1 = j + 1
    BY <1>1, <1>3, <1>5 DEF Queues
  <2>. QED BY <2>1, <1>1
<1>. QED BY <1>1, <1>4, <1>5 DEF Queues

(* An expiry still to be handled stays in the rest of the callback.         *)
LEMMA Pending ==
  ASSUME Queues, todo # <<>>, todo' = Tail(todo), Head(todo) # "TIMEOUT",
         \E i \in DOMAIN todo : todo[i] = "TIMEOUT"
  PROVE  \E i \in DOMAIN todo' : todo'[i] = "TIMEOUT"
<1>1. /\ Len(todo) \in Nat \ {0} /\ Len(todo') = Len(todo) - 1 /\ todo' \in Seq(Item)
      /\ \A i \in 1..Len(todo') : todo'[i] = todo[i + 1]
  <2>1. todo \in Seq(Item)
    BY DEF Queues
  <2>. QED BY <2>1, HeadTailProperties, EmptySeq
<1>2. Head(todo) = todo[1] /\ DOMAIN todo = 1..Len(todo) /\ DOMAIN todo' = 1..Len(todo')
  BY <1>1 DEF Queues
<1>3. PICK i \in 1..Len(todo) : todo[i] = "TIMEOUT"
  BY <1>2
<1>4. i # 1
  BY <1>2, <1>3
<1>5. i - 1 \in 1..Len(todo') /\ (i - 1) + 1 = i
  BY <1>1, <1>4
<1>6. todo'[i - 1] = "TIMEOUT"
  BY <1>1, <1>3, <1>5
<1>. QED BY <1>2, <1>5, <1>6

(* An item of the callback is one of the named ones.                        *)
LEMMA FirstItem ==
  ASSUME Queues, todo # <<>>
  PROVE  Head(todo) \in Item /\ todo[1] = Head(todo) /\ 1 \in 1..Len(todo)
<1>1. todo \in Seq(Item) /\ Len(todo) # 0
  BY EmptySeq DEF Queues
<1>. QED BY <1>1

(* The invariant after a step, from its parts.                              *)
LEMMA Whole ==
  ASSUME state' \in State, timer' \in {"off", "armed", "fired"}, ifflag' \subseteq Flag,
         network_apply' \in {"NULL", "wpa", "open"}, TimerRunning',
         WpaOK', LinkOK', KidsOK', Queues'
  PROVE  WInv'
BY Zenon DEF WInv, MachineAlive, TypeOK, NoNullNetwork, WpaOK, LinkOK, KidsOK, Queues, State

(* run_sm *)
LEMMA RunStep ==
  ASSUME WInv, run_sm
  PROVE  WInv'
<1>1. /\ state \in State /\ timer \in {"off", "armed", "fired"} /\ ifflag \subseteq Flag
      /\ network_apply \in {"NULL", "wpa", "open"} /\ TimerRunning
      /\ WpaOK /\ LinkOK /\ KidsOK /\ Queues
  BY Parts
<1>. DEFINE in == Head(todo)
<1>2. /\ in \in Inputs /\ in # "rtnl" /\ todo # <<>> /\ todo' = Tail(todo)
      /\ UNCHANGED <<ifflag, network_apply>>
  BY DEF run_sm, Inputs
<1>3. /\ ifflag' \subseteq Flag /\ network_apply' \in {"NULL", "wpa", "open"}
  BY <1>1, <1>2
<1>4. CASE After(state, in) = "none"
  <2>1. UNCHANGED <<state, timer, outer, wpa, net, link, nlq>>
    BY <1>4 DEF run_sm
  <2>2. Queues'
    <3>1. nlq' \in Seq(NetMessage) /\ nlq' = nlq
      BY <1>1, <2>1 DEF LinkOK
    <3>. QED BY <1>1, <1>2, <3>1, Rest
  <2>3. TimerRunning'
    <3>1. SUFFICES ASSUME state \notin {"ST_RESET", "ST_PAUSE", "SEGV"}, timer = "off"
                   PROVE  \E i \in DOMAIN todo' : todo'[i] = "TIMEOUT"
      BY <2>1 DEF TimerRunning
    <3>2. in # "TIMEOUT"
      BY <1>1, <1>2, <1>4, <3>1, Successor
    <3>. QED BY <1>1, <1>2, <3>1, <3>2, Pending DEF TimerRunning
  <2>4. WpaOK' /\ LinkOK' /\ KidsOK'
    BY <1>1, <2>1 DEF outer, kids, wpa, WpaOK, MonitorOpen, ControlFresh, Childless, LinkOK, KidsOK
  <2>. QED BY <1>1, <1>3, <2>1, <2>2, <2>3, <2>4, Whole
<1>5. CASE After(state, in) # "none"
  <2>1. After(state, in) \in State \ {"ST_WPASUP_CONNECT"}
    BY <1>1, <1>2, <1>5, Successor
  <2>2. EnterState(After(state, in))
    BY <1>5 DEF run_sm
  <2>3. Entered
    BY <1>1, <2>1, <2>2, StateEntered
  <2>4. Queues'
    BY <1>1, <1>2, <2>3, Rest DEF Entered, LinkOK, Grows
  <2>5. TimerRunning'
    BY <2>3 DEF Entered, TimerRunning
  <2>. QED BY <1>3, <2>3, <2>4, <2>5, Whole DEF Entered
<1>. QED BY <1>4, <1>5

(* A step of wifi2_epoll_cb that calls no run_sm leaves the machine and its *)
(* connections alone.                                                       *)
LEMMA Kept ==
  ASSUME WInv, UNCHANGED <<state, network_apply, link, sup, net, wpa, wpasup_pid, kids>>,
         nlq' \in Seq(NetMessage)
  PROVE  /\ state' \in State /\ network_apply' \in {"NULL", "wpa", "open"}
         /\ WpaOK' /\ LinkOK' /\ KidsOK'
<1>1. /\ state \in State /\ network_apply \in {"NULL", "wpa", "open"} /\ WpaOK /\ LinkOK /\ KidsOK
  BY Parts
<1>. QED BY <1>1 DEF kids, wpa, WpaOK, MonitorOpen, ControlFresh, Childless, LinkOK, KidsOK

(* epoll_wait has reported something *)
LEMMA PollStep ==
  ASSUME WInv, wifi2_epoll_cb
  PROVE  WInv'
<1>1. /\ timer \in {"off", "armed", "fired"} /\ ifflag \subseteq Flag
      /\ TimerRunning /\ LinkOK
  BY Parts
<1>2. /\ todo = <<>> /\ UNCHANGED <<state, timer, ifflag, network_apply, link, nlq, sup, net, wpa,
                                    wpasup_pid, kids>>
  BY DEF wifi2_epoll_cb
<1>3. nlq' \in Seq(NetMessage)
  BY <1>1, <1>2 DEF LinkOK
<1>4. TimerRunning'
  BY <1>1, <1>2 DEF TimerRunning
<1>5. Queues'
  <2>1. CASE todo' = <<"timer">>
    <3>1. Len(todo') = 1 /\ todo'[1] = "timer" /\ todo' \in Seq(Item)
      BY <2>1 DEF Item
    <3>. QED BY <1>3, <3>1 DEF Queues
  <2>2. CASE todo' = <<"rtnl">> /\ nlq # <<>>
    <3>1. Len(todo') = 1 /\ todo' \in Seq(Item)
      BY <2>2 DEF Item
    <3>. QED BY <1>2, <1>3, <2>2, <3>1 DEF Queues
  <2>3. CASE todo' = <<"rtnl", "timer">> /\ nlq # <<>>
    <3>1. Len(todo') = 2 /\ todo'[1] = "rtnl" /\ todo'[2] = "timer" /\ todo' \in Seq(Item)
      BY <2>3 DEF Item
    <3>. QED BY <1>2, <1>3, <2>3, <3>1 DEF Queues
  <2>4. CASE todo' = <<"timer", "rtnl">> /\ nlq # <<>>
    <3>1. Len(todo') = 2 /\ todo'[1] = "timer" /\ todo'[2] = "rtnl" /\ todo' \in Seq(Item)
      BY <2>4 DEF Item
    <3>. QED BY <1>2, <1>3, <2>4, <3>1 DEF Queues
  <2>. QED BY <2>1, <2>2, <2>3, <2>4 DEF wifi2_epoll_cb
<1>6. timer' \in {"off", "armed", "fired"} /\ ifflag' \subseteq Flag
  BY <1>1, <1>2
<1>7. /\ state' \in State /\ network_apply' \in {"NULL", "wpa", "open"}
      /\ WpaOK' /\ LinkOK' /\ KidsOK'
  BY <1>2, <1>3, Kept
<1>. QED BY <1>4, <1>5, <1>6, <1>7, Whole

(* An item of the callback replaced by inputs of run_sm.                    *)
LEMMA Replaced ==
  ASSUME Queues, todo # <<>>, NEW e \in Seq(Inputs), todo' = e \o Tail(todo),
         Head(todo) \in {"rtnl", "timer"}, nlq' \in Seq(NetMessage),
         Head(todo) = "rtnl" \/ nlq' = nlq
  PROVE  /\ Queues'
         /\ (\E i \in DOMAIN todo : todo[i] = "TIMEOUT") => \E i \in DOMAIN todo' : todo'[i] = "TIMEOUT"
         /\ \A i \in 1..Len(e) : i \in DOMAIN todo' /\ todo'[i] = e[i]
<1>. DEFINE t == Tail(todo)
<1>0. todo \in Seq(Item) /\ e \in Seq(Item)
  BY DEF Queues, Item
<1>1. /\ Len(todo) \in Nat \ {0} /\ Len(t) = Len(todo) - 1 /\ t \in Seq(Item)
      /\ \A i \in 1..Len(t) : t[i] = todo[i + 1]
  BY <1>0, HeadTailProperties, EmptySeq
<1>2. Head(todo) = todo[1] /\ DOMAIN todo = 1..Len(todo)
  BY <1>0, <1>1
<1>. HIDE DEF t
<1>3. /\ todo' \in Seq(Item) /\ Len(todo') = Len(e) + Len(t)
      /\ \A i \in 1..Len(e) + Len(t) : todo'[i] = IF i <= Len(e) THEN e[i] ELSE t[i - Len(e)]
  <2>1. todo' = e \o t
    BY DEF t
  <2>2. /\ e \o t \in Seq(Item) /\ Len(e \o t) = Len(e) + Len(t)
        /\ \A i \in 1..Len(e) + Len(t) : (e \o t)[i] = IF i <= Len(e) THEN e[i] ELSE t[i - Len(e)]
    BY <1>0, <1>1, ConcatProperties
  <2>. QED BY <2>1, <2>2, Zenon
<1>4. Len(e) \in Nat /\ Len(t) \in Nat /\ DOMAIN todo' = 1..Len(todo')
  BY <1>0, <1>1, <1>3
<1>5. \A i \in 1..Len(e) : e[i] \in Inputs /\ e[i] # "rtnl"
  BY DEF Inputs
<1>6. ASSUME NEW i \in 1..Len(todo'), todo'[i] = "rtnl"
      PROVE  /\ i - Len(e) + 1 \in 1..Len(todo) /\ todo[i - Len(e) + 1] = "rtnl"
             /\ i - Len(e) + 1 # 1
  <2>1. ~(i <= Len(e))
    BY <1>3, <1>4, <1>5, <1>6
  <2>2. i - Len(e) \in 1..Len(t)
    BY <1>3, <1>4, <2>1
  <2>3. t[i - Len(e)] = "rtnl"
    BY <1>3, <1>4, <1>6, <2>1
  <2>4. i - Len(e) + 1 \in 1..Len(todo) /\ i - Len(e) + 1 # 1
    BY <1>1, <1>4, <2>2
  <2>. QED BY <1>1, <2>2, <2>3, <2>4
<1>7. Queues'
  <2>1. ASSUME NEW i \in 1..Len(todo'), todo'[i] = "rtnl" PROVE nlq' # <<>>
    <3>1. Head(todo) # "rtnl" /\ nlq # <<>>
      BY <1>1, <1>2, <1>6, <2>1, SMTT(30) DEF Queues
    <3>. QED BY <3>1
  <2>2. ASSUME NEW i \in 1..Len(todo'), NEW j \in 1..Len(todo'), todo'[i] = "rtnl", todo'[j] = "rtnl"
        PROVE  i = j
    <3>1. i - Len(e) + 1 = j - Len(e) + 1
      BY <1>6, <2>2 DEF Queues
    <3>. QED BY <1>3, <1>4, <3>1
  <2>. QED BY <1>3, <2>1, <2>2 DEF Queues
<1>8. ASSUME NEW i \in DOMAIN todo, todo[i] = "TIMEOUT" PROVE \E k \in DOMAIN todo' : todo'[k] = "TIMEOUT"
  <2>1. i # 1 /\ i \in 1..Len(todo)
    BY <1>2, <1>8
  <2>2. i - 1 \in 1..Len(t) /\ (i - 1) + 1 = i
    BY <1>1, <2>1
  <2>3. t[i - 1] = "TIMEOUT"
    BY <1>1, <1>8, <2>2
  <2>4. PICK k \in Nat : k = Len(e) + (i - 1)
    BY <1>4, <2>2
  <2>5. k \in 1..Len(e) + Len(t) /\ ~(k <= Len(e)) /\ k - Len(e) = i - 1
    BY <1>4, <2>2, <2>4
  <2>6. todo'[k] = "TIMEOUT"
    BY <1>3, <2>3, <2>5
  <2>. QED BY <1>3, <1>4, <2>5, <2>6
<1>9. ASSUME NEW i \in 1..Len(e) PROVE i \in DOMAIN todo' /\ todo'[i] = e[i]
  BY <1>3, <1>4
<1>. QED BY <1>7, <1>8, <1>9

(* One input is a sequence of inputs.                                       *)
LEMMA OneInput == ASSUME NEW x \in Inputs PROVE <<x>> \in Seq(Inputs)
OBVIOUS

(* handle_rtnl *)
LEMMA NetlinkStep ==
  ASSUME WInv, handle_rtnl
  PROVE  WInv'
<1>1. /\ timer \in {"off", "armed", "fired"} /\ ifflag \subseteq Flag
      /\ TimerRunning /\ LinkOK /\ Queues
  BY Parts
<1>2. /\ todo # <<>> /\ Head(todo) = "rtnl" /\ todo' = Edges(Head(nlq)) \o Tail(todo)
      /\ nlq' = Tail(nlq) /\ UNCHANGED <<state, timer, network_apply, link, sup, net, wpa,
                                         wpasup_pid, kids>>
  BY DEF handle_rtnl
<1>3. nlq # <<>>
  BY <1>1, <1>2, FirstItem DEF Queues
<1>4. Head(nlq) \in NetMessage /\ nlq' \in Seq(NetMessage)
  <2>1. nlq \in Seq(NetMessage)
    BY <1>1 DEF LinkOK
  <2>. QED BY <1>2, <1>3, <2>1, HeadTailProperties
<1>5. Edges(Head(nlq)) \in Seq(Inputs)
  <2>. DEFINE a == IF "UP" \in Head(nlq) \ ifflag THEN <<"IFFUP">> ELSE <<>>
              b == IF "RUNNING" \in Head(nlq) \ ifflag THEN <<"IFFRUNNING">> ELSE <<>>
              c == IF "LOWER" \in ifflag \ Head(nlq) THEN <<"IFFLOWDOWN">> ELSE <<>>
  <2>0. "IFFUP" \in Inputs /\ "IFFRUNNING" \in Inputs /\ "IFFLOWDOWN" \in Inputs /\ "IPADD" \in Inputs
    BY DEF Inputs
  <2>1. a \in Seq(Inputs) /\ b \in Seq(Inputs) /\ c \in Seq(Inputs) /\ <<"IPADD">> \in Seq(Inputs)
    BY <2>0, OneInput
  <2>2. Edges(Head(nlq)) \in {<<"IPADD">>, a \o b \o c}
    BY DEF Edges
  <2>. HIDE DEF a, b, c
  <2>3. a \o b \in Seq(Inputs)
    BY <2>1, ConcatProperties
  <2>4. a \o b \o c \in Seq(Inputs)
    BY <2>1, <2>3, ConcatProperties
  <2>. QED BY <2>1, <2>2, <2>4
<1>6. /\ Queues'
      /\ (\E i \in DOMAIN todo : todo[i] = "TIMEOUT") => \E i \in DOMAIN todo' : todo'[i] = "TIMEOUT"
  BY <1>1, <1>2, <1>4, <1>5, Replaced
<1>7. TimerRunning'
  BY <1>1, <1>2, <1>6 DEF TimerRunning
<1>8. timer' \in {"off", "armed", "fired"} /\ ifflag' \subseteq Flag
  BY <1>1, <1>2, <1>4 DEF handle_rtnl, NetMessage
<1>9. /\ state' \in State /\ network_apply' \in {"NULL", "wpa", "open"}
      /\ WpaOK' /\ LinkOK' /\ KidsOK'
  BY <1>2, <1>4, Kept
<1>. QED BY <1>6, <1>7, <1>8, <1>9, Whole

(* The read of the timer *)
LEMMA TimerStep ==
  ASSUME WInv, TimerRead
  PROVE  WInv'
<1>1. ifflag \subseteq Flag /\ LinkOK /\ Queues
  BY Parts
<1>2. /\ todo # <<>> /\ Head(todo) = "timer" /\ todo' = <<"TIMEOUT">> \o Tail(todo) /\ timer' = "off"
      /\ UNCHANGED <<state, ifflag, network_apply, link, nlq, sup, net, wpa, wpasup_pid, kids>>
  BY DEF TimerRead
<1>3. nlq' \in Seq(NetMessage)
  BY <1>1, <1>2 DEF LinkOK
<1>4. PICK e \in Seq(Inputs) : e = <<"TIMEOUT">> /\ Len(e) = 1 /\ e[1] = "TIMEOUT"
  <2>1. "TIMEOUT" \in Inputs
    BY DEF Inputs
  <2>. QED BY <2>1, OneInput
<1>5. Queues' /\ \A i \in 1..Len(e) : i \in DOMAIN todo' /\ todo'[i] = e[i]
  BY <1>1, <1>2, <1>3, <1>4, Replaced
<1>6. TimerRunning'
  BY <1>4, <1>5 DEF TimerRunning
<1>7. /\ state' \in State /\ network_apply' \in {"NULL", "wpa", "open"}
      /\ WpaOK' /\ LinkOK' /\ KidsOK'
  BY <1>2, <1>3, Kept
<1>. QED BY <1>1, <1>2, <1>5, <1>6, <1>7, Whole

(* A step outside the callback: it may lengthen the queue, never drain it,  *)
(* and stops no timer.                                                      *)
LEMMA Outside ==
  ASSUME WInv, UNCHANGED <<todo, ifflag>>, WpaOK', LinkOK', KidsOK', Grows,
         state' \in State, timer' \in {"off", "armed", "fired"},
         network_apply' \in {"NULL", "wpa", "open"},
         UNCHANGED <<state, timer>> \/ timer' # "off" \/ state' \in {"ST_RESET", "ST_PAUSE"}
  PROVE  WInv'
<1>1. ifflag \subseteq Flag /\ TimerRunning /\ Queues
  BY Parts
<1>2. Queues'
  BY <1>1 DEF Queues, LinkOK, Grows
<1>3. TimerRunning'
  BY <1>1 DEF TimerRunning
<1>. QED BY <1>1, <1>2, <1>3, Whole

(* The commands *)
LEMMA CliStep ==
  ASSUME Usage, WInv, Cli
  PROVE  WInv'
<1>1. /\ state \in State /\ timer \in {"off", "armed", "fired"} /\ ifflag \subseteq Flag
      /\ network_apply \in {"NULL", "wpa", "open"} /\ TimerRunning
      /\ WpaOK /\ LinkOK /\ KidsOK /\ Queues
  BY Parts
<1>2. ASSUME NEW s \in CliStates, CliState(s) PROVE WInv'
  <2>1. s \in State /\ s # "ST_WPASUP_CONNECT"
    BY DEF Usage
  <2>2. EnterState(s) /\ UNCHANGED <<ifflag, network_apply, todo>>
    BY <1>2 DEF CliState
  <2>3. Entered
    BY <1>1, <2>1, <2>2, StateEntered
  <2>4. network_apply' \in {"NULL", "wpa", "open"}
    BY <1>1, <2>2
  <2>. QED BY <2>2, <2>3, <2>4, Outside DEF Entered
<1>3. ASSUME NEW n \in Networks, CliWificfg(n) PROVE WInv'
  <2>1. /\ network_apply' = n /\ n \in {"wpa", "open"} /\ state' = "ST_INIT" /\ timer' = "armed"
        /\ UNCHANGED <<ifflag, todo, link, nlq, sup, net, wpa, wpasup_pid, kids>>
    BY <1>3 DEF CliWificfg, Goto, Arm, Usage
  <2>2. WpaOK' /\ LinkOK' /\ KidsOK' /\ Grows
    BY <1>1, <2>1 DEF kids, wpa, WpaOK, MonitorOpen, ControlFresh, Childless, LinkOK, KidsOK, Grows
  <2>3. state' \in State
    BY <2>1 DEF State
  <2>. QED BY <2>1, <2>2, <2>3, Outside
<1>4. ASSUME NEW n \in Networks, CliWificonn(n) PROVE WInv'
  <2>1. /\ n \in {"wpa", "open"} /\ wpasup_network_connect(n, GivenPsk(n))
        /\ UNCHANGED <<fsm, sup, wpasup_pid, kids>>
    BY <1>4 DEF CliWificonn, Usage
  <2>2. WpaOK' /\ LinkOK' /\ Grows
    BY <1>1, <2>1, Connected
  <2>3. KidsOK'
    BY <1>1, <2>1 DEF kids, KidsOK
  <2>. QED BY <1>1, <2>1, <2>2, <2>3, Outside DEF fsm
<1>5. ASSUME NEW ms \in TimerArgs, CliTimer(ms) PROVE WInv'
  <2>1. ms > 0
    BY DEF Usage
  <2>2. /\ timer' = "armed"
        /\ UNCHANGED <<state, ifflag, network_apply, todo, link, nlq, sup, net, wpa, wpasup_pid, kids>>
    BY <1>5, <2>1 DEF CliTimer
  <2>3. WpaOK' /\ LinkOK' /\ KidsOK' /\ Grows
    BY <1>1, <2>2 DEF kids, wpa, WpaOK, MonitorOpen, ControlFresh, Childless, LinkOK, KidsOK, Grows
  <2>. QED BY <1>1, <2>2, <2>3, Outside
<1>6. CASE CliForget
  <2>1. /\ network_apply' = "NULL"
        /\ UNCHANGED <<state, timer, ifflag, todo, link, nlq, sup, net, wpa, wpasup_pid, kids>>
    BY <1>6 DEF CliForget
  <2>2. WpaOK' /\ LinkOK' /\ KidsOK' /\ Grows
    BY <1>1, <2>1 DEF kids, wpa, WpaOK, MonitorOpen, ControlFresh, Childless, LinkOK, KidsOK, Grows
  <2>. QED BY <1>1, <2>1, <2>2, Outside
<1>7. CASE CliIflink
  <2>1. /\ SetLink({}) \/ SetLink(link \cup {"UP"})
        /\ UNCHANGED <<fsm, sup, net, wpa, wpasup_pid, kids>>
    BY <1>7 DEF CliIflink
  <2>2. {} \in SUBSET Flag /\ link \cup {"UP"} \in SUBSET Flag
    BY <1>1 DEF LinkOK, Flag
  <2>3. LinkOK' /\ Grows
    BY <1>1, <2>1, <2>2, Linked
  <2>4. WpaOK' /\ KidsOK'
    BY <1>1, <2>1 DEF kids, wpa, WpaOK, MonitorOpen, ControlFresh, Childless, KidsOK
  <2>. QED BY <1>1, <2>1, <2>3, <2>4, Outside DEF fsm
<1>8. CASE CliChild
  <2>1. /\ UNCHANGED <<fsm, link, nlq, sup, net, wpa, wpasup_pid>>
        /\ KidsOK'
    BY <1>1, <1>8 DEF CliChild, dhcpc_start, zcip_start, Forked, KidsOK
  <2>2. WpaOK' /\ LinkOK' /\ Grows
    BY <1>1, <2>1 DEF wpa, WpaOK, MonitorOpen, ControlFresh, Childless, LinkOK, Grows
  <2>. QED BY <1>1, <2>1, <2>2, Outside DEF fsm
<1>9. CASE CliWpasup
  <2>1. PICK en, busy \in BOOLEAN :
          /\ wpasup_start(en, busy)
          /\ SetLink(IF busy THEN link ELSE link \cap {"UP"}) /\ UNCHANGED <<fsm, kids>>
    BY <1>9 DEF CliWpasup
  <2>2. (IF busy THEN link ELSE link \cap {"UP"}) \in SUBSET Flag
    BY <1>1 DEF LinkOK
  <2>3. LinkOK' /\ Grows
    BY <1>1, <2>1, <2>2, Linked
  <2>4. WpaOK'
    BY <1>1, <2>1, Restarted
  <2>5. KidsOK'
    BY <1>1, <2>1 DEF kids, KidsOK
  <2>. QED BY <1>1, <2>1, <2>3, <2>4, <2>5, Outside DEF fsm
<1>10. CASE CliWpacmd
  <2>1. wpasup_cmd /\ UNCHANGED <<fsm, link, nlq, sup, net, wpasup_pid, kids>>
    BY <1>10 DEF CliWpacmd
  <2>2. net' \in {"none", "wpa", "open"}
    BY <1>1, <2>1 DEF WpaOK
  <2>3. WpaOK'
    BY <1>1, <2>1, <2>2, Requested
  <2>4. LinkOK' /\ KidsOK' /\ Grows
    BY <1>1, <2>1 DEF kids, LinkOK, KidsOK, Grows
  <2>. QED BY <1>1, <2>1, <2>3, <2>4, Outside DEF fsm
<1>. QED BY <1>2, <1>3, <1>4, <1>5, <1>6, <1>7, <1>8, <1>9, <1>10 DEF Cli

(* The kernel, the children and the access point *)
LEMMA EnvStep ==
  ASSUME WInv, Env
  PROVE  WInv'
<1>1. /\ state \in State /\ timer \in {"off", "armed", "fired"} /\ ifflag \subseteq Flag
      /\ network_apply \in {"NULL", "wpa", "open"} /\ TimerRunning
      /\ WpaOK /\ LinkOK /\ KidsOK /\ Queues
  BY Parts
<1>2. CASE Expire
  <2>1. /\ timer' = "fired"
        /\ UNCHANGED <<state, ifflag, network_apply, todo, link, nlq, sup, net, wpa, wpasup_pid, kids>>
    BY <1>2 DEF Expire
  <2>2. WpaOK' /\ LinkOK' /\ KidsOK' /\ Grows
    BY <1>1, <2>1 DEF kids, wpa, WpaOK, MonitorOpen, ControlFresh, Childless, LinkOK, KidsOK, Grows
  <2>. QED BY <1>1, <2>1, <2>2, Outside
<1>3. CASE SupListens
  <2>1. /\ sup = "starting" /\ sup' = "ready"
        /\ UNCHANGED <<fsm, link, nlq, net, wpa, wpasup_pid, kids>>
    BY <1>3 DEF SupListens
  <2>2. WpaOK' /\ LinkOK' /\ KidsOK' /\ Grows
    BY <1>1, <2>1 DEF kids, wpa, WpaOK, MonitorOpen, ControlFresh, Childless, LinkOK, KidsOK, Grows
  <2>. QED BY <1>1, <2>1, <2>2, Outside DEF fsm
<1>7. CASE SupForeign
  <2>1. /\ sup' = "foreign" /\ net' \in {"none", "wpa"}
        /\ UNCHANGED <<fsm, link, nlq, wpa, wpasup_pid, kids>>
    BY <1>7 DEF SupForeign
  <2>2. WpaOK' /\ LinkOK' /\ KidsOK' /\ Grows
    BY <1>1, <2>1 DEF kids, wpa, WpaOK, MonitorOpen, ControlFresh, Childless, LinkOK, KidsOK, Grows
  <2>. QED BY <1>1, <2>1, <2>2, Outside DEF fsm
<1>4. CASE SupDies
  <2>1. /\ sup # "none" /\ sup' = "none" /\ net' = "none" /\ SetLink(link \cap {"UP"})
        /\ cln' = Gone(cln) /\ mon' = Gone(mon) /\ UNCHANGED <<fsm, mon_ev, wpasup_pid, kids>>
    BY <1>4 DEF SupDies
  <2>2. link \cap {"UP"} \in SUBSET Flag
    BY <1>1 DEF LinkOK
  <2>3. LinkOK' /\ Grows
    BY <1>1, <2>1, <2>2, Linked
  <2>4. WpaOK' /\ KidsOK'
    BY <1>1, <2>1 DEF kids, Gone, WpaOK, MonitorOpen, ControlFresh, Childless, KidsOK
  <2>. QED BY <1>1, <2>1, <2>3, <2>4, Outside DEF fsm
<1>5. CASE Associate \/ Authorise \/ LoseLink
  <2>1. /\ UNCHANGED <<fsm, sup, net, wpa, wpasup_pid, kids>>
        /\ SetLink(link \cup {"LOWER"}) \/ SetLink(link \cup {"RUNNING"}) \/ SetLink({"UP"})
    BY <1>5 DEF Associate, Authorise, LoseLink
  <2>2. /\ link \cup {"LOWER"} \in SUBSET Flag /\ link \cup {"RUNNING"} \in SUBSET Flag
        /\ {"UP"} \in SUBSET Flag
    BY <1>1 DEF LinkOK, Flag
  <2>3. LinkOK' /\ Grows
    BY <1>1, <2>1, <2>2, Linked
  <2>4. WpaOK' /\ KidsOK'
    BY <1>1, <2>1 DEF kids, wpa, WpaOK, MonitorOpen, ControlFresh, Childless, KidsOK
  <2>. QED BY <1>1, <2>1, <2>3, <2>4, Outside DEF fsm
<1>6. CASE ChildMoves
  <2>1. /\ UNCHANGED <<fsm, link, sup, net, wpa, wpasup_pid>>
        /\ KidsOK' /\ (nlq' = nlq \/ nlq' = Append(nlq, {"ADDR"}))
    BY <1>1, <1>6 DEF ChildMoves, KidsOK
  <2>2. {"ADDR"} \in NetMessage /\ nlq \in Seq(NetMessage)
    BY <1>1 DEF NetMessage, LinkOK
  <2>3. nlq' \in Seq(NetMessage) /\ Grows
    <3>1. PICK m \in NetMessage : m = {"ADDR"}
      BY <2>2
    <3>2. Append(nlq, m) \in Seq(NetMessage) /\ Append(nlq, m) # <<>>
      BY <2>2, AppendProperties
    <3>. QED BY <2>1, <2>2, <3>1, <3>2 DEF Grows
  <2>4. WpaOK' /\ LinkOK'
    BY <1>1, <2>1, <2>3 DEF wpa, WpaOK, MonitorOpen, ControlFresh, Childless, LinkOK
  <2>. QED BY <1>1, <2>1, <2>3, <2>4, Outside DEF fsm
<1>. QED BY <1>2, <1>3, <1>4, <1>5, <1>6, <1>7 DEF Env

(* The manager starts with it.                                              *)
LEMMA ManagerInit == ASSUME Usage, Init PROVE WInv
<1>1. WpaOK /\ KidsOK /\ TimerRunning
  BY DEF Init, WpaOK, KidsOK, TimerRunning, MonitorOpen, ControlFresh, Childless
<1>2. LinkOK /\ Queues
  BY DEF Init, LinkOK, Queues, Flag
<1>3. /\ state \in State /\ timer \in {"off", "armed", "fired"} /\ ifflag \subseteq Flag
      /\ network_apply \in {"NULL", "wpa", "open"}
  BY DEF Init, State, Flag
<1>. QED BY <1>1, <1>2, <1>3, Parts

(* Every step of the loop, of a command and of the world around it keeps it. *)
LEMMA ManagerStep == ASSUME Usage, WInv, [Next]_vars PROVE WInv'
<1>1. CASE Loop
  BY <1>1, PollStep, NetlinkStep, TimerStep, RunStep DEF Loop
<1>2. CASE Cli
  BY <1>2, CliStep
<1>3. CASE Env
  BY <1>3, EnvStep
<1>4. CASE UNCHANGED vars
  <2>1. UNCHANGED <<state, timer, ifflag, network_apply, todo, link, nlq, sup, net, wpa,
                    wpasup_pid, kids>>
    BY <1>4 DEF vars, wpa, kids
  <2>2. WpaOK /\ LinkOK /\ KidsOK /\ state \in State /\ timer \in {"off", "armed", "fired"}
        /\ network_apply \in {"NULL", "wpa", "open"}
    BY Parts
  <2>3. WpaOK' /\ LinkOK' /\ KidsOK' /\ Grows
    BY <2>1, <2>2 DEF kids, wpa, WpaOK, MonitorOpen, ControlFresh, Childless, LinkOK, KidsOK, Grows
  <2>. QED BY <2>1, <2>2, <2>3, Outside
<1>. QED BY <1>1, <1>2, <1>3, <1>4 DEF Next

(* The machine of wifi.cpp is never left without a next input, a network or *)
(* a connection it needs, however many commands are given, messages queued  *)
(* and children lost.                                                       *)
THEOREM ManagerSafe == ASSUME Usage PROVE Spec => []MachineAlive
<1>1. WInv => MachineAlive
  BY DEF WInv
<1>. QED BY <1>1, ManagerInit, ManagerStep, PTL DEF Spec

(* No connection to an earlier child is left once a new one is there to     *)
(* answer, though other programs may run their own wpa_supplicant at any    *)
(* time.  Only a connection opened to such a one can outlive its peer.      *)
THEOREM NoStaleControl == ASSUME Usage PROVE Spec => []ControlFresh
<1>1. WInv => ControlFresh
  BY DEF WInv
<1>. QED BY <1>1, ManagerInit, ManagerStep, PTL DEF Spec

-----------------------------------------------------------------------------
(* tester_ev3.  A connection is none of the services.                       *)
Names == Conn \cap (C!Services \cup {"loop", "cmds", "cycle"}) = {}

(* A handle or a descriptor belongs to something allocated, a callback is   *)
(* due only for a handle, and handles are in a loop that exists.            *)
Held ==
  /\ fds \subseteq mem /\ watch \subseteq mem \cup {"cycle"} /\ batch \subseteq watch
  /\ "cmds" \notin fds \cup watch /\ "loop" \notin watch /\ "bluez" \notin watch
  /\ batch # {} => step = "run"
  /\ watch # {} => "loop" \in mem

(* What is allocated is reached from one of main's pointers.                *)
Reached ==
  /\ mem \subseteq ptr \cup Conn \cup {"cmds"}
  /\ mem \cap Conn # {} => "mgmt" \in ptr
  /\ "cmds" \in mem => "cli" \in ptr
  /\ ~ending => (IF step = "loop" THEN mem = {} /\ ptr = {} ELSE "loop" \in ptr)
  /\ step = "run" => ~ending
  /\ step \in {"timer", "wifi"} => ~ending
  /\ step = "exit" => ending

(* The destroys main has done at a step of `finally'.                       *)
Done(o) ==
  /\ ending
  /\ CASE o = "bluez" -> step # "bluez"
       [] o = "mgmt" -> step \notin {"bluez", "mgmt"}
       [] o = "cli" -> step \notin {"bluez", "mgmt", "cli"}
       [] o = "ipc" -> step \in {"v4l2", "usb", "bt", "ble", "loop", "exit"}
       [] o = "v4l2" -> step \in {"usb", "bt", "ble", "loop", "exit"}
       [] o = "usb" -> step \in {"bt", "ble", "loop", "exit"}
       [] o = "bt" -> step \in {"ble", "loop", "exit"}
       [] o = "ble" -> step \in {"loop", "exit"}
       [] OTHER -> step = "exit"

(* What they release is gone.                                               *)
TornDown ==
  /\ \A o \in (C!Services \ {"wifi"}) \cup {"loop"} : Done(o) => o \notin mem
  /\ Done("mgmt") => mem \cap Conn = {}
  /\ Done("cli") => "cmds" \notin mem

(* Until then main's pointers lead to memory, except that the pipe may be   *)
(* broken and the console may be gone while the loop runs without quit:     *)
(* nobody is left to set it.                                                *)
Sound ==
  /\ \A o \in (C!Services \ {"wifi", "cli", "ipc"}) \cup {"loop"} : o \in ptr /\ ~Done(o) => o \in mem
  /\ "ipc" \in ptr /\ ~Done("ipc") => "ipc" \in mem \/ broken
  /\ "cli" \in ptr /\ ~Done("cli") /\ (step = "run" => quit) => "cli" \in mem
  /\ quit => "cli" \notin batch
  /\ ~raced

RInv == C!TypeOK /\ Held /\ Reached /\ TornDown /\ Sound

(* One step of main, of the loop or of a callback.                          *)
LEMMA ProgramStep ==
  ASSUME Names, RInv, [C!Next]_(C!vars)
  PROVE  RInv'
<1>. USE DEF Names, RInv, C!TypeOK, Held, Reached, Done, TornDown, Sound, C!histVars, C!Services, C!Session
<1>1. ASSUME NEW ok \in BOOLEAN, C!aloe_evb2_create(ok) PROVE RInv'
  BY <1>1 DEF C!aloe_evb2_create, C!Goes
<1>2. ASSUME NEW ok \in BOOLEAN,
             C!mgmt1_init(ok) \/ C!cli1_init(ok) \/ C!ipc1_init(ok) \/ C!wifi2_init(ok) \/ C!v4l2_init(ok)
               \/ C!usb_init(ok) \/ C!bt_init(ok) \/ C!blegatt_init(ok) \/ C!bluez1_init(ok)
      PROVE  RInv'
  BY <1>2 DEF C!ServiceInit, C!mgmt1_init, C!cli1_init, C!ipc1_init, C!wifi2_init, C!v4l2_init, C!usb_init,
              C!bt_init, C!blegatt_init, C!bluez1_init
<1>3. ASSUME NEW ok \in BOOLEAN, C!MainTimer(ok) PROVE RInv'
  BY <1>3 DEF C!MainTimer, C!Goes, C!cli1_cmd_add
<1>4. ASSUME NEW ready \in SUBSET watch, C!RunOnce(ready) PROVE RInv'
  BY <1>4 DEF C!RunOnce, C!resVars
<1>5. CASE C!LoopEnds
  BY <1>5 DEF C!LoopEnds, C!resVars
<1>6. ASSUME NEW new \in SUBSET {"wifi", "v4l2"}, NEW with \in SUBSET {"v4l2"},
             NEW opened \in SUBSET C!Session, NEW q \in BOOLEAN, C!cli1_cb(new, with, opened, q)
      PROVE  RInv'
  BY <1>6 DEF C!cli1_cb, C!Called
<1>7. ASSUME NEW r \in {"eof", "error", "EAGAIN"}, C!cli1_cb_end(r) PROVE RInv'
  BY <1>7 DEF C!cli1_cb_end, C!Release, C!Serve, C!Called
<1>8. ASSUME NEW r \in {"eof", "error", "EAGAIN"}, C!ipc1_cb(r) PROVE RInv'
  BY <1>8 DEF C!ipc1_cb, C!Release, C!Serve, C!Called
<1>9. ASSUME NEW r \in {"eof", "error", "EAGAIN"}, NEW c \in Conn, C!mgmt1_client_cb(c, r) PROVE RInv'
  BY <1>9 DEF C!mgmt1_client_cb, C!Release, C!Serve, C!Called
<1>10. ASSUME NEW c \in Conn, NEW ok \in BOOLEAN, C!mgmt1_accept_cb(c, ok) PROVE RInv'
  BY <1>10 DEF C!mgmt1_accept_cb, C!Serve, C!Called
<1>11. ASSUME NEW o \in C!Session, NEW lostPeer \in BOOLEAN, C!SessionCb(o, lostPeer) PROVE RInv'
  BY <1>11 DEF C!SessionCb, C!Serve, C!Called
<1>12. ASSUME NEW o \in C!Services \cup {"cycle"}, C!OtherCb(o) PROVE RInv'
  BY <1>12 DEF C!OtherCb, C!Serve, C!Called, C!resVars
<1>13. CASE C!bluez1_destroy
  BY <1>13 DEF C!bluez1_destroy, C!Destroy, C!Owned
<1>14. CASE C!mgmt1_destroy
  BY <1>14 DEF C!mgmt1_destroy, C!OtherDestroy, C!Destroy, C!Owned
<1>15. CASE C!cli1_destroy
  BY <1>15 DEF C!cli1_destroy, C!OtherDestroy, C!Destroy, C!Owned
<1>16. CASE C!ipc1_destroy
  BY <1>16 DEF C!ipc1_destroy, C!Destroy, C!Owned
<1>17. CASE C!v4l2_destroy
  BY <1>17 DEF C!v4l2_destroy, C!OtherDestroy, C!Destroy, C!Owned
<1>18. CASE C!usb_destroy
  BY <1>18 DEF C!usb_destroy, C!OtherDestroy, C!Destroy, C!Owned
<1>19. CASE C!bt_destroy
  BY <1>19 DEF C!bt_destroy, C!OtherDestroy, C!Destroy, C!Owned
<1>20. CASE C!blegatt_destroy
  BY <1>20 DEF C!blegatt_destroy, C!OtherDestroy, C!Destroy, C!Owned
<1>21. CASE C!aloe_evb2_destroy
  BY <1>21 DEF C!aloe_evb2_destroy, C!Destroy, C!Owned
<1>22. CASE UNCHANGED C!vars
  BY <1>22 DEF C!vars
<1>. HIDE DEF Names, RInv, C!TypeOK, Held, Reached, Done, TornDown, Sound, C!histVars, C!Services, C!Session
<1>23. CASE C!Start
  BY <1>1, <1>2, <1>3, <1>23, Zenon DEF C!Start
<1>24. CASE C!Callback
  BY <1>6, <1>7, <1>8, <1>9, <1>10, <1>11, <1>12, <1>24, Zenon DEF C!Callback
<1>25. CASE C!Finally
  BY <1>13, <1>14, <1>15, <1>16, <1>17, <1>18, <1>19, <1>20, <1>21, <1>25, Zenon DEF C!Finally
<1>. QED
  BY <1>4, <1>5, <1>22, <1>23, <1>24, <1>25, Zenon DEF C!Next

(* For any number of connections and any order of callbacks no handle       *)
(* outlives what it is for, every destroy of main gets live memory but the  *)
(* pipe's after a failed read, and the end leaves nothing but the Wi-Fi     *)
(* manager, although the console may be freed behind main's pointer.        *)
THEOREM ExitSafe == ASSUME Names PROVE C!Spec => []ExitClean
<1>1. C!Init => RInv
  BY DEF C!Init, RInv, C!TypeOK, Held, Reached, Done, TornDown, Sound, C!Services
<1>2. RInv /\ [C!Next]_(C!vars) => RInv'
  BY ProgramStep
<1>3. RInv => ExitClean
  BY DEF ExitClean, RInv, C!TypeOK, Held, Reached, Done, TornDown, Sound, C!ExitClean, C!Services, C!Session
<1>. QED BY <1>1, <1>2, <1>3, PTL DEF C!Spec

-----------------------------------------------------------------------------
(* The console of tester_ev3.  FlattenSeq is a recursive function and the   *)
(* newlines are enumerated in order: what they give is shown by induction.  *)

(* The running concatenation behind FlattenSeq.                             *)
Flattens(f, q, n) == f = [i \in 1..n |-> IF i = 1 THEN q[i] ELSE f[i - 1] \o q[i]]

(* It exists for any number of sequences.                                  *)
LEMMA FlattensExists ==
  ASSUME NEW q
  PROVE  \A n \in Nat : \E f : Flattens(f, q, n)
<1>. DEFINE T == {n \in Nat : \E f : Flattens(f, q, n)}
<1>1. 0 \in T
  <2>. DEFINE f == [i \in 1..0 |-> q[i]]
  <2>1. Flattens(f, q, 0)
    BY DEF Flattens
  <2>. QED BY <2>1
<1>2. ASSUME NEW n \in Nat, n \in T PROVE n + 1 \in T
  <2>1. PICK f : Flattens(f, q, n)
    BY <1>2
  <2>. DEFINE g == [i \in 1..(n + 1) |-> IF i <= n THEN f[i]
                                        ELSE IF i = 1 THEN q[i] ELSE f[i - 1] \o q[i]]
  <2>2. ASSUME NEW i \in 1..(n + 1)
        PROVE  g[i] = IF i = 1 THEN q[i] ELSE g[i - 1] \o q[i]
    <3>1. CASE i <= n
      <4>1. i \in 1..n /\ (i # 1 => i - 1 \in 1..n)
        BY <3>1
      <4>2. f[i] = IF i = 1 THEN q[i] ELSE f[i - 1] \o q[i]
        BY <2>1, <4>1 DEF Flattens
      <4>. QED BY <4>1, <4>2
    <3>2. CASE ~(i <= n)
      <4>1. i # 1 => i - 1 \in 1..(n + 1) /\ i - 1 <= n
        BY <3>2
      <4>. QED BY <3>2, <4>1
    <3>. QED BY <3>1, <3>2
  <2>3. g = [i \in 1..(n + 1) |-> g[i]]
    OBVIOUS
  <2>. HIDE DEF g
  <2>4. Flattens(g, q, n + 1)
    BY <2>2, <2>3 DEF Flattens
  <2>. QED BY <2>4
<1>. HIDE DEF T
<1>3. \A n \in Nat : n \in T
  BY <1>1, <1>2, Induction
<1>. QED BY <1>3 DEF T

(* There is only one.                                                       *)
LEMMA FlattensUnique ==
  ASSUME NEW q, NEW n \in Nat, NEW f, NEW g, Flattens(f, q, n), Flattens(g, q, n)
  PROVE  f = g
<1>. DEFINE T == {k \in Nat : k \in 1..n => f[k] = g[k]}
<1>1. 0 \in T
  OBVIOUS
<1>2. ASSUME NEW k \in Nat, k \in T PROVE k + 1 \in T
  <2>. SUFFICES ASSUME k + 1 \in 1..n PROVE f[k + 1] = g[k + 1]
    OBVIOUS
  <2>1. CASE k = 0
    BY <2>1 DEF Flattens
  <2>2. CASE k # 0
    <3>1. k \in 1..n /\ f[k] = g[k] /\ (k + 1) - 1 = k /\ k + 1 # 1
      BY <1>2, <2>2
    <3>2. f[k + 1] = f[k] \o q[k + 1] /\ g[k + 1] = g[k] \o q[k + 1]
      BY <3>1 DEF Flattens
    <3>. QED BY <3>1, <3>2
  <2>. QED BY <2>1, <2>2
<1>. HIDE DEF T
<1>3. \A k \in Nat : k \in T
  BY <1>1, <1>2, Induction
<1>4. \A k \in 1..n : f[k] = g[k]
  BY <1>3 DEF T
<1>. QED BY <1>4 DEF Flattens

(* FlattenSeq is where it ends.                                             *)
LEMMA FlattenIs ==
  ASSUME NEW q, NEW f, Len(q) \in Nat \ {0}, Flattens(f, q, Len(q))
  PROVE  L!FlattenSeq(q) = f[Len(q)]
<1>1. PICK g : g = (CHOOSE h : Flattens(h, q, Len(q))) 
  OBVIOUS
<1>2. Flattens(g, q, Len(q))
  BY <1>1
<1>3. L!FlattenSeq(q) = g[Len(q)]
  BY <1>1 DEF L!FlattenSeq, Flattens
<1>. QED BY <1>2, <1>3, FlattensUnique

(* The concatenation of no sequence.                                        *)
LEMMA FlattenEmpty == L!FlattenSeq(<<>>) = <<>>
<1>1. Len(<<>>) = 0
  OBVIOUS
<1>. QED BY <1>1 DEF L!FlattenSeq

(* One more sequence is concatenated at the end.                            *)
LEMMA FlattenAppend ==
  ASSUME NEW W, NEW q \in Seq(Seq(W)), NEW x \in Seq(W)
  PROVE  L!FlattenSeq(Append(q, x)) = L!FlattenSeq(q) \o x
<1>. DEFINE r == Append(q, x)
            n == Len(q)
<1>1. /\ n \in Nat /\ r \in Seq(Seq(W)) /\ Len(r) = n + 1 /\ r[n + 1] = x
      /\ \A i \in 1..n : r[i] = q[i]
  BY AppendProperties
<1>. HIDE DEF r, n
<1>2. PICK f : Flattens(f, r, n + 1)
  <2>1. n + 1 \in Nat
    BY <1>1
  <2>. QED BY <2>1, FlattensExists
<1>3. L!FlattenSeq(r) = f[n + 1]
  BY <1>1, <1>2, FlattenIs
<1>4. CASE n = 0
  <2>1. q = <<>>
    BY <1>4, EmptySeq DEF n
  <2>2. f[n + 1] = x
    BY <1>1, <1>2, <1>4 DEF Flattens
  <2>. QED BY <1>3, <2>1, <2>2, FlattenEmpty, ConcatEmptySeq DEF r
<1>5. CASE n # 0
  <2>. DEFINE g == [i \in 1..n |-> f[i]]
  <2>1. ASSUME NEW i \in 1..n PROVE g[i] = IF i = 1 THEN q[i] ELSE g[i - 1] \o q[i]
    <3>1. i \in 1..(n + 1) /\ (i # 1 => i - 1 \in 1..n)
      BY <1>1
    <3>2. f[i] = IF i = 1 THEN r[i] ELSE f[i - 1] \o r[i]
      BY <1>2, <3>1 DEF Flattens
    <3>. QED BY <1>1, <3>1, <3>2
  <2>2. g = [i \in 1..n |-> g[i]] /\ g[n] = f[n]
    BY <1>1, <1>5
  <2>. HIDE DEF g
  <2>3. Flattens(g, q, n)
    BY <2>1, <2>2 DEF Flattens
  <2>4. L!FlattenSeq(q) = f[n]
    BY <1>1, <1>5, <2>2, <2>3, FlattenIs DEF n
  <2>5. f[n + 1] = f[n] \o x
    <3>1. n + 1 \in 1..(n + 1) /\ n + 1 # 1 /\ (n + 1) - 1 = n
      BY <1>1, <1>5
    <3>. QED BY <1>1, <1>2, <3>1 DEF Flattens
  <2>. QED BY <1>3, <2>4, <2>5 DEF r
<1>. QED BY <1>4, <1>5

(* The concatenation of sequences over W is one.                            *)
LEMMA FlattenType ==
  ASSUME NEW W, NEW q \in Seq(Seq(W))
  PROVE  L!FlattenSeq(q) \in Seq(W)
<1>. DEFINE T == {n \in Nat : \A s \in Seq(Seq(W)) : Len(s) = n => L!FlattenSeq(s) \in Seq(W)}
<1>1. 0 \in T
  <2>1. ASSUME NEW s \in Seq(Seq(W)), Len(s) = 0 PROVE L!FlattenSeq(s) \in Seq(W)
    <3>1. s = <<>>
      BY <2>1, EmptySeq
    <3>. QED BY <3>1, FlattenEmpty, EmptySeq
  <2>. QED BY <2>1
<1>2. ASSUME NEW n \in Nat, n \in T PROVE n + 1 \in T
  <2>1. ASSUME NEW s \in Seq(Seq(W)), Len(s) = n + 1 PROVE L!FlattenSeq(s) \in Seq(W)
    <3>1. PICK t \in Seq(Seq(W)), x \in Seq(W) : s = Append(t, x)
      <4>1. s # <<>>
        BY <2>1, EmptySeq
      <4>. QED BY <4>1, SequenceEmptyOrAppend
    <3>2. Len(t) = n
      <4>1. Len(s) = Len(t) + 1 /\ Len(t) \in Nat
        BY <3>1, AppendProperties
      <4>. QED BY <2>1, <4>1
    <3>3. L!FlattenSeq(t) \in Seq(W)
      BY <1>2, <3>2
    <3>. QED BY <3>1, <3>3, FlattenAppend, ConcatProperties
  <2>. QED BY <2>1
<1>. HIDE DEF T
<1>3. \A n \in Nat : n \in T
  BY <1>1, <1>2, Induction
<1>. QED BY <1>3 DEF T

(* Concatenating in two parts.                                              *)
LEMMA FlattenConcat ==
  ASSUME NEW W, NEW p \in Seq(Seq(W)), NEW q \in Seq(Seq(W))
  PROVE  L!FlattenSeq(p \o q) = L!FlattenSeq(p) \o L!FlattenSeq(q)
<1>. DEFINE T == {n \in Nat : \A s \in Seq(Seq(W)) : Len(s) = n =>
                     L!FlattenSeq(p \o s) = L!FlattenSeq(p) \o L!FlattenSeq(s)}
<1>0. L!FlattenSeq(p) \in Seq(W)
  BY FlattenType
<1>1. 0 \in T
  <2>1. ASSUME NEW s \in Seq(Seq(W)), Len(s) = 0
        PROVE  L!FlattenSeq(p \o s) = L!FlattenSeq(p) \o L!FlattenSeq(s)
    <3>1. s = <<>>
      BY <2>1, EmptySeq
    <3>2. p \o <<>> = p
      BY ConcatEmptySeq
    <3>3. L!FlattenSeq(p) \o <<>> = L!FlattenSeq(p)
      BY <1>0, ConcatEmptySeq
    <3>. QED BY <3>1, <3>2, <3>3, FlattenEmpty
  <2>. QED BY <2>1
<1>2. ASSUME NEW n \in Nat, n \in T PROVE n + 1 \in T
  <2>1. ASSUME NEW s \in Seq(Seq(W)), Len(s) = n + 1
        PROVE  L!FlattenSeq(p \o s) = L!FlattenSeq(p) \o L!FlattenSeq(s)
    <3>1. PICK t \in Seq(Seq(W)), x \in Seq(W) : s = Append(t, x)
      <4>1. s # <<>>
        BY <2>1, EmptySeq
      <4>. QED BY <4>1, SequenceEmptyOrAppend
    <3>2. Len(t) = n
      <4>1. Len(s) = Len(t) + 1 /\ Len(t) \in Nat
        BY <3>1, AppendProperties
      <4>. QED BY <2>1, <4>1
    <3>3. L!FlattenSeq(p \o t) = L!FlattenSeq(p) \o L!FlattenSeq(t)
      BY <1>2, <3>2
    <3>4. p \o s = Append(p \o t, x)
      <4>1. <<x>> \in Seq(Seq(W))
        OBVIOUS
      <4>2. s = t \o <<x>>
        BY <3>1, AppendIsConcat
      <4>3. p \o s = (p \o t) \o <<x>>
        BY <4>1, <4>2, ConcatAssociative
      <4>4. p \o t \in Seq(Seq(W))
        BY ConcatProperties
      <4>. QED BY <4>3, <4>4, AppendIsConcat
    <3>5. L!FlattenSeq(p \o s) = L!FlattenSeq(p \o t) \o x
      <4>1. p \o t \in Seq(Seq(W))
        BY ConcatProperties
      <4>. QED BY <3>4, <4>1, FlattenAppend
    <3>6. L!FlattenSeq(s) = L!FlattenSeq(t) \o x
      BY <3>1, FlattenAppend
    <3>7. L!FlattenSeq(t) \in Seq(W)
      BY FlattenType
    <3>8. (L!FlattenSeq(p) \o L!FlattenSeq(t)) \o x = L!FlattenSeq(p) \o (L!FlattenSeq(t) \o x)
      BY <1>0, <3>7, ConcatAssociative, SMTT(40)
    <3>. QED BY <3>3, <3>5, <3>6, <3>8
  <2>. QED BY <2>1
<1>. HIDE DEF T
<1>3. \A n \in Nat : n \in T
  BY <1>1, <1>2, Induction
<1>. QED BY <1>3 DEF T

(* A bounded set of numbers can be put in order.                            *)
LEMMA AscendingExists ==
  \A n \in Nat : \A W \in SUBSET (1..n) :
    \E s \in [1..Cardinality(W) -> W] : \A i, j \in 1..Cardinality(W) : i < j => s[i] < s[j]
<1>. DEFINE Ordered(s, W) == \A i, j \in 1..Cardinality(W) : i < j => s[i] < s[j]
            T == {n \in Nat : \A W \in SUBSET (1..n) : \E s \in [1..Cardinality(W) -> W] : Ordered(s, W)}
<1>1. 0 \in T
  <2>1. ASSUME NEW W \in SUBSET (1..0) PROVE \E s \in [1..Cardinality(W) -> W] : Ordered(s, W)
    <3>1. W = {} /\ Cardinality(W) = 0
      <4>1. W = {}
        OBVIOUS
      <4>. QED BY <4>1, FS_EmptySet
    <3>2. <<>> \in [1..0 -> {}]
      OBVIOUS
    <3>. QED BY <3>1, <3>2
  <2>. QED BY <2>1
<1>2. ASSUME NEW n \in Nat, n \in T PROVE n + 1 \in T
  <2>1. ASSUME NEW W \in SUBSET (1..(n + 1)) PROVE \E s \in [1..Cardinality(W) -> W] : Ordered(s, W)
    <3>. DEFINE P == W \ {n + 1}
    <3>1. P \in SUBSET (1..n) /\ IsFiniteSet(W)
      <4>1. IsFiniteSet(1..(n + 1))
        BY FS_Interval
      <4>2. IsFiniteSet(W)
        BY <4>1, FS_Subset
      <4>. QED BY <4>2
    <3>2. Cardinality(P) = (IF n + 1 \in W THEN Cardinality(W) - 1 ELSE Cardinality(W))
      BY <3>1, FS_RemoveElement
    <3>3. Cardinality(W) \in Nat
      BY <3>1, FS_CardinalityType
    <3>4. PICK r \in [1..Cardinality(P) -> P] : Ordered(r, P)
      BY <1>2, <3>1
    <3>5. CASE n + 1 \notin W
      <4>1. P = W
        BY <3>5
      <4>. QED BY <3>4, <4>1
    <3>6. CASE n + 1 \in W
      <4>1. PICK m \in Nat : m = Cardinality(P) /\ Cardinality(W) = m + 1
        <5>1. IsFiniteSet(P)
          BY <3>1, FS_RemoveElement
        <5>2. Cardinality(P) \in Nat
          BY <5>1, FS_CardinalityType
        <5>. QED BY <3>2, <3>3, <3>6, <5>2
      <4>2. r \in [1..m -> P] /\ \A i, j \in 1..m : i < j => r[i] < r[j]
        BY <3>4, <4>1
      <4>b. \A x \in P : x \in W /\ x \in 1..n
        BY <3>1
      <4>. HIDE DEF P
      <4>r. \A i \in 1..m : r[i] \in W /\ r[i] \in 1..n
        BY <4>2, <4>b
      <4>. DEFINE s == [i \in 1..(m + 1) |-> IF i <= m THEN r[i] ELSE n + 1]
      <4>3. s \in [1..(m + 1) -> W]
        BY <3>6, <4>r
      <4>4. ASSUME NEW i \in 1..(m + 1), NEW j \in 1..(m + 1), i < j PROVE s[i] < s[j]
        <5>1. i \in 1..m /\ s[i] = r[i] /\ r[i] \in 1..n
          BY <4>4, <4>r
        <5>2. CASE j <= m
          <6>1. j \in 1..m /\ s[j] = r[j]
            BY <5>2
          <6>. QED BY <4>2, <4>4, <5>1, <6>1
        <5>3. CASE ~(j <= m)
          BY <5>1, <5>3
        <5>. QED BY <5>2, <5>3
      <4>. HIDE DEF s
      <4>5. Ordered(s, W)
        BY <4>1, <4>4
      <4>. QED BY <4>1, <4>3, <4>5
    <3>. QED BY <3>5, <3>6
  <2>. QED BY <2>1
<1>. HIDE DEF T
<1>3. \A n \in Nat : n \in T
  BY <1>1, <1>2, Induction
<1>. QED BY <1>3 DEF T

(* Ascending lists the whole set in order.                                  *)
LEMMA AscendingProp ==
  ASSUME NEW n \in Nat, NEW W \in SUBSET (1..n)
  PROVE  /\ Cardinality(W) \in Nat
         /\ L!Ascending(W) \in [1..Cardinality(W) -> W]
         /\ \A i, j \in 1..Cardinality(W) : i < j => L!Ascending(W)[i] < L!Ascending(W)[j]
         /\ \A x \in W : \E i \in 1..Cardinality(W) : L!Ascending(W)[i] = x
<1>. DEFINE m == Cardinality(W)
            s == L!Ascending(W)
<1>1. IsFiniteSet(W) /\ m \in Nat
  <2>1. IsFiniteSet(1..n)
    BY FS_Interval
  <2>2. IsFiniteSet(W)
    BY <2>1, FS_Subset
  <2>. QED BY <2>2, FS_CardinalityType
<1>2. s \in [1..m -> W] /\ \A i, j \in 1..m : i < j => s[i] < s[j]
  <2>1. L!Cardinality(W) = m
    BY DEF L!Cardinality, Cardinality
  <2>2. \E t \in [1..m -> W] : \A i, j \in 1..m : i < j => t[i] < t[j]
    BY AscendingExists
  <2>3. s = CHOOSE t \in [1..m -> W] : \A i, j \in 1..m : i < j => t[i] < t[j]
    BY <2>1 DEF L!Ascending
  <2>. QED BY <2>2, <2>3
<1>. HIDE DEF s, m
<1>3. s \in Injection(1..m, W)
  <2>1. ASSUME NEW i \in 1..m, NEW j \in 1..m, s[i] = s[j] PROVE i = j
    <3>0. \A x \in W : x \in Int
      OBVIOUS
    <3>1. s[i] \in Int /\ s[j] \in Int
      BY <1>2, <3>0
    <3>2. ~(i < j) /\ ~(j < i)
      BY <1>2, <2>1, <3>1
    <3>. QED BY <1>1, <3>2
  <2>. QED BY <1>2, <2>1 DEF Injection, IsInjective
<1>4. Cardinality(1..m) = m
  BY <1>1, FS_Interval
<1>5. s \in Surjection(1..m, W)
  BY <1>1, <1>3, <1>4, FS_Injection DEF m
<1>6. \A x \in W : \E i \in 1..m : s[i] = x
  BY <1>5 DEF Surjection
<1>. QED BY <1>1, <1>2, <1>6 DEF s, m

(* What one call of cli_input makes of its buffer, when the part that is    *)
(* not searched again has no newline: the lines and the rest make up the    *)
(* buffer, and every newline ends a line.                                   *)
CutExact(W, bytes, cut) ==
  /\ cut.lines \in Seq(Seq(W)) /\ cut.rest \in Seq(W) /\ Len(cut.rest) <= Len(bytes)
  /\ L!FlattenSeq(cut.lines) \o cut.rest = bytes
  /\ \A i \in 1..Len(cut.rest) : cut.rest[i] # LF
  /\ \A k \in 1..Len(cut.lines) :
       /\ Len(cut.lines[k]) \in Nat /\ cut.lines[k][Len(cut.lines[k])] = LF
       /\ \A i \in 1..Len(cut.lines[k]) - 1 : cut.lines[k][i] # LF

(* cli_input cuts every buffer exactly.                                     *)
LEMMA CutProp ==
  ASSUME NEW W, NEW bytes \in Seq(W), NEW from \in 0..Len(bytes), \A i \in 1..from : bytes[i] # LF
  PROVE  CutExact(W, bytes, L!Cut(bytes, L!Newlines(bytes, from)))
<1>. DEFINE found == {i \in from + 1..Len(bytes) : bytes[i] = LF}
<1>1. /\ Len(bytes) \in Nat /\ found \in SUBSET (1..Len(bytes))
      /\ \A i \in 1..Len(bytes) : i \in found <=> bytes[i] = LF
  OBVIOUS
<1>. HIDE DEF found
<1>2. PICK N \in Nat : N = Len(bytes)
  BY <1>1
<1>3. PICK nl : nl = L!Newlines(bytes, from)
  OBVIOUS
<1>4. PICK m \in Nat : /\ nl \in [1..m -> found]
                       /\ \A i, j \in 1..m : i < j => nl[i] < nl[j]
                       /\ \A x \in found : \E i \in 1..m : nl[i] = x
  <2>1. nl = L!Ascending(found)
    BY <1>3 DEF L!Newlines, found
  <2>2. PICK k \in Nat : k = Cardinality(found)
    BY <1>1, AscendingProp
  <2>3. nl \in [1..k -> found]
    BY <1>1, <2>1, <2>2, AscendingProp
  <2>4. \A i, j \in 1..k : i < j => nl[i] < nl[j]
    BY <1>1, <2>1, <2>2, AscendingProp
  <2>5. \A x \in found : \E i \in 1..k : nl[i] = x
    BY <1>1, <2>1, <2>2, AscendingProp
  <2>. QED BY <2>3, <2>4, <2>5
<1>5. \A k \in 1..m : nl[k] \in 1..N /\ bytes[nl[k]] = LF
  BY <1>1, <1>2, <1>4
<1>6. \A i \in 1..N : bytes[i] = LF => \E k \in 1..m : nl[k] = i
  BY <1>1, <1>2, <1>4
<1>7. nl \in Seq(found) /\ Len(nl) = m /\ DOMAIN nl = 1..m
  BY <1>4
<1>. DEFINE Start(k) == IF k = 1 THEN 1 ELSE nl[k - 1] + 1
            lines == [k \in 1..m |-> SubSeq(bytes, Start(k), nl[k])]
            rest == IF m = 0 THEN bytes ELSE SubSeq(bytes, nl[m] + 1, Len(bytes))
<1>8. L!Cut(bytes, nl) = [lines |-> lines, rest |-> rest]
  <2>1. nl = <<>> <=> m = 0
    BY <1>7, EmptySeq
  <2>2. L!Last(nl) = nl[m]
    BY <1>7 DEF L!Last
  <2>. QED BY <1>7, <2>1, <2>2 DEF L!Cut
<1>9. ASSUME NEW k \in 1..m
      PROVE  /\ Start(k) \in 1..nl[k] /\ nl[k] \in 1..N
             /\ \A p \in Start(k)..nl[k] - 1 : bytes[p] # LF
  <2>1. nl[k] \in 1..N
    BY <1>5
  <2>2. CASE k = 1
    <3>1. ASSUME NEW p \in 1..nl[k] - 1, bytes[p] = LF PROVE FALSE
      <4>1. PICK q \in 1..m : nl[q] = p
        BY <1>6, <2>1, <3>1
      <4>2. ~(nl[k] <= nl[q]) /\ nl[q] \in 1..N
        BY <2>1, <3>1, <4>1
      <4>3. q = k \/ k < q
        BY <2>2
      <4>. QED BY <1>4, <2>1, <4>2, <4>3
    <3>. QED BY <2>1, <2>2, <3>1
  <2>3. CASE k # 1
    <3>0. k - 1 \in 1..m /\ k - 1 < k /\ nl[k - 1] \in 1..N
      BY <1>5, <2>3
    <3>1. nl[k - 1] < nl[k]
      BY <1>4, <3>0
    <3>2. ASSUME NEW p \in nl[k - 1] + 1..nl[k] - 1, bytes[p] = LF PROVE FALSE
      <4>0. p \in 1..N
        BY <2>1, <3>0
      <4>1. PICK q \in 1..m : nl[q] = p
        BY <1>6, <3>2, <4>0
      <4>2. nl[q] \in 1..N /\ nl[q] < nl[k] /\ nl[k - 1] < nl[q]
        BY <2>1, <3>0, <4>0, <4>1
      <4>3. ~(k < q) /\ q # k /\ ~(q < k - 1) /\ q # k - 1
        BY <1>4, <2>1, <3>0, <4>2
      <4>. QED BY <3>0, <4>3
    <3>. QED BY <2>1, <2>3, <3>0, <3>1, <3>2
  <2>. QED BY <2>2, <2>3
<1>10. ASSUME NEW k \in 1..m
       PROVE  /\ lines[k] = SubSeq(bytes, Start(k), nl[k])
              /\ lines[k] \in Seq(W) /\ Len(lines[k]) = nl[k] - Start(k) + 1
              /\ \A i \in 1..Len(lines[k]) : lines[k][i] = bytes[Start(k) + i - 1]
  <2>1. PICK a \in Int, b \in Int : a = Start(k) /\ b = nl[k] /\ a \in 1..b /\ b \in 1..N
    BY <1>9
  <2>2. \A i \in a..b : bytes[i] \in W
    BY <1>2, <2>1
  <2>3. /\ SubSeq(bytes, a, b) \in Seq(W) /\ Len(SubSeq(bytes, a, b)) = IF a <= b THEN b - a + 1 ELSE 0
        /\ \A i \in 1..b - a + 1 : SubSeq(bytes, a, b)[i] = bytes[a + i - 1]
    BY <2>2, SubSeqProperties
  <2>4. a <= b
    BY <2>1
  <2>5. lines[k] = SubSeq(bytes, a, b)
    BY <2>1
  <2>. HIDE DEF lines, Start
  <2>. QED BY <2>1, <2>3, <2>4, <2>5
<1>11. ASSUME NEW k \in 1..m
       PROVE  /\ Len(lines[k]) \in Nat /\ lines[k][Len(lines[k])] = LF
              /\ \A i \in 1..Len(lines[k]) - 1 : lines[k][i] # LF
  <2>. HIDE DEF lines
  <2>1. PICK a \in Int, b \in Int : a = Start(k) /\ b = nl[k] /\ a \in 1..b /\ b \in 1..N
    BY <1>9
  <2>2. bytes[b] = LF /\ \A p \in a..b - 1 : bytes[p] # LF
    BY <1>5, <1>9, <2>1
  <2>. HIDE DEF Start
  <2>3. PICK n \in Int : n = Len(lines[k]) /\ n = b - a + 1
    <3>1. Len(lines[k]) = nl[k] - Start(k) + 1
      BY <1>10
    <3>2. b - a + 1 \in Int /\ Len(lines[k]) = b - a + 1
      BY <2>1, <3>1
    <3>. QED BY <3>2
  <2>4. \A i \in 1..n : lines[k][i] = bytes[a + i - 1]
    BY <1>10, <2>1, <2>3
  <2>5. n \in 1..n /\ a + n - 1 = b
    BY <2>1, <2>3
  <2>6. lines[k][n] = LF
    BY <2>2, <2>4, <2>5
  <2>7. ASSUME NEW i \in 1..n - 1 PROVE lines[k][i] # LF
    <3>0. n = b - a + 1
      BY <2>3
    <3>1. i \in 1..n /\ a + i - 1 \in a..b - 1
      BY <3>0
    <3>. QED BY <2>2, <2>4, <3>1
  <2>. QED BY <2>3, <2>5, <2>6, <2>7
<1>12. lines \in Seq(Seq(W)) /\ Len(lines) = m
  <2>1. lines \in [1..m -> Seq(W)]
    BY <1>10
  <2>. QED BY <2>1
<1>13. ASSUME NEW n \in Nat, n \in 1..m
       PROVE  L!FlattenSeq(SubSeq(lines, 1, n)) = SubSeq(bytes, 1, nl[n])
  <2>. DEFINE T == {k \in Nat : k \in 1..m => L!FlattenSeq(SubSeq(lines, 1, k)) = SubSeq(bytes, 1, nl[k])}
  <2>. HIDE DEF lines
  <2>1. 0 \in T
    OBVIOUS
  <2>2. ASSUME NEW k \in Nat, k \in T PROVE k + 1 \in T
    <3>. SUFFICES ASSUME k + 1 \in 1..m
                  PROVE  L!FlattenSeq(SubSeq(lines, 1, k + 1)) = SubSeq(bytes, 1, nl[k + 1])
      OBVIOUS
    <3>1. PICK x \in Seq(W) : x = lines[k + 1] /\ x = SubSeq(bytes, Start(k + 1), nl[k + 1])
      BY <1>10
    <3>2. PICK b \in Int : b = nl[k + 1] /\ b \in 1..N
      BY <1>9
    <3>3. CASE k = 0
      <4>0. k + 1 = 1
        BY <3>3
      <4>1. SubSeq(lines, 1, 1) = Append(<<>>, x)
        <5>1. 1 \in 1..Len(lines)
          BY <1>12, <3>3
        <5>2. SubSeq(lines, 1, 1) = SubSeq(lines, 1, 0) \o <<lines[1]>>
          <6>1. 1 \in 1..Len(lines) /\ 1 - 1 = 0
            BY <5>1
          <6>. QED BY <1>12, <6>1, SubSeqRecursiveSecond
        <5>3. SubSeq(lines, 1, 0) = <<>>
          BY SubSeqEmpty
        <5>4. lines[1] = x
          BY <3>1, <4>0
        <5>5. <<>> \in Seq(Seq(W))
          BY EmptySeq
        <5>. QED BY <5>2, <5>3, <5>4, <5>5, AppendIsConcat
      <4>2. L!FlattenSeq(Append(<<>>, x)) = <<>> \o x
        <5>1. <<>> \in Seq(Seq(W))
          BY EmptySeq
        <5>. QED BY <5>1, FlattenAppend, FlattenEmpty
      <4>3. <<>> \o x = x
        BY ConcatEmptySeq
      <4>4. x = SubSeq(bytes, 1, nl[1])
        BY <3>1, <4>0
      <4>5. L!FlattenSeq(SubSeq(lines, 1, 1)) = SubSeq(bytes, 1, nl[1])
        BY <4>1, <4>2, <4>3, <4>4
      <4>. QED BY <4>0, <4>5
    <3>4. CASE k # 0
      <4>1. k \in 1..m /\ (k + 1) - 1 = k /\ k + 1 # 1 /\ k + 1 \in 1..Len(lines)
        BY <1>12, <3>4
      <4>2. PICK a \in Int : a = nl[k] /\ a \in 1..N /\ a < b
        <5>1. nl[k] \in 1..N
          BY <1>5, <4>1
        <5>2. nl[k] < nl[k + 1]
          BY <1>4, <4>1
        <5>. QED BY <3>2, <5>1, <5>2
      <4>3. L!FlattenSeq(SubSeq(lines, 1, k)) = SubSeq(bytes, 1, a)
        BY <2>2, <4>1, <4>2
      <4>4. x = SubSeq(bytes, a + 1, b)
        BY <3>1, <3>2, <4>1, <4>2
      <4>5. SubSeq(lines, 1, k + 1) = SubSeq(lines, 1, k) \o <<x>>
        <5>1. 1 \in 1..Len(lines) /\ k + 1 \in 1..Len(lines)
          BY <4>1, <1>12
        <5>. QED BY <1>12, <3>1, <4>1, <5>1, SubSeqRecursiveSecond
      <4>6. SubSeq(lines, 1, k) \in Seq(Seq(W))
        <5>1. \A i \in 1..k : lines[i] \in Seq(W)
          BY <1>10, <4>1
        <5>. QED BY <5>1, SubSeqProperties
      <4>7. L!FlattenSeq(SubSeq(lines, 1, k + 1)) = SubSeq(bytes, 1, a) \o SubSeq(bytes, a + 1, b)
        <5>1. SubSeq(lines, 1, k + 1) = Append(SubSeq(lines, 1, k), x)
          BY <4>5, <4>6, AppendIsConcat
        <5>. QED BY <4>3, <4>4, <4>6, <5>1, FlattenAppend
      <4>8. SubSeq(bytes, 1, a) \o SubSeq(bytes, a + 1, b) = SubSeq(bytes, 1, b)
        <5>1. 1 \in 1..Len(bytes) + 1 /\ a \in 1 - 1..Len(bytes) /\ b \in a..Len(bytes)
          BY <1>2, <3>2, <4>2
        <5>. QED BY <5>1, ConcatAdjacentSubSeq
      <4>. QED BY <3>2, <4>7, <4>8
    <3>. QED BY <3>3, <3>4
  <2>. HIDE DEF T
  <2>3. \A k \in Nat : k \in T
    BY <2>1, <2>2, Induction
  <2>. QED BY <1>13, <2>3 DEF T
<1>14. /\ rest \in Seq(W) /\ Len(rest) <= Len(bytes) /\ L!FlattenSeq(lines) \o rest = bytes
       /\ \A i \in 1..Len(rest) : rest[i] # LF
  <2>. HIDE DEF lines
  <2>1. CASE m = 0
    <3>1. lines = <<>> /\ rest = bytes
      BY <1>12, <2>1, EmptySeq
    <3>2. <<>> \o bytes = bytes
      BY ConcatEmptySeq
    <3>3. \A i \in 1..N : bytes[i] # LF
      BY <1>6, <2>1
    <3>4. L!FlattenSeq(lines) \o rest = bytes
      BY <3>1, <3>2, FlattenEmpty
    <3>. HIDE DEF rest
    <3>5. rest \in Seq(W) /\ Len(rest) = N /\ \A i \in 1..N : rest[i] # LF
      BY <1>2, <3>1, <3>3
    <3>. QED BY <1>2, <3>4, <3>5
  <2>2. CASE m # 0
    <3>1. PICK b \in Int : b = nl[m] /\ b \in 1..N /\ rest = SubSeq(bytes, b + 1, N)
      <4>1. m \in 1..m
        BY <2>2
      <4>2. nl[m] \in 1..N /\ nl[m] \in Int
        BY <1>5, <4>1
      <4>3. rest = SubSeq(bytes, nl[m] + 1, N)
        BY <1>2, <2>2
      <4>. QED BY <4>2, <4>3
    <3>2. L!FlattenSeq(lines) = SubSeq(bytes, 1, b)
      <4>1. SubSeq(lines, 1, m) = lines
        BY <1>12, SubSeqFull
      <4>2. m \in 1..m
        BY <2>2
      <4>3. L!FlattenSeq(SubSeq(lines, 1, m)) = SubSeq(bytes, 1, nl[m])
        BY <1>13, <4>2
      <4>. QED BY <3>1, <4>1, <4>3
    <3>3. SubSeq(bytes, 1, b) \o SubSeq(bytes, b + 1, N) = SubSeq(bytes, 1, N)
      <4>1. 1 \in 1..Len(bytes) + 1 /\ b \in 1 - 1..Len(bytes) /\ N \in b..Len(bytes)
        BY <1>2, <3>1
      <4>. QED BY <4>1, ConcatAdjacentSubSeq
    <3>4. SubSeq(bytes, 1, N) = bytes
      BY <1>2, SubSeqFull
    <3>5. /\ rest \in Seq(W) /\ Len(rest) = (IF b + 1 <= N THEN N - (b + 1) + 1 ELSE 0)
          /\ \A i \in 1..N - (b + 1) + 1 : rest[i] = bytes[b + 1 + i - 1]
      <4>1. \A i \in b + 1..N : bytes[i] \in W
        BY <1>2, <3>1
      <4>2. PICK c \in Int : c = b + 1
        OBVIOUS
      <4>3. N \in Int /\ \A i \in c..N : bytes[i] \in W
        BY <4>1, <4>2
      <4>4. /\ SubSeq(bytes, c, N) \in Seq(W)
            /\ Len(SubSeq(bytes, c, N)) = IF c <= N THEN N - c + 1 ELSE 0
            /\ \A i \in 1..N - c + 1 : SubSeq(bytes, c, N)[i] = bytes[c + i - 1]
        BY <4>3, SubSeqProperties
      <4>. QED BY <3>1, <4>2, <4>4
    <3>6. ASSUME NEW p \in b + 1..N, bytes[p] = LF PROVE FALSE
      <4>0. p \in 1..N
        BY <3>1
      <4>1. PICK q \in 1..m : nl[q] = p
        BY <1>6, <3>6, <4>0
      <4>2. m \in 1..m /\ (q = m \/ q < m)
        BY <2>2
      <4>3. nl[q] <= b
        <5>1. CASE q = m
          BY <3>1, <5>1
        <5>2. CASE q < m
          <6>1. nl[q] < nl[m]
            BY <1>4, <4>2, <5>2
          <6>. QED BY <3>1, <4>0, <4>1, <6>1
        <5>. QED BY <4>2, <5>1, <5>2
      <4>. QED BY <3>1, <4>1, <4>3
    <3>. HIDE DEF rest
    <3>7. ASSUME NEW i \in 1..Len(rest) PROVE rest[i] # LF
      <4>0. i \in 1..(IF b + 1 <= N THEN N - (b + 1) + 1 ELSE 0)
        BY <3>5
      <4>1. i \in 1..N - (b + 1) + 1 /\ b + 1 + i - 1 \in b + 1..N
        BY <4>0
      <4>. QED BY <3>5, <3>6, <4>1
    <3>8. Len(rest) <= Len(bytes)
      BY <1>2, <3>1, <3>5
    <3>9. L!FlattenSeq(lines) \o rest = bytes
      BY <3>1, <3>2, <3>3, <3>4
    <3>. QED BY <3>5, <3>7, <3>8, <3>9
  <2>. QED BY <2>1, <2>2
<1>. HIDE DEF lines, rest, Start
<1>15. CutExact(W, bytes, [lines |-> lines, rest |-> rest])
  BY <1>11, <1>12, <1>14 DEF CutExact
<1>. QED BY <1>3, <1>8, <1>15

(* The buffer has room and a read returns a number of characters.           *)
Console == Cap \in Nat \ {0} /\ ReadMax \in Nat

LInv ==
  /\ line_fb \in Seq(L!Symbol) /\ Len(line_fb) < Cap /\ up \in BOOLEAN /\ l_quit \in BOOLEAN
  /\ typed \in Seq(L!Symbol) /\ run \in Seq(Seq(L!Symbol))
  /\ L!FlattenSeq(run) \o line_fb = typed
  /\ \A i \in 1..Len(line_fb) : line_fb[i] # LF
  /\ \A k \in 1..Len(run) : /\ run[k][Len(run[k])] = LF
                            /\ \A i \in 1..Len(run[k]) - 1 : run[k][i] # LF

(* A chunk of input, whether it fits or not.                                *)
LEMMA InputKept ==
  ASSUME Console, LInv, NEW data \in L!Chunk, L!cli_input(data), UNCHANGED up
  PROVE  LInv'
<1>. DEFINE W == L!Symbol
            bytes == line_fb \o data
            cut == L!Cut(bytes, L!Newlines(bytes, Len(line_fb)))
<1>1. data \in Seq(W)
  <2>1. PICK n \in 1..ReadMax : data \in [1..n -> W]
    BY DEF L!Chunk
  <2>2. n \in Nat
    BY DEF Console
  <2>. QED BY <2>1, <2>2
<1>. HIDE DEF W
<1>2. line_fb \in Seq(W) /\ typed \in Seq(W) /\ run \in Seq(Seq(W))
  BY DEF LInv, W
<1>3. /\ bytes \in Seq(W) /\ Len(bytes) = Len(line_fb) + Len(data)
      /\ \A i \in 1..Len(line_fb) : bytes[i] = line_fb[i]
  <2>1. /\ bytes \in Seq(W) /\ Len(bytes) = Len(line_fb) + Len(data)
        /\ \A i \in 1..Len(line_fb) + Len(data) :
             bytes[i] = IF i <= Len(line_fb) THEN line_fb[i] ELSE data[i - Len(line_fb)]
    BY <1>1, <1>2, ConcatProperties
  <2>2. Len(line_fb) \in Nat /\ Len(data) \in Nat
    BY <1>1, <1>2
  <2>. HIDE DEF bytes
  <2>. QED BY <2>1, <2>2
<1>4. CASE Len(bytes) >= Cap
  <2>1. line_fb' = <<>> /\ typed' = <<>> /\ run' = <<>>
    BY <1>4 DEF L!cli_input
  <2>2. /\ <<>> \in Seq(L!Symbol) /\ <<>> \in Seq(Seq(L!Symbol)) /\ Len(<<>>) = 0 /\ 0 < Cap
    BY EmptySeq DEF Console
  <2>3. L!FlattenSeq(<<>>) \o <<>> = <<>>
    BY <2>2, FlattenEmpty, ConcatEmptySeq
  <2>4. up' \in BOOLEAN /\ l_quit' \in BOOLEAN
    BY <1>4 DEF L!cli_input, LInv
  <2>. QED BY <2>1, <2>2, <2>3, <2>4 DEF LInv
<1>5. CASE ~(Len(bytes) >= Cap)
  <2>1. line_fb' = cut.rest /\ typed' = typed \o data /\ run' = run \o cut.lines
    BY <1>5 DEF L!cli_input
  <2>2. CutExact(W, bytes, cut)
    <3>1. Len(line_fb) \in 0..Len(bytes) /\ \A i \in 1..Len(line_fb) : bytes[i] # LF
      <4>1. Len(line_fb) \in Nat /\ Len(data) \in Nat
        BY <1>1, <1>2
      <4>2. Len(line_fb) \in 0..Len(bytes)
        BY <1>3, <4>1
      <4>. HIDE DEF bytes
      <4>. QED BY <1>3, <4>2 DEF LInv
    <3>. HIDE DEF bytes
    <3>. QED BY <1>3, <3>1, CutProp
  <2>. HIDE DEF bytes, cut
  <2>3. PICK lines, rest : /\ lines = cut.lines /\ rest = cut.rest
                           /\ lines \in Seq(Seq(W)) /\ rest \in Seq(W) /\ Len(rest) <= Len(bytes)
                           /\ L!FlattenSeq(lines) \o rest = bytes
                           /\ \A i \in 1..Len(rest) : rest[i] # LF
                           /\ \A k \in 1..Len(lines) :
                                /\ Len(lines[k]) \in Nat /\ lines[k][Len(lines[k])] = LF
                                /\ \A i \in 1..Len(lines[k]) - 1 : lines[k][i] # LF
    BY <2>2 DEF CutExact
  <2>4. line_fb' = rest /\ run' = run \o lines
    BY <2>1, <2>3
  <2>5. typed' \in Seq(W)
    BY <1>1, <1>2, <2>1, ConcatProperties
  <2>6. /\ run' \in Seq(Seq(W)) /\ Len(run') = Len(run) + Len(lines)
        /\ \A k \in 1..Len(run) + Len(lines) :
             run'[k] = IF k <= Len(run) THEN run[k] ELSE lines[k - Len(run)]
    <3>1. /\ run \o lines \in Seq(Seq(W)) /\ Len(run \o lines) = Len(run) + Len(lines)
          /\ \A k \in 1..Len(run) + Len(lines) :
               (run \o lines)[k] = IF k <= Len(run) THEN run[k] ELSE lines[k - Len(run)]
      BY <1>2, <2>3, ConcatProperties
    <3>. QED BY <2>4, <3>1, Zenon
  <2>7. L!FlattenSeq(run') \o line_fb' = typed'
    <3>1. PICK a \in Seq(W) : a = L!FlattenSeq(run)
      BY <1>2, FlattenType
    <3>2. PICK b \in Seq(W) : b = L!FlattenSeq(lines)
      BY <2>3, FlattenType
    <3>3. L!FlattenSeq(run') = a \o b
      BY <1>2, <2>3, <2>4, <3>1, <3>2, FlattenConcat
    <3>4. (a \o b) \o rest = a \o (b \o rest)
      <4>1. rest \in Seq(W)
        BY <2>3
      <4>. QED BY <4>1, ConcatAssociative
    <3>5. b \o rest = line_fb \o data
      BY <2>3, <3>2 DEF bytes
    <3>6. a \o (line_fb \o data) = (a \o line_fb) \o data
      BY <1>1, <1>2, ConcatAssociative, SMTT(30)
    <3>7. a \o line_fb = typed
      BY <3>1 DEF LInv
    <3>8. (a \o b) \o rest = typed \o data
      BY <3>4, <3>5, <3>6, <3>7
    <3>. QED BY <2>1, <2>4, <3>3, <3>8
  <2>8. Len(line_fb') < Cap
    <3>1. Len(rest) \in Nat /\ Len(bytes) \in Nat /\ Len(rest) <= Len(bytes) /\ Cap \in Nat
      BY <1>3, <2>3 DEF Console
    <3>. QED BY <1>5, <2>4, <3>1
  <2>9. ASSUME NEW k \in 1..Len(run')
        PROVE  run'[k][Len(run'[k])] = LF /\ \A i \in 1..Len(run'[k]) - 1 : run'[k][i] # LF
    <3>1. Len(run) \in Nat /\ Len(lines) \in Nat
      BY <1>2, <2>3
    <3>2. CASE k <= Len(run)
      <4>1. k \in 1..Len(run) /\ run'[k] = run[k]
        BY <2>6, <3>1, <3>2
      <4>. QED BY <4>1 DEF LInv
    <3>3. CASE ~(k <= Len(run))
      <4>0. k - Len(run) \in 1..Len(lines)
        <5>1. PICK m \in Nat, n \in Nat : m = Len(run) /\ n = Len(lines)
          BY <3>1
        <5>2. Len(run') = m + n
          BY <2>6, <5>1
        <5>. QED BY <3>3, <5>1, <5>2
      <4>1. k - Len(run) \in 1..Len(lines) /\ run'[k] = lines[k - Len(run)]
        BY <2>6, <3>3, <4>0
      <4>. QED BY <2>3, <4>1
    <3>. QED BY <3>2, <3>3
  <2>10. line_fb' \in Seq(W) /\ \A i \in 1..Len(line_fb') : line_fb'[i] # LF
    BY <2>3, <2>4
  <2>11. up' \in BOOLEAN /\ l_quit' \in BOOLEAN
    BY <1>5 DEF L!cli_input, LInv, bytes
  <2>. QED BY <2>5, <2>6, <2>7, <2>8, <2>9, <2>10, <2>11 DEF LInv, W
<1>. QED BY <1>4, <1>5

(* The console of tester_ev3 runs the lines typed, in order and each once,  *)
(* for any sizes of buffer and read and any cutting of the input into       *)
(* reads; and the state keeps its types.                                    *)
THEOREM ConsoleSafe == ASSUME Console PROVE L!Spec => []LinesOnce
<1>1. L!Init => LInv
  <2>. SUFFICES ASSUME L!Init PROVE LInv
    OBVIOUS
  <2>1. line_fb = <<>> /\ typed = <<>> /\ run = <<>> /\ up \in BOOLEAN /\ l_quit \in BOOLEAN
    BY DEF L!Init
  <2>2. /\ <<>> \in Seq(L!Symbol) /\ <<>> \in Seq(Seq(L!Symbol)) /\ Len(<<>>) = 0 /\ 0 < Cap
    BY EmptySeq DEF Console
  <2>3. L!FlattenSeq(<<>>) \o <<>> = <<>>
    BY <2>2, FlattenEmpty, ConcatEmptySeq
  <2>. QED BY <2>1, <2>2, <2>3 DEF LInv
<1>2. LInv /\ [L!Next]_(L!vars) => LInv'
  <2>. SUFFICES ASSUME LInv, [L!Next]_(L!vars) PROVE LInv'
    OBVIOUS
  <2>1. ASSUME NEW data \in L!Chunk, L!cli1_cb(data) PROVE LInv'
    BY <2>1, InputKept DEF L!cli1_cb
  <2>2. ASSUME NEW r \in {"eof", "error", "EAGAIN"}, L!cli1_cb_end(r) PROVE LInv'
    BY <2>2 DEF L!cli1_cb_end, LInv
  <2>3. CASE UNCHANGED L!vars
    BY <2>3 DEF L!vars, LInv
  <2>. QED BY <2>1, <2>2, <2>3 DEF L!Next
<1>3. LInv => LinesOnce
  <2>. SUFFICES ASSUME LInv PROVE L!TypeOK /\ L!LinesOnce
    BY DEF LinesOnce
  <2>1. L!TypeOK
    BY DEF LInv, L!TypeOK
  <2>2. DOMAIN line_fb = 1..Len(line_fb) /\ DOMAIN run = 1..Len(run)
    BY DEF LInv
  <2>. QED BY <2>1, <2>2 DEF LInv, L!LinesOnce, L!Last
<1>. QED BY <1>1, <1>2, <1>3, PTL DEF L!Spec

-----------------------------------------------------------------------------
(* settings.cpp.  A tree is a sequence of records, and a value of no bytes  *)
(* is the empty text.                                                       *)
Record == [key : STRING, key_len : Nat, val : STRING, val_len : Nat]

Records ==
  \A tree \in Trees :
    tree \in Seq(Record) /\ \A i \in 1..Len(tree) : tree[i].val_len = 0 => tree[i].val = ""

(* A record whose lengths fit the fields of keyval_hdr_t.                   *)
FitsRecord(kv) == kv \in Record /\ kv = K!Truncated(kv) /\ (kv.val_len = 0 => kv.val = "")

(* What one write() puts into the file.                                     *)
Hdr(kv) == <<"hdr", kv.key_len, kv.val_len>>
Key(kv) == <<"key", kv.key, kv.key_len>>
Val(kv) == <<"val", kv.val, kv.val_len>>

Unit == ({"hdr"} \X Nat \X Nat) \cup ({"key"} \X STRING \X Nat) \cup ({"val"} \X STRING \X Nat)

(* What keyval_save writes for a record whose lengths fit.                  *)
LEMMA UnitsProp ==
  ASSUME NEW kv, FitsRecord(kv)
  PROVE  /\ K!Units(kv) \in Seq(Unit)
         /\ Len(K!Units(kv)) = (IF kv.val_len = 0 THEN 2 ELSE 3)
         /\ K!Units(kv)[1] = Hdr(kv) /\ K!Units(kv)[2] = Key(kv)
         /\ kv.val_len # 0 => K!Units(kv)[3] = Val(kv)
<1>1. /\ kv.key \in STRING /\ kv.key_len \in Nat /\ kv.val \in STRING /\ kv.val_len \in Nat
  BY DEF FitsRecord, Record
<1>2. Hdr(kv) \in Unit /\ Key(kv) \in Unit /\ Val(kv) \in Unit
  BY <1>1 DEF Hdr, Key, Val, Unit
<1>3. K!Units(kv) = <<Hdr(kv), Key(kv)>> \o (IF kv.val_len > 0 THEN <<Val(kv)>> ELSE <<>>)
  BY DEF K!Units, FitsRecord, Hdr, Key, Val
<1>4. PICK h, k, v : h = Hdr(kv) /\ k = Key(kv) /\ v = Val(kv)
  OBVIOUS
<1>5. h \in Unit /\ k \in Unit /\ v \in Unit
  BY <1>2, <1>4
<1>6. CASE kv.val_len = 0
  <2>1. K!Units(kv) = <<h, k>> \o <<>>
    BY <1>3, <1>4, <1>6
  <2>2. <<h, k>> \in Seq(Unit)
    BY <1>5
  <2>3. K!Units(kv) = <<h, k>>
    BY <2>1, <2>2, ConcatEmptySeq
  <2>. QED BY <1>4, <1>6, <2>2, <2>3
<1>7. CASE kv.val_len # 0
  <2>1. K!Units(kv) = <<h, k>> \o <<v>>
    BY <1>1, <1>3, <1>4, <1>7
  <2>2. <<h, k>> \in Seq(Unit) /\ <<v>> \in Seq(Unit) /\ Len(<<h, k>>) = 2 /\ Len(<<v>>) = 1
        /\ <<h, k>>[1] = h /\ <<h, k>>[2] = k /\ <<v>>[1] = v
    BY <1>5
  <2>3. PICK a, b : a = <<h, k>> /\ b = <<v>>
    OBVIOUS
  <2>4. a \in Seq(Unit) /\ b \in Seq(Unit) /\ Len(a) = 2 /\ Len(b) = 1
        /\ a[1] = h /\ a[2] = k /\ b[1] = v /\ K!Units(kv) = a \o b
    BY <2>1, <2>2, <2>3
  <2>5. a \o b \in Seq(Unit) /\ Len(a \o b) = Len(a) + Len(b)
        /\ \A i \in 1..(Len(a) + Len(b)) : (a \o b)[i] = IF i <= Len(a) THEN a[i] ELSE b[i - Len(a)]
    BY <2>4, ConcatProperties
  <2>6. (a \o b)[1] = h /\ (a \o b)[2] = k /\ (a \o b)[3] = v /\ Len(a \o b) = 3
    BY <2>4, <2>5
  <2>. QED BY <1>4, <1>7, <2>4, <2>5, <2>6
<1>. QED BY <1>6, <1>7

(* The same concatenation as above.                                         *)
LEMMA SameFlatten == ASSUME NEW q PROVE K!FlattenSeq(q) = L!FlattenSeq(q)
BY DEF K!FlattenSeq, L!FlattenSeq

(* The n-th member of a growing sequence of numbers has n - 1 before it.    *)
LEMMA Rank ==
  ASSUME NEW m \in Nat, NEW o \in [1..m -> Nat], \A i, j \in 1..m : i < j => o[i] < o[j],
         NEW W, \A x : x \in W <=> \E i \in 1..m : x = o[i]
  PROVE  \A n \in 0..m : /\ n = m => Cardinality(W) = m
                         /\ n < m => Cardinality({j \in W : j < o[n + 1]}) = n
<1>. TAKE n \in 0..m
<1>. DEFINE B == {o[i] : i \in 1..n}
            p == [i \in 1..n |-> o[i]]
<1>1. \A i, j \in 1..m : o[i] < o[j] => i < j
  <2>1. ASSUME NEW i \in 1..m, NEW j \in 1..m, o[i] < o[j] PROVE i < j
    <3>1. o[i] \in Nat /\ o[j] \in Nat
      OBVIOUS
    <3>2. CASE j < i
      <4>1. o[j] < o[i]
        BY <3>2
      <4>. QED BY <2>1, <3>1, <4>1
    <3>3. CASE j = i
      BY <2>1, <3>1, <3>3
    <3>. QED BY <3>2, <3>3
  <2>. QED BY <2>1
<1>2. Cardinality(B) = n
  <2>1. p \in Bijection(1..n, B)
    <3>1. ASSUME NEW i \in 1..n, NEW j \in 1..n, p[i] = p[j] PROVE i = j
      <4>1. i \in 1..m /\ j \in 1..m /\ o[i] = o[j] /\ o[i] \in Nat
        BY <3>1
      <4>2. ~(o[i] < o[j]) /\ ~(o[j] < o[i])
        BY <4>1
      <4>3. ~(i < j) /\ ~(j < i)
        BY <4>1, <4>2
      <4>. QED BY <4>3
    <3>2. p \in [1..n -> B] /\ \A b \in B : \E i \in 1..n : p[i] = b
      OBVIOUS
    <3>. QED BY <3>1, <3>2 DEF Bijection, Injection, Surjection, IsInjective
  <2>. HIDE DEF p, B
  <2>2. ExistsBijection(1..n, B)
    BY <2>1 DEF ExistsBijection
  <2>. QED BY <2>2, FS_CountingElements
<1>3. ASSUME n < m PROVE {j \in W : j < o[n + 1]} = B
  <2>1. ASSUME NEW i \in 1..m PROVE o[i] < o[n + 1] <=> i <= n
    <3>1. n + 1 \in 1..m
      BY <1>3
    <3>2. o[i] < o[n + 1] <=> i < n + 1
      BY <1>1, <3>1
    <3>. QED BY <3>2
  <2>. QED BY <2>1
<1>4. n = m => B = W
  OBVIOUS
<1>. QED BY <1>2, <1>3, <1>4

(* How the records of a tree lie in the file: the n-th begins at o[n], its  *)
(* key follows, and its value if it has one; nothing else begins a record.  *)
Laid(tree, u, o) ==
  /\ u \in Seq(Unit) /\ o \in [1..Len(tree) -> 1..Len(u)]
  /\ \A i, j \in 1..Len(tree) : i < j => o[i] < o[j]
  /\ \A n \in 1..Len(tree) :
       /\ u[o[n]] = Hdr(tree[n])
       /\ o[n] + 1 \in 1..Len(u) /\ u[o[n] + 1] = Key(tree[n])
       /\ tree[n].val_len # 0 => o[n] + 2 \in 1..Len(u) /\ u[o[n] + 2] = Val(tree[n])
       /\ tree[n].val_len = 0 /\ o[n] + 2 \in 1..Len(u) => u[o[n] + 2][1] = "hdr"
  /\ \A i \in 1..Len(u) : u[i][1] = "hdr" => \E n \in 1..Len(tree) : o[n] = i

(* A record more is laid out behind the others.                             *)
LEMMA LaidAppend ==
  ASSUME NEW tree \in Seq(Record), NEW u, NEW o, Laid(tree, u, o), NEW kv, FitsRecord(kv)
  PROVE  \E p : Laid(Append(tree, kv), u \o K!Units(kv), p)
<1>. DEFINE m == Len(tree)
            l == Len(u)
<1>1. PICK w : w = K!Units(kv)
  OBVIOUS
<1>2. /\ w \in Seq(Unit) /\ Len(w) = (IF kv.val_len = 0 THEN 2 ELSE 3)
      /\ w[1] = Hdr(kv) /\ w[2] = Key(kv) /\ (kv.val_len # 0 => w[3] = Val(kv))
  BY <1>1, UnitsProp
<1>3. m \in Nat /\ l \in Nat /\ u \in Seq(Unit) /\ kv \in Record /\ kv.val_len \in Nat
  <2>1. kv \in Record /\ kv.val_len \in Nat
    BY DEF FitsRecord, Record
  <2>2. u \in Seq(Unit)
    BY DEF Laid
  <2>. QED BY <2>1, <2>2, LenProperties
<1>4. PICK t : /\ t = Append(tree, kv) /\ t \in Seq(Record) /\ Len(t) = m + 1 /\ t[m + 1] = kv
               /\ \A i \in 1..m : t[i] = tree[i]
  <2>1. /\ Append(tree, kv) \in Seq(Record) /\ Len(Append(tree, kv)) = m + 1
        /\ \A i \in 1..m : Append(tree, kv)[i] = tree[i]
        /\ Append(tree, kv)[m + 1] = kv
    BY <1>3, AppendProperties
  <2>. QED BY <2>1
<1>5. PICK c : /\ c = u \o w /\ c \in Seq(Unit) /\ Len(c) = l + Len(w)
               /\ \A i \in 1..(l + Len(w)) : c[i] = IF i <= l THEN u[i] ELSE w[i - l]
  <2>1. /\ u \o w \in Seq(Unit) /\ Len(u \o w) = l + Len(w)
        /\ \A i \in 1..(l + Len(w)) : (u \o w)[i] = IF i <= l THEN u[i] ELSE w[i - l]
    BY <1>2, <1>3, ConcatProperties
  <2>. QED BY <2>1
<1>. DEFINE p == [i \in 1..(m + 1) |-> IF i <= m THEN o[i] ELSE l + 1]
<1>6. /\ o \in [1..m -> 1..l] /\ \A i, j \in 1..m : i < j => o[i] < o[j]
      /\ \A n \in 1..m :
           /\ u[o[n]] = Hdr(tree[n])
           /\ o[n] + 1 \in 1..l /\ u[o[n] + 1] = Key(tree[n])
           /\ tree[n].val_len # 0 => o[n] + 2 \in 1..l /\ u[o[n] + 2] = Val(tree[n])
           /\ tree[n].val_len = 0 /\ o[n] + 2 \in 1..l => u[o[n] + 2][1] = "hdr"
      /\ \A i \in 1..l : u[i][1] = "hdr" => \E n \in 1..m : o[n] = i
  BY DEF Laid
<1>. HIDE DEF m, l
<1>7. Len(c) \in Nat /\ l + 2 <= Len(c) /\ Len(c) <= l + 3 /\ (kv.val_len = 0 => Len(c) = l + 2)
      /\ (kv.val_len # 0 => Len(c) = l + 3)
  BY <1>2, <1>3, <1>5
<1>8. /\ \A i \in 1..l : i \in 1..Len(c) /\ c[i] = u[i]
      /\ c[l + 1] = Hdr(kv) /\ c[l + 2] = Key(kv) /\ (kv.val_len # 0 => c[l + 3] = Val(kv))
  <2>1. \A i \in 1..l : i \in 1..Len(c) /\ c[i] = u[i]
    BY <1>3, <1>5, <1>7
  <2>2. c[l + 1] = w[1] /\ c[l + 2] = w[2]
    <3>1. /\ l + 1 \in 1..(l + Len(w)) /\ ~(l + 1 <= l) /\ (l + 1) - l = 1
          /\ l + 2 \in 1..(l + Len(w)) /\ ~(l + 2 <= l) /\ (l + 2) - l = 2
      BY <1>2, <1>3
    <3>. QED BY <1>5, <3>1
  <2>3. ASSUME kv.val_len # 0 PROVE c[l + 3] = w[3]
    <3>1. l + 3 \in 1..(l + Len(w)) /\ ~(l + 3 <= l) /\ (l + 3) - l = 3
      BY <1>2, <1>3, <2>3
    <3>. QED BY <1>5, <3>1
  <2>. QED BY <1>2, <2>1, <2>2, <2>3
<1>9. \A i \in 1..m : p[i] = o[i] /\ p[i] \in 1..l
  BY <1>3, <1>6
<1>10. p[m + 1] = l + 1 /\ DOMAIN p = 1..(m + 1) /\ p = [i \in 1..(m + 1) |-> p[i]]
  BY <1>3
<1>. HIDE DEF p
<1>11. \A i \in 1..(m + 1) : i \in 1..m \/ i = m + 1
  BY <1>3
<1>12. p \in [1..(m + 1) -> 1..Len(c)]
  <2>1. \A i \in 1..(m + 1) : p[i] \in 1..Len(c)
    <3>1. l + 1 \in 1..Len(c)
      BY <1>3, <1>7
    <3>. QED BY <1>8, <1>9, <1>10, <1>11, <3>1
  <2>. QED BY <1>10, <2>1
<1>13. \A i, j \in 1..(m + 1) : i < j => p[i] < p[j]
  <2>1. ASSUME NEW i \in 1..(m + 1), NEW j \in 1..(m + 1), i < j PROVE p[i] < p[j]
    <3>1. i \in 1..m
      BY <1>3, <2>1
    <3>2. CASE j \in 1..m
      BY <1>6, <1>9, <2>1, <3>1, <3>2
    <3>3. CASE j = m + 1
      <4>1. p[i] \in 1..l /\ p[j] = l + 1
        BY <1>9, <1>10, <3>1, <3>3
      <4>. QED BY <1>3, <4>1
    <3>. QED BY <1>11, <3>2, <3>3
  <2>. QED BY <2>1
<1>14. ASSUME NEW n \in 1..(m + 1)
       PROVE  /\ c[p[n]] = Hdr(t[n])
              /\ p[n] + 1 \in 1..Len(c) /\ c[p[n] + 1] = Key(t[n])
              /\ t[n].val_len # 0 => p[n] + 2 \in 1..Len(c) /\ c[p[n] + 2] = Val(t[n])
              /\ t[n].val_len = 0 /\ p[n] + 2 \in 1..Len(c) => c[p[n] + 2][1] = "hdr"
  <2>1. CASE n \in 1..m
    <3>1. t[n] = tree[n] /\ p[n] = o[n] /\ o[n] \in 1..l /\ o[n] + 1 \in 1..l
      BY <1>4, <1>6, <1>9, <2>1
    <3>2. c[p[n]] = Hdr(t[n]) /\ p[n] + 1 \in 1..Len(c) /\ c[p[n] + 1] = Key(t[n])
      BY <1>6, <1>8, <2>1, <3>1
    <3>3. t[n].val_len # 0 => p[n] + 2 \in 1..Len(c) /\ c[p[n] + 2] = Val(t[n])
      BY <1>6, <1>8, <2>1, <3>1
    <3>4. ASSUME t[n].val_len = 0, p[n] + 2 \in 1..Len(c) PROVE c[p[n] + 2][1] = "hdr"
      <4>1. CASE o[n] + 2 \in 1..l
        BY <1>6, <1>8, <2>1, <3>1, <3>4, <4>1, SMTT(30)
      <4>2. CASE ~(o[n] + 2 \in 1..l)
        <5>1. o[n] + 2 = l + 1
          BY <1>3, <3>1, <4>2
        <5>. QED BY <1>8, <3>1, <5>1 DEF Hdr
      <4>. QED BY <4>1, <4>2
    <3>. QED BY <3>2, <3>3, <3>4
  <2>2. CASE n = m + 1
    <3>1. t[n] = kv /\ p[n] = l + 1 /\ p[n] + 1 = l + 2 /\ p[n] + 2 = l + 3
      BY <1>3, <1>4, <1>10, <2>2
    <3>2. p[n] + 1 \in 1..Len(c)
      BY <1>3, <1>7, <3>1
    <3>3. kv.val_len # 0 => p[n] + 2 \in 1..Len(c)
      BY <1>3, <1>7, <3>1
    <3>4. kv.val_len = 0 => ~(p[n] + 2 \in 1..Len(c))
      BY <1>3, <1>7, <3>1
    <3>. QED BY <1>8, <3>1, <3>2, <3>3, <3>4
  <2>. QED BY <1>11, <2>1, <2>2
<1>15. ASSUME NEW i \in 1..Len(c), c[i][1] = "hdr" PROVE \E n \in 1..(m + 1) : p[n] = i
  <2>1. CASE i \in 1..l
    <3>1. PICK n \in 1..m : o[n] = i
      BY <1>6, <1>8, <1>15, <2>1
    <3>2. n \in 1..(m + 1) /\ p[n] = i
      BY <1>3, <1>9, <3>1
    <3>. QED BY <3>2
  <2>2. CASE i = l + 1
    <3>1. m + 1 \in 1..(m + 1) /\ p[m + 1] = i
      BY <1>3, <1>10, <2>2
    <3>. QED BY <3>1
  <2>3. CASE i = l + 2
    BY <1>8, <1>15, <2>3 DEF Key
  <2>4. CASE i = l + 3 /\ kv.val_len # 0
    BY <1>8, <1>15, <2>4 DEF Val
  <2>5. i \in 1..l \/ i = l + 1 \/ i = l + 2 \/ (i = l + 3 /\ kv.val_len # 0)
    BY <1>3, <1>7
  <2>. QED BY <2>1, <2>2, <2>3, <2>4, <2>5
<1>16. Laid(t, c, p)
  BY <1>4, <1>5, <1>12, <1>13, <1>14, <1>15 DEF Laid
<1>. QED BY <1>1, <1>4, <1>5, <1>16

(* The records of any tree that fits lie so in what keyval_save writes.     *)
LEMMA PayloadLaid ==
  ASSUME NEW tree \in Seq(Record), \A i \in 1..Len(tree) : FitsRecord(tree[i])
  PROVE  \E o : Laid(tree, K!Payload(tree), o)
<1>. DEFINE Fit(s) == \A i \in 1..Len(s) : FitsRecord(s[i])
            U(s) == [i \in DOMAIN s |-> K!Units(s[i])]
            T == {n \in Nat : \A s \in Seq(Record) : Len(s) = n /\ Fit(s) =>
                                \E o : Laid(s, L!FlattenSeq(U(s)), o)}
<1>0. ASSUME NEW s \in Seq(Record), Fit(s) PROVE U(s) \in Seq(Seq(Unit)) /\ Len(U(s)) = Len(s)
  <2>1. DOMAIN s = 1..Len(s) /\ Len(s) \in Nat
    OBVIOUS
  <2>2. \A i \in 1..Len(s) : K!Units(s[i]) \in Seq(Unit)
    BY <1>0, UnitsProp
  <2>3. U(s) \in [1..Len(s) -> Seq(Unit)]
    BY <2>1, <2>2
  <2>. QED BY <2>1, <2>3, SeqDef
<1>1. 0 \in T
  <2>1. ASSUME NEW s \in Seq(Record), Len(s) = 0 PROVE \E o : Laid(s, L!FlattenSeq(U(s)), o)
    <3>1. s = <<>>
      BY <2>1, EmptySeq
    <3>2. U(s) = <<>>
      BY <3>1
    <3>3. L!FlattenSeq(U(s)) = <<>>
      BY <3>2, FlattenEmpty
    <3>4. <<>> \in [1..0 -> 1..0] /\ <<>> \in Seq(Unit) /\ Len(<<>>) = 0 /\ 1..0 = {}
      OBVIOUS
    <3>5. Laid(<<>>, <<>>, <<>>)
      BY <3>4 DEF Laid
    <3>. QED BY <3>1, <3>3, <3>5
  <2>. QED BY <2>1
<1>2. ASSUME NEW n \in Nat, n \in T PROVE n + 1 \in T
  <2>1. ASSUME NEW s \in Seq(Record), Len(s) = n + 1, Fit(s)
        PROVE  \E o : Laid(s, L!FlattenSeq(U(s)), o)
    <3>1. PICK t \in Seq(Record), kv \in Record : s = Append(t, kv)
      <4>1. s # <<>>
        BY <2>1, EmptySeq
      <4>. QED BY <4>1, SequenceEmptyOrAppend
    <3>2. /\ Len(s) = Len(t) + 1 /\ Len(t) \in Nat /\ s[Len(t) + 1] = kv
          /\ \A i \in 1..Len(t) : s[i] = t[i]
      BY <3>1, AppendProperties
    <3>3. Len(t) = n
      BY <2>1, <3>2
    <3>4. Fit(t) /\ FitsRecord(kv)
      <4>1. \A i \in 1..Len(t) : i \in 1..Len(s)
        BY <3>2
      <4>2. Len(t) + 1 \in 1..Len(s)
        BY <3>2
      <4>. QED BY <2>1, <3>2, <4>1, <4>2
    <3>5. PICK o : Laid(t, L!FlattenSeq(U(t)), o)
      BY <1>2, <3>3, <3>4
    <3>6. U(t) \in Seq(Seq(Unit)) /\ Len(U(t)) = n
      BY <1>0, <3>3, <3>4
    <3>7. PICK w : w = K!Units(kv) /\ w \in Seq(Unit)
      BY <3>4, UnitsProp
    <3>8. U(s) = Append(U(t), w)
      <4>1. /\ Append(U(t), w) \in Seq(Seq(Unit)) /\ Len(Append(U(t), w)) = n + 1
            /\ \A i \in 1..n : Append(U(t), w)[i] = U(t)[i]
            /\ Append(U(t), w)[n + 1] = w
        BY <3>6, <3>7, AppendProperties
      <4>2. U(s) \in Seq(Seq(Unit)) /\ Len(U(s)) = n + 1
        BY <1>0, <2>1
      <4>3. DOMAIN s = 1..(n + 1) /\ DOMAIN t = 1..n
        BY <2>1, <3>3
      <4>4. \A i \in 1..n : U(s)[i] = U(t)[i]
        <5>1. \A i \in 1..n : i \in 1..(n + 1) /\ s[i] = t[i]
          BY <3>2, <3>3
        <5>. QED BY <4>3, <5>1
      <4>5. U(s)[n + 1] = w
        <5>1. n + 1 \in 1..(n + 1) /\ s[n + 1] = kv
          BY <3>2, <3>3
        <5>. QED BY <3>7, <4>3, <5>1
      <4>. HIDE DEF U
      <4>6. \A i \in 1..(n + 1) : U(s)[i] = Append(U(t), w)[i]
        <5>1. \A i \in 1..(n + 1) : i \in 1..n \/ i = n + 1
          OBVIOUS
        <5>. QED BY <4>1, <4>4, <4>5, <5>1
      <4>. QED BY <4>1, <4>2, <4>6, SeqEqual
    <3>9. L!FlattenSeq(U(s)) = L!FlattenSeq(U(t)) \o w
      <4>. HIDE DEF U
      <4>. QED BY <3>6, <3>7, <3>8, FlattenAppend
    <3>10. PICK u : u = L!FlattenSeq(U(t)) /\ Laid(t, u, o)
      BY <3>5
    <3>11. PICK p : Laid(Append(t, kv), u \o K!Units(kv), p)
      BY <3>4, <3>10, LaidAppend
    <3>12. L!FlattenSeq(U(s)) = u \o K!Units(kv)
      BY <3>7, <3>9, <3>10
    <3>13. Laid(s, L!FlattenSeq(U(s)), p)
      BY <3>1, <3>11, <3>12
    <3>. QED BY <3>13
  <2>. HIDE DEF U, Fit
  <2>2. n + 1 \in Nat
    OBVIOUS
  <2>. QED BY <2>1, <2>2
<1>3. \A n \in Nat : n \in T
  <2>. HIDE DEF T
  <2>. QED BY <1>1, <1>2, Induction
<1>4. \E o : Laid(tree, L!FlattenSeq(U(tree)), o)
  <2>1. Len(tree) \in Nat
    BY LenProperties
  <2>. HIDE DEF U
  <2>. QED BY <1>3, <2>1
<1>5. K!Payload(tree) = L!FlattenSeq(U(tree))
  BY SameFlatten DEF K!Payload
<1>. QED BY <1>4, <1>5

(* keyval_load reads back what keyval_save writes: the n-th record's header *)
(* is the one with n - 1 before it, and an empty value is not taken from    *)
(* the record behind it.                                                    *)
LEMMA RoundTrip ==
  ASSUME NEW tree \in Seq(Record), \A i \in 1..Len(tree) : FitsRecord(tree[i])
  PROVE  K!RecordsOf(K!Payload(tree)) = tree
<1>1. PICK u : u = K!Payload(tree)
  OBVIOUS
<1>2. PICK o : Laid(tree, u, o)
  BY <1>1, PayloadLaid
<1>3. PICK m \in Nat : m = Len(tree)
  BY LenProperties
<1>4. u \in Seq(Unit) /\ DOMAIN u = 1..Len(u) /\ Len(u) \in Nat
  BY <1>2, LenProperties DEF Laid
<1>5. /\ o \in [1..m -> 1..Len(u)] /\ \A i, j \in 1..m : i < j => o[i] < o[j]
      /\ \A n \in 1..m :
           /\ u[o[n]] = Hdr(tree[n])
           /\ o[n] + 1 \in 1..Len(u) /\ u[o[n] + 1] = Key(tree[n])
           /\ tree[n].val_len # 0 => o[n] + 2 \in 1..Len(u) /\ u[o[n] + 2] = Val(tree[n])
           /\ tree[n].val_len = 0 /\ o[n] + 2 \in 1..Len(u) => u[o[n] + 2][1] = "hdr"
      /\ \A i \in 1..Len(u) : u[i][1] = "hdr" => \E n \in 1..m : o[n] = i
  BY <1>2, <1>3 DEF Laid
<1>. DEFINE W == {i \in DOMAIN u : u[i][1] = "hdr"}
            at == [n \in 1..K!Cardinality(W) |->
                     CHOOSE i \in W : K!Cardinality({j \in W : j < i}) = n - 1]
            Text(kind, i) == IF i \in DOMAIN u /\ u[i][1] = kind THEN u[i][2] ELSE ""
            rec(n) == [key |-> Text("key", at[n] + 1), key_len |-> u[at[n]][2],
                       val |-> Text("val", at[n] + 2), val_len |-> u[at[n]][3]]
<1>6. K!RecordsOf(u) = [n \in 1..K!Cardinality(W) |-> rec(n)]
  BY Zenon DEF K!RecordsOf
<1>7. \A x : x \in W <=> \E i \in 1..m : x = o[i]
  <2>1. \A n \in 1..m : o[n] \in W
    BY <1>4, <1>5 DEF Hdr
  <2>2. \A i \in W : \E n \in 1..m : o[n] = i
    BY <1>4, <1>5
  <2>. QED BY <2>1, <2>2
<1>8. o \in [1..m -> Nat]
  BY <1>4, <1>5
<1>. HIDE DEF W
<1>9. \A n \in 0..m : /\ n = m => Cardinality(W) = m
                      /\ n < m => Cardinality({j \in W : j < o[n + 1]}) = n
  <2>1. \A i, j \in 1..m : i < j => o[i] < o[j]
    BY <1>5
  <2>. QED BY <1>7, <1>8, <2>1, Rank, ZenonT(40)
<1>10. K!Cardinality(W) = m
  <2>1. m \in 0..m
    OBVIOUS
  <2>2. Cardinality(W) = m
    BY <1>9, <2>1
  <2>. QED BY <2>2 DEF K!Cardinality, Cardinality
<1>11. \A n \in 1..m : K!Cardinality({j \in W : j < o[n]}) = n - 1
  <2>1. ASSUME NEW n \in 1..m PROVE K!Cardinality({j \in W : j < o[n]}) = n - 1
    <3>1. PICK k : k = n - 1 /\ k \in 0..m /\ k < m /\ k + 1 = n
      OBVIOUS
    <3>2. Cardinality({j \in W : j < o[n]}) = n - 1
      BY <1>9, <3>1
    <3>. QED BY <3>2 DEF K!Cardinality, Cardinality
  <2>. QED BY <2>1
<1>12. \A n \in 1..m : at[n] = o[n]
  <2>1. ASSUME NEW n \in 1..m PROVE at[n] = o[n]
    <3>1. o[n] \in W /\ K!Cardinality({j \in W : j < o[n]}) = n - 1
      BY <1>7, <1>11
    <3>2. ASSUME NEW i \in W, K!Cardinality({j \in W : j < i}) = n - 1 PROVE i = o[n]
      <4>1. PICK k \in 1..m : i = o[k]
        BY <1>7
      <4>2. k - 1 = n - 1
        BY <1>11, <3>2, <4>1
      <4>3. k = n
        BY <4>2
      <4>. QED BY <4>1, <4>3
    <3>3. at[n] = CHOOSE i \in W : K!Cardinality({j \in W : j < i}) = n - 1
      BY <1>10
    <3>. QED BY <3>1, <3>2, <3>3
  <2>. QED BY <2>1
<1>13. ASSUME NEW n \in 1..m PROVE rec(n) = tree[n]
  <2>1. PICK kv : kv = tree[n] /\ kv \in Record /\ FitsRecord(kv)
    BY <1>3
  <2>2. at[n] = o[n]
    BY <1>12
  <2>. HIDE DEF at
  <2>3. u[at[n]][2] = kv.key_len /\ u[at[n]][3] = kv.val_len
    BY <1>5, <2>1, <2>2 DEF Hdr
  <2>4. Text("key", at[n] + 1) = kv.key
    <3>1. at[n] + 1 \in DOMAIN u /\ u[at[n] + 1] = Key(kv)
      BY <1>4, <1>5, <2>1, <2>2
    <3>2. Key(kv)[1] = "key" /\ Key(kv)[2] = kv.key
      BY DEF Key
    <3>. QED BY <3>1, <3>2
  <2>5. Text("val", at[n] + 2) = kv.val
    <3>1. CASE kv.val_len = 0
      <4>1. kv.val = ""
        BY <2>1, <3>1 DEF FitsRecord
      <4>. QED BY <1>4, <1>5, <2>1, <2>2, <3>1, <4>1
    <3>2. CASE kv.val_len # 0
      <4>1. at[n] + 2 \in DOMAIN u /\ u[at[n] + 2] = Val(kv)
        BY <1>4, <1>5, <2>1, <2>2, <3>2
      <4>2. Val(kv)[1] = "val" /\ Val(kv)[2] = kv.val
        BY DEF Val
      <4>. QED BY <4>1, <4>2
    <3>. QED BY <3>1, <3>2
  <2>6. rec(n) = [key |-> kv.key, key_len |-> kv.key_len, val |-> kv.val, val_len |-> kv.val_len]
    BY <2>3, <2>4, <2>5
  <2>. HIDE DEF rec
  <2>. QED BY <2>1, <2>6 DEF Record
<1>. HIDE DEF rec
<1>14. tree = [n \in 1..m |-> tree[n]]
  BY <1>3
<1>15. [n \in 1..m |-> rec(n)] = [n \in 1..m |-> tree[n]]
  BY <1>13
<1>. QED BY <1>1, <1>6, <1>10, <1>14, <1>15

(* The header of the file is that of the last save that returned; what the  *)
(* records are now, it does not say.  A load is forgotten when a save       *)
(* begins.                                                                  *)
HeaderOfSaved ==
  /\ saving \in Trees \cup {K!NoTree}
  /\ saving # K!NoTree => loaded = K!NoLoad
  /\ \/ header = NoHeader
     \/ saved.tree \in Trees /\ header = K!settings_hdr(saved.tag, K!Payload(saved.tree))

(* A tree that fits the fields of the records is read back as it was.       *)
LEMMA TreeBack ==
  ASSUME Records, NEW kvs \in Trees
  PROVE  K!Fits(kvs) => K!RecordsOf(K!Payload(kvs)) = kvs
<1>1. ASSUME K!Fits(kvs) PROVE K!RecordsOf(K!Payload(kvs)) = kvs
  <2>1. kvs \in Seq(Record) /\ \A i \in 1..Len(kvs) : kvs[i].val_len = 0 => kvs[i].val = ""
    BY DEF Records
  <2>2. DOMAIN kvs = 1..Len(kvs) /\ \A i \in 1..Len(kvs) : kvs[i] \in Record
    BY <2>1, LenProperties, ElementOfSeq
  <2>3. \A i \in 1..Len(kvs) : kvs[i] = K!Truncated(kvs[i])
    BY <1>1, <2>2 DEF K!Fits
  <2>4. \A i \in 1..Len(kvs) : FitsRecord(kvs[i])
    BY <2>1, <2>2, <2>3 DEF FitsRecord
  <2>. QED BY <2>1, <2>4, RoundTrip
<1>. QED BY <1>1

(* A checksum that agrees makes the records in the file those of the last   *)
(* save that returned.                                                      *)
LEMMA StoredIsSaved ==
  ASSUME Records, HeaderOfSaved, header # NoHeader,
         <<K!Stored, header.tag, header.payload_len>> = header.cksum
  PROVE  K!Fits(saved.tree) => K!RecordsOf(K!Stored) = saved.tree
<1>1. PICK p : /\ p = K!Payload(saved.tree) /\ saved.tree \in Trees
               /\ header = [tag |-> saved.tag, payload_len |-> Len(p),
                            cksum |-> <<p, saved.tag, Len(p)>>]
  BY DEF HeaderOfSaved, K!settings_hdr
<1>2. K!Stored = p
  BY <1>1
<1>. QED BY <1>1, <1>2, TreeBack

(* A load that succeeds returns the last tree whose save returned, saved    *)
(* under a tag and a version the caller takes, although saves overwrite the *)
(* records in place and may stop at any write; and a failing one leaves no  *)
(* records of another tag or version behind: for all trees and tags, the    *)
(* empty tag and version 0, which take any file, among them.                *)
THEOREM LoadSafe == ASSUME Records PROVE K!Spec => []LoadTrue
<1>. DEFINE FileInv == HeaderOfSaved /\ K!LoadTrue
<1>1. K!Init => FileInv
  BY DEF K!Init, HeaderOfSaved, K!LoadTrue, K!NoLoad
<1>2. ASSUME FileInv, [K!Next]_(K!vars) PROVE FileInv'
  <2>. USE <1>2
  <2>1. CASE \E tree \in Trees, t \in Tags : K!keyval_save(tree, t)
    BY <2>1 DEF K!keyval_save, K!file, HeaderOfSaved, K!LoadTrue, K!NoLoad
  <2>2. CASE K!WriteUnit
    BY <2>2 DEF K!WriteUnit, HeaderOfSaved, K!LoadTrue
  <2>3. CASE K!WriteHeader
    BY <2>3 DEF K!WriteHeader, K!Returns, HeaderOfSaved, K!LoadTrue, K!NoLoad
  <2>4. CASE K!SaveEnds
    BY <2>4 DEF K!SaveEnds, K!Returns, K!file, HeaderOfSaved, K!LoadTrue
  <2>5. CASE \E t \in Tags : K!keyval_load(t)
    <3>1. PICK t \in Tags : K!keyval_load(t)
      BY <2>5
    <3>2. header # NoHeader /\ K!Accepts(t, header.tag) /\ header.tag = saved.tag
      BY <3>1 DEF K!keyval_load, K!Readable, HeaderOfSaved, K!settings_hdr
    <3>3. K!Fits(saved.tree) => K!RecordsOf(K!Stored) = saved.tree
      BY <3>1, <3>2, StoredIsSaved DEF K!keyval_load
    <3>4. /\ loaded' = [ret |-> TRUE, tag |-> t, tree |-> K!RecordsOf(K!Stored), left |-> FALSE]
          /\ UNCHANGED <<header, saved, saving>> /\ saving = K!NoTree
      BY <3>1 DEF K!keyval_load, K!Outcome, K!file, K!Idle
    <3>5. HeaderOfSaved'
      BY <3>4 DEF HeaderOfSaved
    <3>6. loaded'.tag = t /\ loaded'.tree = K!RecordsOf(K!Stored)
      BY <3>4
    <3>. QED BY <3>2, <3>3, <3>4, <3>5, <3>6 DEF K!LoadTrue
  <2>6. CASE \E t \in Tags : K!LoadFails(t)
    <3>1. PICK t \in Tags, left \in BOOLEAN :
            /\ left => header # NoHeader /\ K!Accepts(t, header.tag)
            /\ loaded' = [ret |-> FALSE, tag |-> t, tree |-> K!NoTree, left |-> left]
            /\ UNCHANGED <<header, saved, saving>> /\ saving = K!NoTree
      BY <2>6 DEF K!LoadFails, K!Outcome, K!file, K!Idle
    <3>2. left => header.tag = saved.tag
      BY <3>1 DEF HeaderOfSaved, K!settings_hdr
    <3>3. HeaderOfSaved'
      BY <3>1 DEF HeaderOfSaved
    <3>. QED BY <3>1, <3>2, <3>3 DEF K!LoadTrue
  <2>7. CASE UNCHANGED K!vars
    BY <2>7 DEF K!vars, HeaderOfSaved, K!LoadTrue
  <2>. QED BY <2>1, <2>2, <2>3, <2>4, <2>5, <2>6, <2>7 DEF K!Next
<1>3. K!Spec => []K!LoadTrue
  BY <1>1, <1>2, PTL DEF K!Spec
<1>. QED BY <1>3 DEF LoadTrue
=============================================================================

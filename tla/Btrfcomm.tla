------------------------------- MODULE Btrfcomm -------------------------------
(* The RFCOMM session of tester1/btrfcomm.cpp: one socket at a time, which     *)
(* listens, connects or is connected, one handle in the evb2 loop for it, and  *)
(* the console's commands.  A command may run between the moment the loop has  *)
(* collected an event for the handle and the call of its callback: both are in *)
(* one batch of run_once.  From the loop is used what Evb2 shows of it: a      *)
(* cancelled handle is not called any more.                                    *)
EXTENDS Integers, Sequences, FiniteSets, SequencesExt

CONSTANTS
  Fd,        \* descriptor numbers
  NoFd,      \* -1
  Msg,       \* texts to send
  MsgLen,    \* bytes in a text
  MaxSent    \* bound: bytes on one connection

VARIABLES
  live,      \* bt_global is allocated
  state,     \* bt2->state
  fd,        \* bt2->evconn.fd
  open,      \* the sockets that are open in the kernel
  handle,    \* the loop's handle: its descriptor, callback and time limit, or none
  event,     \* the event of this batch waiting for the handle's callback, or none
  hci_up,    \* the adapter is up
  scan,      \* its scan mode
  sent       \* the bytes the kernel took on the last connection

vars == <<live, state, fd, open, handle, event, hci_up, scan, sent>>
session == <<state, fd, open, handle, event, sent>>

NoHandle == [fd |-> NoFd, cb |-> "none", limit |-> FALSE]
Handles == [fd : Fd, cb : {"accept", "connect", "rx"}, limit : BOOLEAN]
Byte == Msg \X (1..MsgLen)

TypeOK ==
  /\ live \in BOOLEAN /\ hci_up \in BOOLEAN /\ scan \subseteq {"inquiry", "page"}
  /\ state \in {"idle", "listen", "connecting", "connected"}
  /\ fd \in Fd \union {NoFd} /\ open \subseteq Fd
  /\ handle \in Handles \union {NoHandle}
  /\ event \in {"none", "read", "write", "except", "timeout"}
  /\ sent \in Seq(Byte)

Init ==
  /\ live = FALSE /\ state = "idle" /\ fd = NoFd /\ open = {}
  /\ handle = NoHandle /\ event = "none" /\ hci_up = FALSE /\ scan = {} /\ sent = <<>>

-----------------------------------------------------------------------------
(* The session's four components and the helpers that change them.             *)

Now == [state |-> state, fd |-> fd, open |-> open, handle |-> handle]

Free(o) == CHOOSE f \in Fd \ o : \A g \in Fd \ o : f <= g

\* evconn_cancel, close, idle.  The cancelled handle's event is not delivered.
bt_session_close(s) ==
  [state |-> "idle", fd |-> NoFd, open |-> s.open \ {s.fd}, handle |-> NoHandle]

\* bt_arm: a new handle for the present descriptor; the loop may refuse it.
bt_arm(s, cb, limit) == [s EXCEPT !.handle = [fd |-> s.fd, cb |-> cb, limit |-> limit]]
bt_arm_rx(s) == bt_arm(s, "rx", FALSE)

\* bt_rfcomm_socket, with its socket options: a descriptor or nothing.
bt_rfcomm_socket(s) == [s EXCEPT !.fd = Free(s.open), !.open = @ \union {Free(s.open)}]

\* The handle was cancelled or replaced: aloe_evb2_cancel takes it off ready_list, and
\* with it the event collected for it.
Becomes(s) ==
  /\ state' = s.state /\ fd' = s.fd /\ open' = s.open /\ handle' = s.handle
  /\ event' = "none"

\* A new connection starts with nothing sent.
BecomesConnection(s) == Becomes(s) /\ sent' = <<>>

-----------------------------------------------------------------------------
(* bt_init, bt_destroy.                                                        *)

bt_init ==
  /\ ~live /\ live' = TRUE
  /\ UNCHANGED <<session, hci_up, scan>>

bt_destroy ==
  /\ live /\ live' = FALSE
  /\ Becomes(bt_session_close(Now))
  /\ UNCHANGED <<hci_up, scan, sent>>

-----------------------------------------------------------------------------
(* The commands.  `at' names the call that fails, "none" if all succeed.       *)

bt_hci_up(at) == hci_up' = (hci_up \/ at # "hci")

Up(at) == live /\ bt_hci_up(at) /\ UNCHANGED <<live, session, scan>>

bt_discoverable(on, at) ==
  /\ live /\ bt_hci_up(at)
  /\ scan' = IF at \in {"hci", "scan"} THEN scan
             ELSE IF on THEN {"inquiry", "page"}
             ELSE IF state = "listen" THEN {"page"} ELSE {}
  /\ UNCHANGED <<live, session>>

\* bt_listen: the adapter, the old session closed, the socket, bind and listen,
\* the handle.  A channel out of range changes nothing.
bt_listen(at) ==
  LET c == bt_session_close(Now)
      s == [bt_rfcomm_socket(c) EXCEPT !.state = "listen"]
  IN /\ live /\ bt_hci_up(at)
     /\ CASE at = "hci" -> UNCHANGED <<state, fd, open, handle, event>>
          [] at \in {"socket", "bind"} -> Becomes(c)
          [] at = "arm" -> Becomes(bt_session_close(s))
          [] OTHER -> Becomes(bt_arm(s, "accept", FALSE))
     /\ UNCHANGED <<live, scan, sent>>

bt_connect(at) ==
  LET c == bt_session_close(Now)
      s == [bt_rfcomm_socket(c) EXCEPT !.state = "connecting"]
  IN /\ live /\ bt_hci_up(at)
     /\ CASE at = "hci" -> UNCHANGED <<state, fd, open, handle, event>>
          [] at \in {"socket", "bind"} -> Becomes(c)      \* "bind": connect fails at once
          [] at = "arm" -> Becomes(bt_session_close(s))
          [] OTHER -> Becomes(bt_arm(s, "connect", TRUE))
     /\ UNCHANGED <<live, scan, sent>>

\* Mutant: a full buffer ends the call and leaves the session open.
bt_send_keeps(m, n) ==
  /\ live /\ state = "connected" /\ fd # NoFd
  /\ Len(sent) + MsgLen <= MaxSent
  /\ sent' = sent \o [i \in 1..n |-> <<m, i>>]
  /\ UNCHANGED <<live, state, fd, open, handle, event, hci_up, scan>>

\* bt_send: the kernel takes n bytes of the text; whatever ends the loop before
\* the last byte, a full buffer included, closes the session.
bt_send(m, n) ==
  /\ live /\ state = "connected" /\ fd # NoFd
  /\ Len(sent) + MsgLen <= MaxSent
  /\ sent' = sent \o [i \in 1..n |-> <<m, i>>]
  /\ IF n = MsgLen THEN UNCHANGED <<state, fd, open, handle, event>>
     ELSE Becomes(bt_session_close(Now))
  /\ UNCHANGED <<live, hci_up, scan>>

Close == live /\ Becomes(bt_session_close(Now)) /\ UNCHANGED <<live, hci_up, scan, sent>>

-----------------------------------------------------------------------------
(* The loop: it collects an event the handle asked for, then calls back.       *)

Asked == CASE handle.cb = "connect" -> {"write", "except", "timeout"}
           [] handle.cb \in {"accept", "rx"} -> {"read"}
           [] OTHER -> {}

\* aloe_evb2_run_once moves the handle to ready_list; its callback comes later.
Collect(e) ==
  /\ event = "none" /\ e \in Asked
  /\ event' = e
  /\ UNCHANGED <<live, state, fd, open, handle, hci_up, scan, sent>>

Enter(cb) == event # "none" /\ handle.cb = cb

\* The callback leaves the session as it is and waits for the next event.
Stays == event' = "none" /\ UNCHANGED <<state, fd, open, handle, sent>>

\* recv until it would block; an error or the end of the stream closes.
bt_rx_cb(over) ==
  /\ Enter("rx")
  /\ IF handle.fd = fd /\ event = "read" /\ over
     THEN Becomes(bt_session_close(Now)) /\ UNCHANGED sent ELSE Stays
  /\ UNCHANGED <<live, hci_up, scan>>

\* Mutant: the listening socket is not closed.
bt_accept_cb_listens(ok, at) ==
  LET conn == Free(open)
      s == [Now EXCEPT !.fd = conn, !.open = @ \union {conn}, !.state = "connected"]
  IN /\ Enter("accept")
     /\ IF handle.fd # fd \/ event # "read" \/ ~ok THEN Stays
        ELSE BecomesConnection(IF at = "arm" THEN bt_session_close(s) ELSE bt_arm_rx(s))
     /\ UNCHANGED <<live, hci_up, scan>>

\* accept: the listening socket is closed and the accepted one takes its place.
bt_accept_cb(ok, at) ==
  LET conn == Free(open)
      s == [bt_session_close([Now EXCEPT !.open = @ \union {conn}])
              EXCEPT !.fd = conn, !.state = "connected"]
  IN /\ Enter("accept")
     /\ IF handle.fd # fd \/ event # "read" \/ ~ok THEN Stays
        ELSE BecomesConnection(IF at = "arm" THEN bt_session_close(s) ELSE bt_arm_rx(s))
     /\ UNCHANGED <<live, hci_up, scan>>

bt_connect_cb(err, at) ==
  LET s == [Now EXCEPT !.state = "connected"] IN
  /\ Enter("connect")
  /\ IF handle.fd # fd THEN Stays
     ELSE BecomesConnection(IF event \in {"timeout", "except"} \/ err \/ at = "arm"
                            THEN bt_session_close(s) ELSE bt_arm_rx(s))
  /\ UNCHANGED <<live, hci_up, scan>>

Fail == {"none", "hci", "socket", "bind", "arm"}

Command ==
  \/ bt_init
  \/ bt_destroy
  \/ \E at \in {"none", "hci"} : Up(at)
  \/ \E on \in BOOLEAN, at \in {"none", "hci", "scan"} : bt_discoverable(on, at)
  \/ \E at \in Fail : bt_listen(at)
  \/ \E at \in Fail : bt_connect(at)
  \/ \E m \in Msg, n \in 0..MsgLen : bt_send(m, n)
  \/ Close

Callback ==
  \/ \E over \in BOOLEAN : bt_rx_cb(over)
  \/ \E ok \in BOOLEAN, at \in {"none", "arm"} : bt_accept_cb(ok, at)
  \/ \E err \in BOOLEAN, at \in {"none", "arm"} : bt_connect_cb(err, at)

Next ==
  \/ Command
  \/ \E e \in {"read", "write", "except", "timeout"} : Collect(e)
  \/ Callback

Spec == Init /\ [][Next]_vars

-----------------------------------------------------------------------------
(* The state tells the truth about the socket and the handle, after every      *)
(* command and callback and their failures: idle means no open socket and no   *)
(* handle; otherwise exactly one socket is open, and it is watched by the      *)
(* callback that belongs to the state.                                         *)
SessionExact ==
  LET cb == [listen |-> "accept", connecting |-> "connect", connected |-> "rx"] IN
  IF state = "idle" THEN open = {} /\ fd = NoFd /\ handle = NoHandle
  ELSE /\ live /\ open = {fd}
       /\ handle.fd = fd /\ handle.cb = cb[state]

(* What the peer of a connection gets is whole texts: when the socket stops    *)
(* taking bytes in the middle of one, nothing is sent after it (bt_send).      *)
WholeTexts ==
  state = "connected" =>
    /\ Len(sent) % MsgLen = 0
    /\ \A i \in DOMAIN sent : sent[i][2] = ((i - 1) % MsgLen) + 1
===============================================================================

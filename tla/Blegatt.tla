-------------------------------- MODULE Blegatt --------------------------------
(* The GATT server of tester1/blegatt.cpp: a listening L2CAP socket that stays *)
(* open while a peer is connected, advertising that the controller stops when  *)
(* a peer connects, ATT requests answered from a table of ten attributes, and  *)
(* the console's commands.  Attributes are their handles 1..10, values their   *)
(* lengths; what counts is which handles a reply carries and how long it is.   *)
EXTENDS Integers, Sequences, FiniteSets, SequencesExt

CONSTANTS
  ClientMtus,   \* MTUs a peer asks for
  Writes        \* lengths a peer writes and the console notifies

ATT_MTU_DEFAULT == 23
ATT_MTU_MAX == 128
BLE_VALUE_MAX == 64
HDL_MAX == 10
HDL_CUS_VAL == 9

VARIABLES
  live,         \* blegatt_global is allocated
  state,        \* "idle", "adv", "connected"
  listen_fd,    \* the listening socket is open
  conn,         \* evconn.fd is an accepted socket, and it is open
  handle,       \* the callback of the handle in the loop: "accept", "rx", "none"
  event,        \* this batch holds an event for the handle
  adv_wanted, adv_on,
  adv,          \* the controller is advertising
  peers,        \* peers connected to the controller and not yet accepted
  mtu, cccd, value_len,
  hci_failed,   \* history: an HCI command has failed since `advertise on' last succeeded
  missed,       \* history: since advertising began a peer came and was gone before accept4
  reply,        \* the last ATT reply: its length and the MTU it answers under
  disc          \* the peer's discovery: kind, next handle, handles found, done

vars == <<live, state, listen_fd, conn, handle, event, adv_wanted, adv_on, adv, peers,
          mtu, cccd, value_len, hci_failed, missed, reply, disc>>
sockVars == <<live, state, listen_fd, conn, handle>>
advVars == <<adv_wanted, adv_on, adv, peers, hci_failed, missed>>
attVars == <<mtu, cccd, value_len, reply, disc>>

NoDisc == [kind |-> "none", next |-> 1, found |-> {}, done |-> FALSE]

TypeOK ==
  /\ {live, listen_fd, conn, event, adv_wanted, adv_on, adv, cccd, hci_failed, missed} \subseteq BOOLEAN
  /\ state \in {"idle", "adv", "connected"} /\ handle \in {"none", "accept", "rx"}
  /\ peers \in 0..1
  /\ mtu \in ATT_MTU_DEFAULT..ATT_MTU_MAX /\ value_len \in 0..BLE_VALUE_MAX
  /\ disc.found \subseteq 1..HDL_MAX /\ disc.next \in 1..HDL_MAX + 1

Init ==
  /\ live = FALSE /\ state = "idle" /\ listen_fd = FALSE /\ conn = FALSE
  /\ handle = "none" /\ event = FALSE
  /\ adv_wanted = FALSE /\ adv_on = FALSE /\ adv = FALSE /\ peers = 0
  /\ mtu = ATT_MTU_DEFAULT /\ cccd = FALSE /\ value_len = 0
  /\ hci_failed = FALSE /\ missed = FALSE /\ reply = [len |-> 0, mtu |-> ATT_MTU_DEFAULT] /\ disc = NoDisc

-----------------------------------------------------------------------------
(* The attribute table.                                                        *)

att_type_get(h) ==
  <<"service", "characteristic", "name", "characteristic", "appearance",
    "service", "service", "characteristic", "uuid_chr", "cccd">>[h]
TypeLen(h) == IF h = HDL_CUS_VAL THEN 16 ELSE 2

att_group_end(h) == CASE h = 1 -> 5 [] h = 6 -> 6 [] h = 7 -> 10 [] OTHER -> 0

\* The length of an attribute's value; att_value refuses handles outside 1..10.
att_value(h) == IF h = HDL_CUS_VAL THEN value_len ELSE <<2, 5, 6, 5, 2, 2, 16, 19, 0, 2>>[h]

\* Mutant: the length octet is forgotten.
PairMax_all(m) == m - 1

\* What the opcode and the length octet leave of a reply.
PairMax(m) == m - 2

(* The attributes a request is after: every one (ATT_OP_FIND_INFO_REQ), those  *)
(* of a type (ATT_OP_READ_BY_TYPE_REQ, ATT_OP_READ_BY_GROUP_REQ), or the       *)
(* groups with the value sought (ATT_OP_FIND_BY_TYPE_REQ), here that of the    *)
(* custom service.                                                             *)
Matches(kind, h) ==
  CASE kind = "info" -> TRUE
    [] kind = "characteristics" -> att_type_get(h) = "characteristic"
    [] kind = "values" -> att_type_get(h) = "uuid_chr"
    [] kind = "service" -> att_group_end(h) # 0 /\ h = 7
    [] kind = "services" -> att_type_get(h) = "service" /\ att_group_end(h) # 0

(* What the attribute takes in a reply: the handle and its UUID, the ends of   *)
(* the group, or the handle (and the group's end) and the value.               *)
Whole(kind, h) ==
  CASE kind = "info" -> 2 + TypeLen(h)
    [] kind = "service" -> 4
    [] kind = "services" -> 4 + att_value(h)
    [] OTHER -> 2 + att_value(h)

(* One turn of the loop that fills a reply: pairs of one length, as many as    *)
(* fit the MTU; a value that does not fit is cut and ends the reply.           *)
OnHandle(kind, m, s, h) ==
  LET trunc == Whole(kind, h) > PairMax(m)
      pair  == IF trunc THEN PairMax(m) ELSE Whole(kind, h)
      want  == IF s.pair < 0 THEN pair ELSE s.pair
  IN IF s.stop \/ ~Matches(kind, h) THEN s
     ELSE IF pair # want \/ s.out + pair > m THEN [s EXCEPT !.stop = TRUE, !.pair = want]
     ELSE [hdls |-> Append(s.hdls, h), out |-> s.out + pair, pair |-> want, stop |-> trunc]

\* The loop, turn by turn.
Scan(kind, start, m) ==
  LET scan[n \in 0..HDL_MAX + 1 - start] ==
        IF n = 0
        THEN [hdls |-> <<>>, out |-> IF kind = "service" THEN 1 ELSE 2, pair |-> 0 - 1, stop |-> FALSE]
        ELSE OnHandle(kind, m, scan[n - 1], start + n - 1)
  IN scan

\* The reply to a request from start to the last handle.
Answer(kind, start, m) ==
  LET r == Scan(kind, start, m)[HDL_MAX + 1 - start] IN [hdls |-> r.hdls, len |-> r.out]

\* Where a client goes on after a reply: behind the last handle, or the group.
After(kind, hdls) ==
  IF kind \in {"service", "services"} THEN att_group_end(Last(hdls)) + 1 ELSE Last(hdls) + 1

Sought(kind) ==
  CASE kind = "info" -> 1..HDL_MAX
    [] kind = "characteristics" -> {2, 4, 8}
    [] kind = "values" -> {HDL_CUS_VAL}
    [] kind = "service" -> {7}
    [] kind = "services" -> {1, 6, 7}

-----------------------------------------------------------------------------
(* The controller.  A command is executed or not, and its status arrives or    *)
(* not; `how' is "ok", "early" (nothing done), "off" (advertising was stopped  *)
(* and then a command failed) or "late" (executed, the answer was lost).       *)
How == {"ok", "early", "off", "late"}

AdvAfter(enable, now, how) ==
  CASE how \in {"ok", "late"} -> enable
    [] how = "early" -> now
    [] how = "off" -> FALSE

\* The parts of ble2_t that ble_stop and ble_peer_left rewrite.
Idle == state' = "idle" /\ conn' = FALSE /\ handle' = "none" /\ event' = FALSE
SessionReset == mtu' = ATT_MTU_DEFAULT /\ cccd' = FALSE /\ disc' = NoDisc

(* ble_stop: everything is closed; the controller is told only if advertising  *)
(* was on, and its failure changes nothing here.                               *)
ble_stop(was_on, advNow, how) ==
  /\ Idle /\ SessionReset /\ listen_fd' = FALSE
  /\ adv_wanted' = FALSE /\ adv_on' = FALSE
  /\ adv' = IF was_on THEN AdvAfter(FALSE, advNow, how) ELSE advNow
  /\ hci_failed' = (hci_failed \/ (was_on /\ how # "ok"))
  /\ peers' = 0 /\ missed' = FALSE             \* the listening socket's queue

\* Advertising is started and the listening socket armed, or all is stopped
\* again; off is how the stop's own command ends.  advNow and queue are the
\* controller's advertising and the listening socket's queue before, failed is
\* what is left of hci_failed when all goes well.
StartOrStop(advNow, queue, failed, how, armed, off) ==
  IF how = "ok" /\ armed
  THEN /\ state' = "adv" /\ conn' = FALSE /\ handle' = "accept" /\ event' = FALSE
       /\ listen_fd' = TRUE /\ SessionReset
       /\ adv_on' = TRUE /\ adv' = TRUE /\ adv_wanted' = TRUE
       /\ peers' = queue /\ hci_failed' = failed /\ missed' = FALSE
  ELSE IF how = "ok" THEN ble_stop(TRUE, TRUE, off)
  ELSE /\ Idle /\ SessionReset /\ listen_fd' = FALSE
       /\ adv_wanted' = FALSE /\ adv_on' = FALSE /\ peers' = 0 /\ missed' = FALSE
       /\ adv' = AdvAfter(TRUE, advNow, how) /\ hci_failed' = TRUE

\* Mutant: when advertising cannot be started again the socket stays open.
ble_peer_left_listens(queue, how, armed, off) ==
  IF ~adv_wanted \/ ~listen_fd \/ how # "ok"
  THEN /\ Idle /\ SessionReset /\ adv_on' = FALSE
       /\ UNCHANGED <<listen_fd, adv_wanted, adv, peers, hci_failed, missed>>
  ELSE StartOrStop(adv, queue, hci_failed, how, armed, off)

(* ble_peer_left: with advertising wanted it is started again.                 *)
ble_peer_left(queue, how, armed, off) ==
  IF ~adv_wanted \/ ~listen_fd
  THEN /\ Idle /\ SessionReset /\ adv_on' = FALSE
       /\ UNCHANGED <<listen_fd, adv_wanted, adv, peers, hci_failed, missed>>
  ELSE StartOrStop(adv, queue, hci_failed, how, armed, off)

-----------------------------------------------------------------------------
(* The console's commands.                                                     *)

blegatt_init == ~live /\ live' = TRUE
                /\ UNCHANGED <<state, listen_fd, conn, handle, event, advVars, attVars>>

blegatt_destroy(off) == live /\ live' = FALSE /\ ble_stop(adv_on, adv, off)
                        /\ UNCHANGED <<value_len, reply>>

\* `advertise off' and `close'.
Stop(off) == live /\ ble_stop(adv_on, adv, off) /\ UNCHANGED <<live, value_len, reply>>

\* `advertise on': what runs is stopped first; then the adapter, the socket,
\* the controller and the handle.
ble_advertise(sock, how, armed, off) ==
  LET runs == state # "idle"
      advNow == IF runs /\ adv_on THEN AdvAfter(FALSE, adv, off) ELSE adv
  IN /\ live
     /\ IF sock THEN StartOrStop(advNow, 0, FALSE, how, armed, off)
        ELSE IF runs THEN ble_stop(adv_on, adv, off)
        ELSE UNCHANGED <<state, listen_fd, conn, handle, event, advVars, mtu, cccd, disc>>
     /\ UNCHANGED <<live, value_len, reply>>

\* ble_notify: the peer must have asked for it and the text must fit its MTU.  The
\* attribute has the text also when the notification cannot be sent.
ble_notify(n, sent, how, armed, off) ==
  /\ live /\ state = "connected" /\ conn /\ cccd
  /\ n <= mtu - 3 /\ n <= BLE_VALUE_MAX
  /\ value_len' = n
  /\ IF sent THEN /\ reply' = [len |-> 3 + n, mtu |-> mtu]
                  /\ UNCHANGED <<sockVars, event, advVars, mtu, cccd, disc>>
     ELSE ble_peer_left(peers, how, armed, off) /\ UNCHANGED <<live, reply>>

-----------------------------------------------------------------------------
(* The peer and the loop.                                                      *)

\* A central connects: the controller stops advertising by itself.
PeerConnects ==
  /\ adv /\ listen_fd /\ peers = 0
  /\ adv' = FALSE /\ peers' = 1
  /\ UNCHANGED <<sockVars, event, adv_wanted, adv_on, hci_failed, missed, attVars>>

\* It is gone again before accept4: the listening socket's queue is empty, and
\* nothing tells the program that the controller no longer advertises.
PeerGivesUp ==
  /\ peers = 1 /\ peers' = 0 /\ missed' = TRUE
  /\ UNCHANGED <<sockVars, event, adv_wanted, adv_on, adv, hci_failed, attVars>>

\* The loop finds the handle ready.  Its callback comes later, unless the handle
\* is cancelled first, which takes it off the loop's list.
Collect ==
  /\ ~event
  /\ handle = "rx" \/ (handle = "accept" /\ peers > 0)
  /\ event' = TRUE
  /\ UNCHANGED <<sockVars, advVars, attVars>>

\* ble_accept_cb when accept4 fails: with EAGAIN once the peer is gone, or with an
\* error that leaves it in the queue (no descriptor) or loses it.
AcceptFails(kept) ==
  /\ event /\ handle = "accept" /\ event' = FALSE
  /\ peers' = IF kept THEN peers ELSE 0
  /\ missed' = (missed \/ peers' # peers)
  /\ UNCHANGED <<sockVars, adv_wanted, adv_on, adv, hci_failed, attVars>>

ble_accept_cb(armed, how, armed2, off) ==
  /\ event /\ handle = "accept" /\ peers > 0
  /\ IF armed
     THEN /\ state' = "connected" /\ conn' = TRUE /\ handle' = "rx" /\ event' = FALSE
          /\ adv_on' = FALSE /\ peers' = 0 /\ SessionReset
          /\ UNCHANGED <<live, listen_fd, adv_wanted, adv, hci_failed, missed>>
     ELSE ble_peer_left(0, how, armed2, off) /\ UNCHANGED live
  /\ UNCHANGED <<value_len, reply>>

\* ble_rx_cb on the end of the connection, or a reply that cannot be sent.
PeerLeaves(how, armed, off) ==
  /\ event /\ handle = "rx"
  /\ ble_peer_left(peers, how, armed, off) /\ UNCHANGED <<live, value_len, reply>>

Replied(n) == reply' = [len |-> n, mtu |-> mtu]

\* ATT_OP_MTU_REQ: the reply is sent under the old MTU; the new one is the
\* smaller of the two.
MtuReq(client) ==
  /\ event /\ handle = "rx" /\ event' = FALSE
  /\ IF client < ATT_MTU_DEFAULT THEN mtu' = mtu /\ Replied(5)
     ELSE mtu' = (IF client < ATT_MTU_MAX THEN client ELSE ATT_MTU_MAX) /\ Replied(3)
  /\ UNCHANGED <<sockVars, advVars, cccd, value_len, disc>>

\* One request of the peer's discovery, and what it makes of the reply.
DiscoverReq(kind) ==
  LET d == IF disc.kind = kind THEN disc ELSE [NoDisc EXCEPT !.kind = kind]
      a == Answer(kind, d.next, mtu)
  IN /\ event /\ handle = "rx" /\ event' = FALSE
     /\ ~d.done
     /\ disc' = IF a.hdls = <<>> THEN [d EXCEPT !.done = TRUE]
                ELSE [d EXCEPT !.next = After(kind, a.hdls), !.found = @ \union ToSet(a.hdls)]
     /\ Replied(IF a.hdls = <<>> THEN 5 ELSE a.len)
     /\ UNCHANGED <<sockVars, advVars, mtu, cccd, value_len>>

\* ATT_OP_READ_REQ (off = 0) and ATT_OP_READ_BLOB_REQ.
ReadReq(h, off) ==
  LET n == IF h \in 1..HDL_MAX THEN att_value(h) ELSE 0 - 1
      rest == IF n - off > mtu - 1 THEN mtu - 1 ELSE n - off
  IN /\ event /\ handle = "rx" /\ event' = FALSE
     /\ Replied(IF n < 0 \/ off > n THEN 5 ELSE 1 + rest)
     /\ UNCHANGED <<sockVars, advVars, mtu, cccd, value_len, disc>>

\* att_write: the value takes up to 64 bytes, the client configuration two, and
\* nothing else can be written.
att_write(h, n) == (h = HDL_CUS_VAL /\ n <= BLE_VALUE_MAX) \/ (h = 10 /\ n = 2)

\* ATT_OP_WRITE_REQ, and ATT_OP_WRITE_CMD, which has no answer.
WriteReq(h, n, on, rsp) ==
  /\ event /\ handle = "rx" /\ event' = FALSE
  /\ value_len' = IF att_write(h, n) /\ h = HDL_CUS_VAL THEN n ELSE value_len
  /\ cccd' = IF att_write(h, n) /\ h = 10 THEN on ELSE cccd
  /\ IF rsp THEN Replied(IF att_write(h, n) THEN 1 ELSE 5) ELSE UNCHANGED reply
  /\ UNCHANGED <<sockVars, advVars, mtu, disc>>

\* A request that is too short, or one the server does not know.
OtherReq ==
  /\ event /\ handle = "rx" /\ event' = FALSE /\ Replied(5)
  /\ UNCHANGED <<sockVars, advVars, mtu, cccd, value_len, disc>>

Kinds == {"info", "characteristics", "values", "service", "services"}

Next ==
  \/ blegatt_init
  \/ \E off \in How : blegatt_destroy(off) \/ Stop(off)
  \/ \E s, a \in BOOLEAN, how, off \in How : ble_advertise(s, how, a, off)
  \/ \E n \in Writes, s, a \in BOOLEAN, how, off \in How : ble_notify(n, s, how, a, off)
  \/ PeerConnects
  \/ Collect
  \/ PeerGivesUp
  \/ \E kept \in BOOLEAN : AcceptFails(kept)
  \/ \E a, a2 \in BOOLEAN, how, off \in How : ble_accept_cb(a, how, a2, off)
  \/ \E a \in BOOLEAN, how, off \in How : PeerLeaves(how, a, off)
  \/ \E m \in ClientMtus : MtuReq(m)
  \/ \E k \in Kinds : DiscoverReq(k)
  \/ \E h \in {1, 3, HDL_CUS_VAL, 11}, off \in {0, 22} : ReadReq(h, off)
  \/ \E h \in {3, HDL_CUS_VAL, 10}, n \in Writes, on, rsp \in BOOLEAN : WriteReq(h, n, on, rsp)
  \/ OtherReq

Spec == Init /\ [][Next]_vars

-----------------------------------------------------------------------------
(* The state tells the truth about sockets, handle and controller after every  *)
(* command, every peer's coming and going and every failure on the way: idle   *)
(* leaves no socket, no handle and no wish to advertise; otherwise the         *)
(* listening socket stays open and the handle belongs to the state (ble_stop,  *)
(* ble_peer_left).  As long as the controller's answers arrive, it advertises  *)
(* only in the state adv, and there it does unless a peer has just connected,  *)
(* or one came and went before accept4: then the state stays adv though nobody *)
(* can find the server, until a command stops or starts it.                    *)
ServerExact ==
  /\ state = "idle" => ~listen_fd /\ ~conn /\ handle = "none" /\ ~adv_wanted /\ ~adv_on
  /\ state # "idle" => live /\ listen_fd /\ adv_wanted
  /\ state = "adv" => ~conn /\ handle = "accept" /\ adv_on
  /\ state = "connected" => conn /\ handle = "rx" /\ ~adv_on
  /\ ~hci_failed => (adv => state = "adv") /\ (state = "adv" => adv \/ peers > 0 \/ missed)
  /\ missed => state = "adv" /\ ~adv /\ peers = 0

(* No reply or notification is longer than the MTU in force when it is made,   *)
(* and a peer that asks on from where the last reply ended, whatever MTU it    *)
(* agrees on in between, finds every attribute it looks for (att_on_pdu).      *)
RepliesComplete ==
  /\ reply.len <= reply.mtu
  /\ disc.done => disc.found = Sought(disc.kind)
================================================================================

--------------------------- MODULE BluetoothProofs ---------------------------
(***************************************************************************)
(* Two Bluetooth programs: the RFCOMM session of btrfcomm.cpp, for any     *)
(* descriptors and texts, and the GATT server of blegatt.cpp, for any MTUs *)
(* and lengths.                                                            *)
(***************************************************************************)
EXTENDS Clients, QentProofs

-----------------------------------------------------------------------------
(* btrfcomm.cpp.  -1 is not a descriptor, descriptors are numbers and there *)
(* are at least two, so that a connection can be accepted.                  *)
Descriptors ==
  /\ Fd \subseteq Nat /\ NoFd \notin Fd
  /\ Fd # {} /\ \A f \in Fd : Fd \ {f} # {}

(* A text has a byte. *)
Texts == MsgLen \in Nat \ {0}

RInv == R!TypeOK /\ R!SessionExact /\ R!WholeTexts

(* The kernel gives the lowest free number. *)
LEMMA FreeFd ==
  ASSUME NEW o, Fd \subseteq Nat, Fd \ o # {} PROVE R!Free(o) \in Fd \ o
<1>1. \E f \in Fd \ o : \A g \in Fd \ o : f <= g
  BY LeastNat
<1>. QED BY <1>1 DEF R!Free

(* A session that is closed has no socket and no handle, whatever it was. *)
LEMMA Closed ==
  ASSUME RInv
  PROVE  R!bt_session_close(R!Now) =
           [state |-> "idle", fd |-> NoFd, open |-> {}, handle |-> R!NoHandle]
<1>1. open \ {r_fd} = {}
  BY DEF RInv, R!SessionExact
<1>. QED BY <1>1 DEF R!bt_session_close, R!Now

(* The two ends of every command and callback that changes the session: it  *)
(* is closed, or it watches one socket.                                     *)
ClosedAfter ==
  /\ r_state' = "idle" /\ r_fd' = NoFd /\ open' = {} /\ r_handle' = R!NoHandle
  /\ r_event' = "none"

Watched(st, c) ==
  /\ r_state' = st /\ r_fd' \in Fd /\ open' = {r_fd'} /\ r_event' = "none"
  /\ \E limit \in BOOLEAN : r_handle' = [fd |-> r_fd', cb |-> c, limit |-> limit]

Kept == /\ r_state' = r_state /\ r_fd' = r_fd /\ open' = open /\ r_handle' = r_handle

(* The variables the session does not name. *)
Around ==
  /\ hci_up' \in BOOLEAN /\ scan' \subseteq {"inquiry", "page"} /\ sent' \in Seq(R!Byte)

(* A closed session satisfies the invariant whatever happened before.      *)
LEMMA ClosedOK ==
  ASSUME Around, r_live' \in BOOLEAN, ClosedAfter PROVE RInv'
BY DEF Around, ClosedAfter, RInv, R!TypeOK, R!SessionExact, R!WholeTexts

(* The callback that belongs to a state. *)
CallbackOf(st) ==
  CASE st = "listen" -> "accept" [] st = "connecting" -> "connect" [] st = "connected" -> "rx"

(* The callback SessionExact asks for is the one the state gives.          *)
LEMMA Expected ==
  ASSUME NEW st \in {"listen", "connecting", "connected"}
  PROVE  [listen |-> "accept", connecting |-> "connect", connected |-> "rx"][st] = CallbackOf(st)
BY DEF CallbackOf

(* So does a session whose descriptor is the one handle's.                 *)
LEMMA WatchedOK ==
  ASSUME Around, r_live' = TRUE, NEW st \in {"listen", "connecting", "connected"},
         Watched(st, CallbackOf(st)), st = "connected" => sent' = <<>>, Texts
  PROVE  RInv'
<1>1. PICK limit \in BOOLEAN :
         r_handle' = [fd |-> r_fd', cb |-> CallbackOf(st), limit |-> limit]
  BY DEF Watched
<1>2. r_handle' \in R!Handles
  BY <1>1 DEF R!Handles, Watched, CallbackOf
<1>3. R!TypeOK'
  BY <1>2 DEF Around, Watched, R!TypeOK
<1>4. R!SessionExact'
  BY <1>1, Expected DEF Watched, R!SessionExact
<1>5. R!WholeTexts'
  <2>1. CASE st = "connected"
    <3>1. sent' = <<>> /\ Len(sent') = 0 /\ DOMAIN sent' = {}
      BY <2>1
    <3>2. 0 % MsgLen = 0
      BY DEF Texts
    <3>. QED BY <3>1, <3>2 DEF R!WholeTexts
  <2>2. CASE st # "connected"
    BY <2>2 DEF Watched, R!WholeTexts
  <2>. QED BY <2>1, <2>2
<1>. QED BY <1>3, <1>4, <1>5 DEF RInv

(* A step that keeps the session keeps the invariant.                      *)
LEMMA KeptOK ==
  ASSUME RInv, Around, r_live' = r_live \/ r_live' = TRUE, Kept, sent' = sent,
         r_event' \in {"none", "read", "write", "except", "timeout"}
  PROVE  RInv'
BY DEF Around, Kept, RInv, R!TypeOK, R!SessionExact, R!WholeTexts

(* bt_session_close on the present session. *)
LEMMA CloseNow ==
  ASSUME RInv, R!Becomes(R!bt_session_close(R!Now)) PROVE ClosedAfter
BY Closed DEF R!Becomes, ClosedAfter

(* Bytes behind whole texts count from the first byte of a text again. *)
LEMMA ModWhole ==
  ASSUME NEW n \in Nat, NEW m \in Nat \ {0}, n % m = 0, NEW j \in 0..(m - 1)
  PROVE  (n + j) % m = j
<1>. DEFINE q == n \div m
            p == (n + j) \div m
            r == (n + j) % m
<1>1. q \in Int /\ n = m * q
  OBVIOUS
<1>2. p \in Int /\ r \in 0..(m - 1) /\ n + j = m * p + r
  OBVIOUS
<1>. HIDE DEF q, p, r
<1>3. m * q + j = m * p + r
  BY <1>1, <1>2
<1>4. CASE q >= p + 1
  <2>1. m * q >= m * (p + 1)
    BY <1>1, <1>2, <1>4
  <2>2. m * (p + 1) = m * p + m
    BY <1>1, <1>2
  <2>. QED BY <1>1, <1>2, <1>3, <2>1, <2>2
<1>5. CASE p >= q + 1
  <2>1. m * p >= m * (q + 1)
    BY <1>1, <1>2, <1>5
  <2>2. m * (q + 1) = m * q + m
    BY <1>1, <1>2
  <2>. QED BY <1>1, <1>2, <1>3, <2>1, <2>2
<1>6. CASE p = q
  <2>1. r = j
    BY <1>1, <1>2, <1>3, <1>6
  <2>. QED BY <2>1 DEF r
<1>. QED BY <1>1, <1>2, <1>4, <1>5, <1>6

(* A whole text more is again a whole number of texts.                     *)
LEMMA ModNext ==
  ASSUME NEW n \in Nat, NEW m \in Nat \ {0}, n % m = 0
  PROVE  (n + m) % m = 0
<1>. DEFINE q == n \div m
            p == (n + m) \div m
            r == (n + m) % m
<1>1. q \in Int /\ n = m * q
  OBVIOUS
<1>2. p \in Int /\ r \in 0..(m - 1) /\ n + m = m * p + r
  OBVIOUS
<1>. HIDE DEF q, p, r
<1>3. m * (q + 1) = m * q + m
  BY <1>1
<1>4. m * (q + 1) = m * p + r
  BY <1>1, <1>2, <1>3
<1>5. CASE q + 1 >= p + 1
  <2>1. m * (q + 1) >= m * (p + 1)
    BY <1>1, <1>2, <1>5
  <2>2. m * (p + 1) = m * p + m
    BY <1>1, <1>2
  <2>. QED BY <1>1, <1>2, <1>4, <2>1, <2>2
<1>6. CASE p >= (q + 1) + 1
  <2>1. m * p >= m * ((q + 1) + 1)
    BY <1>1, <1>2, <1>6
  <2>2. m * ((q + 1) + 1) = m * (q + 1) + m
    BY <1>1, <1>2
  <2>. QED BY <1>1, <1>2, <1>4, <2>1, <2>2
<1>7. CASE p = q + 1
  <2>1. r = 0
    BY <1>1, <1>2, <1>4, <1>7
  <2>. QED BY <2>1 DEF r
<1>. QED BY <1>1, <1>2, <1>5, <1>6, <1>7

(* bt_send: a whole text more, or the session is closed. *)
LEMMA SendStep ==
  ASSUME Texts, RInv, NEW m \in Msg, NEW n \in 0..MsgLen, R!bt_send(m, n) PROVE RInv'
<1>. DEFINE t == [i \in 1..n |-> <<m, i>>]
<1>1. /\ r_live' = r_live /\ hci_up' = hci_up /\ scan' = scan /\ sent' = sent \o t
      /\ MsgLen \in Nat \ {0} /\ n \in Nat /\ n <= MsgLen /\ r_live
  BY DEF R!bt_send, Texts
<1>2. t \in Seq(R!Byte) /\ Len(t) = n /\ \A i \in 1..n : t[i] = <<m, i>>
  <2>1. t \in [1..n -> R!Byte]
    BY <1>1 DEF R!Byte
  <2>. QED BY <1>1, <2>1
<1>3. sent \in Seq(R!Byte) /\ Len(sent) \in Nat
  BY LenProperties DEF RInv, R!TypeOK
<1>. HIDE DEF t
<1>4. /\ sent' \in Seq(R!Byte) /\ Len(sent') = Len(sent) + n
      /\ \A i \in 1..Len(sent) + n :
            sent'[i] = IF i <= Len(sent) THEN sent[i] ELSE t[i - Len(sent)]
  BY <1>1, <1>2, <1>3, ConcatProperties
<1>5. Around
  BY <1>1, <1>4 DEF Around, RInv, R!TypeOK
<1>6. CASE n = MsgLen
  <2>1. Kept /\ r_event' = r_event /\ r_state = "connected"
    BY <1>6 DEF R!bt_send, Kept
  <2>2. R!TypeOK' /\ R!SessionExact'
    BY <1>1, <1>4, <2>1 DEF Kept, RInv, R!TypeOK, R!SessionExact
  <2>3. /\ Len(sent) % MsgLen = 0
        /\ \A i \in 1..Len(sent) : sent[i][2] = ((i - 1) % MsgLen) + 1
    BY <1>3, <2>1, LenProperties DEF RInv, R!WholeTexts
  <2>4. Len(sent') % MsgLen = 0
    BY <1>1, <1>3, <1>4, <1>6, <2>3, ModNext
  <2>5. ASSUME NEW i \in 1..Len(sent') PROVE sent'[i][2] = ((i - 1) % MsgLen) + 1
    <3>1. CASE i <= Len(sent)
      BY <1>3, <1>4, <2>3, <3>1
    <3>2. CASE i > Len(sent)
      <4>. DEFINE j == i - Len(sent)
      <4>1. j \in 1..n /\ j - 1 \in 0..(MsgLen - 1) /\ i - 1 = Len(sent) + (j - 1)
        BY <1>1, <1>3, <1>4, <1>6, <3>2
      <4>2. sent'[i] = <<m, j>>
        BY <1>2, <1>3, <1>4, <3>2, <4>1
      <4>. HIDE DEF j
      <4>3. (i - 1) % MsgLen = j - 1
        BY <1>1, <1>3, <2>3, <4>1, ModWhole
      <4>. QED BY <1>1, <4>1, <4>2, <4>3
    <3>. QED BY <1>3, <1>4, <3>1, <3>2
  <2>6. DOMAIN sent' = 1..Len(sent')
    BY <1>4, LenProperties
  <2>. QED BY <2>2, <2>4, <2>5, <2>6 DEF RInv, R!WholeTexts
<1>7. CASE n # MsgLen
  BY <1>1, <1>5, <1>7, CloseNow, ClosedOK DEF R!bt_send
<1>. QED BY <1>6, <1>7

(* bt_listen: the old session is closed and the new socket watched, or closed. *)
LEMMA ListenStep ==
  ASSUME Descriptors, Texts, RInv, NEW at \in R!Fail, R!bt_listen(at) PROVE RInv'
<1>. DEFINE c == [state |-> "idle", fd |-> NoFd, open |-> {}, handle |-> R!NoHandle]
            f == R!Free({})
            s == [state |-> "listen", fd |-> f, open |-> {f}, handle |-> R!NoHandle]
<1>1. R!bt_session_close(R!Now) = c
  BY Closed
<1>2. f \in Fd
  <2>1. Fd \ {} # {} /\ Fd \subseteq Nat
    BY DEF Descriptors
  <2>. QED BY <2>1, FreeFd
<1>3. [R!bt_rfcomm_socket(c) EXCEPT !.state = "listen"] = s
  <2>1. c.open = {} /\ R!Free(c.open) = f /\ c.open \union {f} = {f}
    OBVIOUS
  <2>2. R!bt_rfcomm_socket(c) = [c EXCEPT !.fd = f, !.open = {f}]
    BY <2>1 DEF R!bt_rfcomm_socket
  <2>. HIDE DEF f
  <2>3. R!bt_rfcomm_socket(c) =
          [state |-> "idle", fd |-> f, open |-> {f}, handle |-> R!NoHandle]
    BY <2>2
  <2>. QED BY <2>3
<1>4. R!bt_session_close(s) = c
  BY DEF R!bt_session_close
<1>5. R!bt_arm(s, "accept", FALSE) =
        [s EXCEPT !.handle = [fd |-> f, cb |-> "accept", limit |-> FALSE]]
  BY DEF R!bt_arm
<1>6. r_live /\ r_live' = r_live /\ scan' = scan /\ sent' = sent /\ hci_up' \in BOOLEAN
  BY DEF R!bt_listen, R!bt_hci_up, RInv, R!TypeOK
<1>7. Around /\ r_live' = TRUE
  BY <1>6 DEF Around, RInv, R!TypeOK
<1>8. CASE at = "hci"
  <2>1. Kept /\ r_event' = r_event
    BY <1>8 DEF R!bt_listen, Kept
  <2>. QED BY <1>6, <1>7, <2>1, KeptOK DEF RInv, R!TypeOK
<1>9. CASE at \in {"socket", "bind"}
  <2>1. R!Becomes(c)
    BY <1>1, <1>9 DEF R!bt_listen
  <2>2. ClosedAfter
    BY <2>1 DEF R!Becomes, ClosedAfter
  <2>. QED BY <1>7, <2>2, ClosedOK
<1>10. CASE at = "arm"
  <2>1. R!Becomes(R!bt_session_close(s))
    BY <1>1, <1>3, <1>10 DEF R!bt_listen
  <2>2. ClosedAfter
    BY <1>4, <2>1 DEF R!Becomes, ClosedAfter
  <2>. QED BY <1>7, <2>2, ClosedOK
<1>11. CASE at = "none"
  <2>1. R!Becomes(R!bt_arm(s, "accept", FALSE))
    BY <1>1, <1>3, <1>11 DEF R!bt_listen
  <2>2. Watched("listen", "accept")
    BY <1>2, <1>5, <2>1 DEF R!Becomes, Watched
  <2>3. CallbackOf("listen") = "accept"
    BY DEF CallbackOf
  <2>. QED BY <1>7, <2>2, <2>3, WatchedOK
<1>. QED BY <1>8, <1>9, <1>10, <1>11 DEF R!Fail

(* bt_connect, likewise. *)
LEMMA ConnectStep ==
  ASSUME Descriptors, Texts, RInv, NEW at \in R!Fail, R!bt_connect(at) PROVE RInv'
<1>. DEFINE c == [state |-> "idle", fd |-> NoFd, open |-> {}, handle |-> R!NoHandle]
            f == R!Free({})
            s == [state |-> "connecting", fd |-> f, open |-> {f}, handle |-> R!NoHandle]
<1>1. R!bt_session_close(R!Now) = c
  BY Closed
<1>2. f \in Fd
  <2>1. Fd \ {} # {} /\ Fd \subseteq Nat
    BY DEF Descriptors
  <2>. QED BY <2>1, FreeFd
<1>3. [R!bt_rfcomm_socket(c) EXCEPT !.state = "connecting"] = s
  <2>1. c.open = {} /\ R!Free(c.open) = f /\ c.open \union {f} = {f}
    OBVIOUS
  <2>2. R!bt_rfcomm_socket(c) = [c EXCEPT !.fd = f, !.open = {f}]
    BY <2>1 DEF R!bt_rfcomm_socket
  <2>. HIDE DEF f
  <2>3. R!bt_rfcomm_socket(c) =
          [state |-> "idle", fd |-> f, open |-> {f}, handle |-> R!NoHandle]
    BY <2>2
  <2>. QED BY <2>3
<1>4. R!bt_session_close(s) = c
  BY DEF R!bt_session_close
<1>5. R!bt_arm(s, "connect", TRUE) =
        [s EXCEPT !.handle = [fd |-> f, cb |-> "connect", limit |-> TRUE]]
  BY DEF R!bt_arm
<1>6. r_live /\ r_live' = r_live /\ scan' = scan /\ sent' = sent /\ hci_up' \in BOOLEAN
  BY DEF R!bt_connect, R!bt_hci_up, RInv, R!TypeOK
<1>7. Around /\ r_live' = TRUE
  BY <1>6 DEF Around, RInv, R!TypeOK
<1>8. CASE at = "hci"
  <2>1. Kept /\ r_event' = r_event
    BY <1>8 DEF R!bt_connect, Kept
  <2>. QED BY <1>6, <1>7, <2>1, KeptOK DEF RInv, R!TypeOK
<1>9. CASE at \in {"socket", "bind"}
  <2>1. R!Becomes(c)
    BY <1>1, <1>9 DEF R!bt_connect
  <2>2. ClosedAfter
    BY <2>1 DEF R!Becomes, ClosedAfter
  <2>. QED BY <1>7, <2>2, ClosedOK
<1>10. CASE at = "arm"
  <2>1. R!Becomes(R!bt_session_close(s))
    BY <1>1, <1>3, <1>10 DEF R!bt_connect
  <2>2. ClosedAfter
    BY <1>4, <2>1 DEF R!Becomes, ClosedAfter
  <2>. QED BY <1>7, <2>2, ClosedOK
<1>11. CASE at = "none"
  <2>1. R!Becomes(R!bt_arm(s, "connect", TRUE))
    BY <1>1, <1>3, <1>11 DEF R!bt_connect
  <2>2. Watched("connecting", "connect")
    BY <1>2, <1>5, <2>1 DEF R!Becomes, Watched
  <2>3. CallbackOf("connecting") = "connect"
    BY DEF CallbackOf
  <2>. QED BY <1>7, <2>2, <2>3, WatchedOK
<1>. QED BY <1>8, <1>9, <1>10, <1>11 DEF R!Fail

(* What handle and state say of each other. *)
LEMMA CallbackState ==
  ASSUME RInv, NEW st \in {"listen", "connecting", "connected"}, r_handle.cb = CallbackOf(st)
  PROVE  r_state = st /\ r_live /\ open = {r_fd} /\ r_fd \in Fd \cup {NoFd} /\ r_handle.fd = r_fd
         /\ r_handle \in R!Handles
<1>1. CallbackOf(st) # "none"
  BY DEF CallbackOf
<1>2. r_handle # R!NoHandle
  BY <1>1 DEF R!NoHandle
<1>3. r_state # "idle"
  BY <1>2 DEF RInv, R!SessionExact
<1>4. r_state \in {"listen", "connecting", "connected"}
  BY <1>3 DEF RInv, R!TypeOK
<1>5. r_live /\ open = {r_fd} /\ r_handle.fd = r_fd /\ r_handle.cb = CallbackOf(r_state)
  BY <1>3, <1>4, Expected DEF RInv, R!SessionExact
<1>6. r_state = st
  BY <1>4, <1>5 DEF CallbackOf
<1>. QED BY <1>2, <1>5, <1>6 DEF RInv, R!TypeOK

(* A callback that only waits on. *)
LEMMA StaysOK ==
  ASSUME RInv, R!Stays, r_live' = r_live, hci_up' = hci_up, scan' = scan PROVE RInv'
<1>1. Kept /\ sent' = sent /\ r_event' = "none"
  BY DEF R!Stays, Kept
<1>2. Around
  BY <1>1 DEF Around, RInv, R!TypeOK
<1>. QED BY <1>1, <1>2, KeptOK

(* bt_rx_cb closes the session at the end of the stream. *)
LEMMA RxStep ==
  ASSUME RInv, NEW over \in BOOLEAN, R!bt_rx_cb(over) PROVE RInv'
<1>1. r_live' = r_live /\ hci_up' = hci_up /\ scan' = scan
  BY DEF R!bt_rx_cb
<1>2. CASE R!Stays
  BY <1>1, <1>2, StaysOK
<1>3. CASE R!Becomes(R!bt_session_close(R!Now)) /\ sent' = sent
  <2>1. Around /\ r_live' \in BOOLEAN
    BY <1>1, <1>3 DEF Around, RInv, R!TypeOK
  <2>. QED BY <1>3, <2>1, CloseNow, ClosedOK
<1>. QED BY <1>2, <1>3 DEF R!bt_rx_cb

(* bt_accept_cb: the accepted socket takes the place of the listening one. *)
LEMMA AcceptStep ==
  ASSUME Descriptors, Texts, RInv, NEW ok \in BOOLEAN, NEW at \in {"none", "arm"},
         R!bt_accept_cb(ok, at)
  PROVE  RInv'
<1>. DEFINE acc == R!Free(open)
            s == [state |-> "connected", fd |-> acc, open |-> {acc}, handle |-> R!NoHandle]
            t == [R!bt_session_close([R!Now EXCEPT !.open = @ \union {acc}])
                    EXCEPT !.fd = acc, !.state = "connected"]
<1>1. r_live' = r_live /\ hci_up' = hci_up /\ scan' = scan /\ r_handle.cb = "accept"
  BY DEF R!bt_accept_cb, R!Enter
<1>2. CASE R!Stays
  BY <1>1, <1>2, StaysOK
<1>3. CASE R!BecomesConnection(IF at = "arm" THEN R!bt_session_close(t) ELSE R!bt_arm_rx(t))
  <2>1. CallbackOf("listen") = "accept" /\ CallbackOf("connected") = "rx"
    BY DEF CallbackOf
  <2>2. r_live /\ open = {r_fd} /\ r_handle \in R!Handles /\ r_handle.fd = r_fd
    BY <1>1, <2>1, CallbackState
  <2>3. r_fd \in Fd
    BY <2>2 DEF R!Handles
  <2>4. acc \in Fd \ {r_fd}
    <3>1. Fd \subseteq Nat /\ Fd \ {r_fd} # {}
      BY <2>3 DEF Descriptors
    <3>. QED BY <2>2, <3>1, FreeFd
  <2>. HIDE DEF acc
  <2>5. t = s
    <3>. DEFINE u == [state |-> r_state, fd |-> r_fd, open |-> open \union {acc},
                      handle |-> r_handle]
    <3>1. [R!Now EXCEPT !.open = @ \union {acc}] = u
      BY DEF R!Now
    <3>2. (open \union {acc}) \ {r_fd} = {acc}
      BY <2>2, <2>4
    <3>3. R!bt_session_close(u) =
            [state |-> "idle", fd |-> NoFd, open |-> {acc}, handle |-> R!NoHandle]
      BY <3>2 DEF R!bt_session_close
    <3>4. t = [[state |-> "idle", fd |-> NoFd, open |-> {acc}, handle |-> R!NoHandle]
                 EXCEPT !.fd = acc, !.state = "connected"]
      BY <3>1, <3>3
    <3>. HIDE DEF t
    <3>. QED BY <3>4
  <2>6. sent' = <<>> /\ Around /\ r_live' = TRUE
    BY <1>1, <1>3, <2>2, EmptySeq DEF R!BecomesConnection, Around, RInv, R!TypeOK
  <2>7. CASE at = "arm"
    <3>1. R!Becomes(R!bt_session_close(s))
      BY <1>3, <2>5, <2>7 DEF R!BecomesConnection
    <3>2. ClosedAfter
      BY <3>1 DEF R!bt_session_close, R!Becomes, ClosedAfter
    <3>. QED BY <2>6, <3>2, ClosedOK
  <2>8. CASE at # "arm"
    <3>1. R!Becomes(R!bt_arm_rx(s))
      BY <1>3, <2>5, <2>8 DEF R!BecomesConnection
    <3>2. Watched("connected", "rx")
      BY <2>4, <3>1 DEF R!bt_arm_rx, R!bt_arm, R!Becomes, Watched
    <3>. QED BY <2>1, <2>6, <3>2, WatchedOK
  <2>. QED BY <2>7, <2>8
<1>. QED BY <1>2, <1>3 DEF R!bt_accept_cb

(* bt_connect_cb: the socket is connected, or closed. *)
LEMMA ConnectedStep ==
  ASSUME Texts, RInv, NEW err \in BOOLEAN, NEW at \in {"none", "arm"}, R!bt_connect_cb(err, at)
  PROVE  RInv'
<1>. DEFINE s == [state |-> "connected", fd |-> r_fd, open |-> open, handle |-> r_handle]
            t == [R!Now EXCEPT !.state = "connected"]
<1>1. r_live' = r_live /\ hci_up' = hci_up /\ scan' = scan /\ r_handle.cb = "connect"
  BY DEF R!bt_connect_cb, R!Enter
<1>2. CASE R!Stays
  BY <1>1, <1>2, StaysOK
<1>3. CASE R!BecomesConnection(R!bt_session_close(t)) \/ R!BecomesConnection(R!bt_arm_rx(t))
  <2>1. CallbackOf("connecting") = "connect" /\ CallbackOf("connected") = "rx"
    BY DEF CallbackOf
  <2>2. r_live /\ open = {r_fd} /\ r_handle \in R!Handles /\ r_handle.fd = r_fd
    BY <1>1, <2>1, CallbackState
  <2>3. r_fd \in Fd
    BY <2>2 DEF R!Handles
  <2>4. t = s
    BY DEF R!Now
  <2>5. sent' = <<>> /\ Around /\ r_live' = TRUE
    BY <1>1, <1>3, <2>2, EmptySeq DEF R!BecomesConnection, Around, RInv, R!TypeOK
  <2>6. CASE R!BecomesConnection(R!bt_session_close(t))
    <3>1. R!Becomes(R!bt_session_close(s))
      BY <2>4, <2>6 DEF R!BecomesConnection
    <3>2. ClosedAfter
      BY <2>2, <3>1 DEF R!bt_session_close, R!Becomes, ClosedAfter
    <3>. QED BY <2>5, <3>2, ClosedOK
  <2>7. CASE R!BecomesConnection(R!bt_arm_rx(t))
    <3>1. R!Becomes(R!bt_arm_rx(s))
      BY <2>4, <2>7 DEF R!BecomesConnection
    <3>2. Watched("connected", "rx")
      BY <2>2, <2>3, <3>1 DEF R!bt_arm_rx, R!bt_arm, R!Becomes, Watched
    <3>. QED BY <2>1, <2>5, <3>2, WatchedOK
  <2>. QED BY <1>3, <2>6, <2>7
<1>. QED BY <1>2, <1>3 DEF R!bt_connect_cb

(* The invariant is inductive. *)
LEMMA SessionStep ==
  ASSUME Descriptors, Texts, RInv, [R!Next]_R!vars PROVE RInv'
<1>1. CASE R!bt_init
  <2>1. Kept /\ r_event' = r_event /\ sent' = sent /\ Around /\ r_live' = TRUE
    BY <1>1 DEF R!bt_init, R!session, Kept, Around, RInv, R!TypeOK
  <2>. QED BY <2>1, KeptOK DEF RInv, R!TypeOK
<1>2. CASE R!bt_destroy \/ R!Close
  <2>1. R!Becomes(R!bt_session_close(R!Now)) /\ Around /\ r_live' \in BOOLEAN
    BY <1>2 DEF R!bt_destroy, R!Close, Around, RInv, R!TypeOK
  <2>. QED BY <2>1, CloseNow, ClosedOK
<1>3. ASSUME NEW at \in {"none", "hci"}, R!Up(at) PROVE RInv'
  <2>1. Kept /\ r_event' = r_event /\ sent' = sent /\ Around /\ r_live' = r_live
    BY <1>3 DEF R!Up, R!bt_hci_up, R!session, Kept, Around, RInv, R!TypeOK
  <2>. QED BY <2>1, KeptOK DEF RInv, R!TypeOK
<1>4. ASSUME NEW turnOn \in BOOLEAN, NEW at \in {"none", "hci", "scan"}, R!bt_discoverable(turnOn, at)
      PROVE  RInv'
  <2>1. scan' \subseteq {"inquiry", "page"} /\ hci_up' \in BOOLEAN
    BY <1>4 DEF R!bt_discoverable, R!bt_hci_up, RInv, R!TypeOK
  <2>2. Kept /\ r_event' = r_event /\ sent' = sent /\ Around /\ r_live' = r_live
    BY <1>4, <2>1 DEF R!bt_discoverable, R!session, Kept, Around, RInv, R!TypeOK
  <2>. QED BY <2>2, KeptOK DEF RInv, R!TypeOK
<1>5. ASSUME NEW e \in {"read", "write", "except", "timeout"}, R!Collect(e) PROVE RInv'
  <2>1. Kept /\ r_event' = e /\ sent' = sent /\ Around /\ r_live' = r_live
    BY <1>5 DEF R!Collect, Kept, Around, RInv, R!TypeOK
  <2>. QED BY <2>1, KeptOK
<1>6. CASE UNCHANGED R!vars
  <2>1. Kept /\ r_event' = r_event /\ sent' = sent /\ Around /\ r_live' = r_live
    BY <1>6 DEF R!vars, Kept, Around, RInv, R!TypeOK
  <2>. QED BY <2>1, KeptOK DEF RInv, R!TypeOK
<1>7. CASE R!Command
  BY <1>1, <1>2, <1>3, <1>4, <1>7, ListenStep, ConnectStep, SendStep DEF R!Command
<1>8. CASE R!Callback
  BY <1>8, RxStep, AcceptStep, ConnectedStep DEF R!Callback
<1>. QED BY <1>5, <1>6, <1>7, <1>8 DEF R!Next

(* A program that has not started yet satisfies it.                         *)
LEMMA SessionInit == ASSUME Descriptors, Texts, R!Init PROVE RInv
<1>1. sent \in Seq(R!Byte)
  BY EmptySeq DEF R!Init
<1>. QED BY <1>1 DEF R!Init, RInv, R!TypeOK, R!SessionExact, R!WholeTexts

(* After every command and callback of btrfcomm.cpp, and whichever of their *)
(* calls fails, the state tells the truth about the socket and the handle:  *)
(* for every set of descriptors, reused ones included.                      *)
THEOREM SessionSafe ==
  ASSUME Descriptors, Texts PROVE R!Spec => []SessionExact
<1>1. RInv => SessionExact
  BY DEF RInv, SessionExact
<1>. QED BY <1>1, SessionInit, SessionStep, PTL DEF R!Spec

(* However btrfcomm_send's writes are cut, the peer of a connection has     *)
(* been sent whole texts: for every length of a text.                       *)
THEOREM SendsWhole == ASSUME Descriptors, Texts PROVE R!Spec => []WholeTexts
<1>1. RInv => WholeTexts
  BY DEF RInv, WholeTexts
<1>. QED BY <1>1, SessionInit, SessionStep, PTL DEF R!Spec

-----------------------------------------------------------------------------
(* blegatt.cpp.  What ServerExact says is kept by what the program knows of *)
(* the controller: adv_on is set in the state adv only, so that a stop      *)
(* tells the controller whenever it may be advertising; the controller that *)
(* has taken a peer has stopped advertising, and takes none while one is    *)
(* served.                                                                  *)
GType ==
  /\ live \in BOOLEAN /\ listen_fd \in BOOLEAN /\ conn \in BOOLEAN /\ event \in BOOLEAN
  /\ adv_wanted \in BOOLEAN /\ adv_on \in BOOLEAN /\ adv \in BOOLEAN /\ hci_failed \in BOOLEAN
  /\ missed \in BOOLEAN
  /\ g_state \in {"idle", "adv", "connected"} /\ handle \in {"none", "accept", "rx"}
  /\ peers \in 0..1

GInv ==
  /\ GType /\ G!ServerExact
  /\ peers > 0 => g_state = "adv" /\ ~adv
  /\ g_state = "connected" => ~adv

(* ble_stop leaves an idle server, and a controller that does not advertise *)
(* unless it did not answer; was_on is adv_on, or the command before it has *)
(* just succeeded.                                                          *)
LEMMA StopOK ==
  ASSUME GInv, NEW was_on \in BOOLEAN, NEW now \in BOOLEAN, NEW how \in G!How,
         G!ble_stop(was_on, now, how), live' \in BOOLEAN,
         ~hci_failed /\ now => was_on
  PROVE  GInv'
<1>1. /\ g_state' = "idle" /\ conn' = FALSE /\ handle' = "none" /\ event' = FALSE
      /\ listen_fd' = FALSE /\ adv_wanted' = FALSE /\ adv_on' = FALSE /\ peers' = 0 /\ missed' = FALSE
  BY DEF G!ble_stop, G!Idle
<1>2. adv' = IF was_on THEN G!AdvAfter(FALSE, now, how) ELSE now
  BY DEF G!ble_stop
<1>3. hci_failed' = (hci_failed \/ (was_on /\ how # "ok"))
  BY DEF G!ble_stop
<1>4. adv' \in BOOLEAN
  BY <1>2 DEF G!AdvAfter, G!How
<1>5. ~hci_failed' => ~adv'
  BY <1>2, <1>3 DEF G!AdvAfter
<1>6. GType'
  <2>1. hci_failed' \in BOOLEAN
    BY <1>3
  <2>2. peers' \in 0..1
    BY <1>1
  <2>. QED BY <1>1, <1>4, <2>1, <2>2, Zenon DEF GType
<1>7. G!ServerExact'
  BY <1>1, <1>5 DEF G!ServerExact
<1>8. ~(peers' > 0)
  BY <1>1
<1>. QED BY <1>1, <1>6, <1>7, <1>8 DEF GInv

(* Advertising is on with the listening socket watched, or all is stopped. *)
LEMMA StartOK ==
  ASSUME GInv, NEW now \in BOOLEAN, NEW queue \in 0..1, NEW failed \in BOOLEAN,
         NEW how \in G!How, NEW armed \in BOOLEAN, NEW off \in G!How,
         G!StartOrStop(now, queue, failed, how, armed, off), live' = TRUE, queue = 0
  PROVE  GInv'
<1>1. CASE how = "ok" /\ armed
  <2>1. /\ g_state' = "adv" /\ conn' = FALSE /\ handle' = "accept" /\ event' = FALSE
        /\ listen_fd' = TRUE /\ adv_on' = TRUE /\ adv' = TRUE /\ adv_wanted' = TRUE
        /\ peers' = queue /\ hci_failed' = failed /\ missed' = FALSE
    BY <1>1 DEF G!StartOrStop
  <2>2. peers' \in 0..1 /\ ~(peers' > 0)
    BY <2>1
  <2>. QED BY <2>1, <2>2, Zenon DEF GInv, GType, G!ServerExact
<1>2. CASE how = "ok" /\ ~armed
  <2>1. G!ble_stop(TRUE, TRUE, off)
    BY <1>2 DEF G!StartOrStop
  <2>. QED BY <2>1, StopOK
<1>3. CASE how # "ok"
  <2>1. /\ g_state' = "idle" /\ conn' = FALSE /\ handle' = "none" /\ event' = FALSE
        /\ listen_fd' = FALSE /\ adv_wanted' = FALSE /\ adv_on' = FALSE /\ peers' = 0
        /\ hci_failed' = TRUE /\ missed' = FALSE /\ adv' = G!AdvAfter(TRUE, now, how)
    BY <1>3 DEF G!StartOrStop, G!Idle
  <2>2. adv' \in BOOLEAN
    BY <2>1 DEF G!AdvAfter, G!How
  <2>3. peers' \in 0..1 /\ ~(peers' > 0)
    BY <2>1
  <2>. QED BY <2>1, <2>2, <2>3, Zenon DEF GInv, GType, G!ServerExact
<1>. QED BY <1>1, <1>2, <1>3

(* ble_peer_left, for a connection that was served and one that was refused. *)
LEMMA PeerLeftOK ==
  ASSUME GInv, g_state # "idle", NEW queue \in 0..1, NEW how \in G!How, NEW armed \in BOOLEAN,
         NEW off \in G!How, G!ble_peer_left(queue, how, armed, off), live' = live,
         queue = 0
  PROVE  GInv'
<1>1. adv_wanted /\ listen_fd /\ live /\ live' = TRUE /\ adv \in BOOLEAN /\ hci_failed \in BOOLEAN
  BY DEF GInv, GType, G!ServerExact
<1>2. G!StartOrStop(adv, queue, hci_failed, how, armed, off)
  BY <1>1 DEF G!ble_peer_left
<1>. QED BY <1>1, <1>2, StartOK

(* The steps that leave sockets, handle and controller alone. *)
LEMMA AttOK ==
  ASSUME GInv, event' \in BOOLEAN, UNCHANGED G!sockVars, UNCHANGED G!advVars PROVE GInv'
BY DEF GInv, GType, G!ServerExact, G!sockVars, G!advVars

(* The invariant is inductive. *)
LEMMA ServerStep == ASSUME GInv, [G!Next]_G!vars PROVE GInv'
<1>1. CASE G!blegatt_init
  BY <1>1 DEF G!blegatt_init, G!advVars, GInv, GType, G!ServerExact
<1>2. ASSUME NEW off \in G!How, G!blegatt_destroy(off) \/ G!Stop(off) PROVE GInv'
  <2>1. /\ G!ble_stop(adv_on, adv, off) /\ live' \in BOOLEAN
        /\ adv_on \in BOOLEAN /\ adv \in BOOLEAN /\ (~hci_failed /\ adv => adv_on)
    BY <1>2 DEF G!blegatt_destroy, G!Stop, GInv, GType, G!ServerExact
  <2>. QED BY <2>1, StopOK
<1>3. ASSUME NEW s \in BOOLEAN, NEW a \in BOOLEAN, NEW how \in G!How, NEW off \in G!How,
             G!ble_advertise(s, how, a, off)
      PROVE  GInv'
  <2>. DEFINE runs == g_state # "idle"
              now == IF runs /\ adv_on THEN G!AdvAfter(FALSE, adv, off) ELSE adv
  <2>1. live' = TRUE /\ live' = live
    BY <1>3 DEF G!ble_advertise, GInv, GType
  <2>2. now \in BOOLEAN
    BY DEF G!AdvAfter, G!How, GInv, GType
  <2>3. CASE s
    <3>1. G!StartOrStop(now, 0, FALSE, how, a, off)
      BY <1>3, <2>3 DEF G!ble_advertise
    <3>2. 0 \in 0..1 /\ FALSE \in BOOLEAN
      OBVIOUS
    <3>. HIDE DEF now
    <3>. QED BY <2>1, <2>2, <3>1, <3>2, StartOK
  <2>4. CASE ~s /\ runs
    <3>1. /\ G!ble_stop(adv_on, adv, off) /\ adv_on \in BOOLEAN /\ adv \in BOOLEAN
          /\ (~hci_failed /\ adv => adv_on)
      BY <1>3, <2>4 DEF G!ble_advertise, GInv, GType, G!ServerExact
    <3>. QED BY <2>1, <3>1, StopOK
  <2>5. CASE ~s /\ ~runs
    <3>1. UNCHANGED G!sockVars /\ UNCHANGED G!advVars /\ event' = event
      BY <1>3, <2>1, <2>5 DEF G!ble_advertise, G!sockVars, G!advVars
    <3>. QED BY <3>1, AttOK DEF GInv, GType
  <2>. QED BY <2>3, <2>4, <2>5
<1>4. ASSUME NEW n \in Writes, NEW s \in BOOLEAN, NEW a \in BOOLEAN, NEW how \in G!How,
             NEW off \in G!How, G!ble_notify(n, s, how, a, off)
      PROVE  GInv'
  <2>1. CASE s
    BY <1>4, <2>1, AttOK DEF G!ble_notify, GInv, GType
  <2>2. CASE ~s
    <3>1. /\ g_state = "connected" /\ G!ble_peer_left(peers, how, a, off) /\ live' = live
          /\ peers \in 0..1 /\ peers = 0
      BY <1>4, <2>2 DEF G!ble_notify, GInv, GType
    <3>. QED BY <3>1, PeerLeftOK
  <2>. QED BY <2>1, <2>2
<1>5. CASE G!PeerConnects
  <2>1. /\ adv /\ adv' = FALSE /\ peers' = 1 /\ listen_fd /\ live' = live /\ g_state' = g_state
        /\ listen_fd' = listen_fd /\ conn' = conn /\ handle' = handle /\ event' = event
        /\ adv_wanted' = adv_wanted /\ adv_on' = adv_on /\ hci_failed' = hci_failed /\ missed' = missed
    BY <1>5 DEF G!PeerConnects, G!sockVars
  <2>2. peers' \in 0..1 /\ peers' > 0
    BY <2>1
  <2>3. g_state = "adv" /\ ~missed
    BY <2>1 DEF GInv, GType, G!ServerExact
  <2>. QED BY <2>1, <2>2, <2>3, Zenon DEF GInv, GType, G!ServerExact
<1>6. CASE G!Collect
  BY <1>6, AttOK DEF G!Collect
<1>7. ASSUME NEW a \in BOOLEAN, NEW a2 \in BOOLEAN, NEW how \in G!How,
             NEW off \in G!How, G!ble_accept_cb(a, how, a2, off)
      PROVE  GInv'
  <2>1. g_state = "adv" /\ peers > 0 /\ ~adv /\ ~missed
    BY <1>7 DEF G!ble_accept_cb, GInv, GType, G!ServerExact
  <2>2. CASE a
    <3>1. /\ g_state' = "connected" /\ conn' = TRUE /\ handle' = "rx" /\ event' = FALSE
          /\ adv_on' = FALSE /\ peers' = 0 /\ live' = live /\ listen_fd' = listen_fd
          /\ adv_wanted' = adv_wanted /\ adv' = adv /\ hci_failed' = hci_failed /\ missed' = missed
      BY <1>7, <2>2 DEF G!ble_accept_cb
    <3>2. peers' \in 0..1 /\ ~(peers' > 0)
      BY <3>1
    <3>. QED BY <2>1, <3>1, <3>2, Zenon DEF GInv, GType, G!ServerExact
  <2>3. CASE ~a
    <3>1. G!ble_peer_left(0, how, a2, off) /\ live' = live
      BY <1>7, <2>3 DEF G!ble_accept_cb
    <3>. QED BY <2>1, <3>1, PeerLeftOK
  <2>. QED BY <2>2, <2>3
<1>8. ASSUME NEW a \in BOOLEAN, NEW how \in G!How, NEW off \in G!How, G!PeerLeaves(how, a, off)
      PROVE  GInv'
  <2>1. /\ g_state = "connected" /\ G!ble_peer_left(peers, how, a, off) /\ live' = live
        /\ peers \in 0..1 /\ peers = 0
    BY <1>8 DEF G!PeerLeaves, GInv, GType, G!ServerExact
  <2>. QED BY <2>1, PeerLeftOK
<1>9. CASE \/ \E m \in ClientMtus : G!MtuReq(m)
           \/ \E k \in G!Kinds : G!DiscoverReq(k)
           \/ \E h \in {1, 3, G!HDL_CUS_VAL, 11}, off \in {0, 22} : G!ReadReq(h, off)
           \/ \E h \in {3, G!HDL_CUS_VAL, 10}, n \in Writes, turnOn, rsp \in BOOLEAN :
                G!WriteReq(h, n, turnOn, rsp)
           \/ G!OtherReq
  <2>1. event' = FALSE /\ UNCHANGED G!sockVars /\ UNCHANGED G!advVars
    BY <1>9 DEF G!MtuReq, G!DiscoverReq, G!ReadReq, G!WriteReq, G!OtherReq
  <2>. QED BY <2>1, AttOK
<1>10. CASE UNCHANGED G!vars
  <2>1. event' = event /\ UNCHANGED G!sockVars /\ UNCHANGED G!advVars
    BY <1>10 DEF G!vars, G!sockVars, G!advVars
  <2>. QED BY <2>1, AttOK DEF GInv, GType
<1>11. ASSUME G!PeerGivesUp \/ \E kept \in BOOLEAN : G!AcceptFails(kept) PROVE GInv'
  <2>. DEFINE Quiet == /\ UNCHANGED <<live, g_state, listen_fd, conn, handle, adv_wanted, adv_on, adv>>
                       /\ UNCHANGED hci_failed /\ event' \in BOOLEAN
                       /\ \/ missed' = TRUE /\ peers # 0 /\ peers' = 0
                          \/ missed' = missed /\ peers' = peers
  <2>1. ASSUME G!PeerGivesUp PROVE Quiet
    BY <2>1 DEF G!PeerGivesUp, G!sockVars, GInv, GType
  <2>2. ASSUME NEW kept \in BOOLEAN, G!AcceptFails(kept) PROVE Quiet
    <3>1. /\ UNCHANGED <<live, g_state, listen_fd, conn, handle, adv_wanted, adv_on, adv, hci_failed>>
          /\ event' = FALSE /\ peers' = (IF kept THEN peers ELSE 0) /\ missed' = (missed \/ peers' # peers)
      BY <2>2 DEF G!AcceptFails, G!sockVars
    <3>2. missed \in BOOLEAN
      BY DEF GInv, GType
    <3>. QED BY <3>1, <3>2
  <2>3. Quiet
    BY <1>11, <2>1, <2>2
  <2>4. missed' \in BOOLEAN
    BY <2>3, Zenon DEF GInv, GType
  <2>5. peers' \in 0..1 /\ (peers # 0 => peers > 0) /\ (peers' > 0 => peers' = peers)
    BY <2>3 DEF GInv, GType
  <2>. QED BY <2>3, <2>4, <2>5 DEF GInv, GType, G!ServerExact
<1>. QED BY <1>1, <1>2, <1>3, <1>4, <1>5, <1>6, <1>7, <1>8, <1>9, <1>10, <1>11 DEF G!Next

(* After every command, every peer's coming and going and every failure,    *)
(* the server of blegatt.cpp is what its state says: idle, it has let go of *)
(* everything; advertising, it does advertise until a peer connects, and    *)
(* does not again when that peer leaves before it is accepted.              *)
THEOREM ServerSafe == G!Spec => []ServerExact
<1>1. G!Init => GInv
  <2>1. G!Init => peers \in 0..1 /\ ~(peers > 0)
    BY DEF G!Init
  <2>. QED BY <2>1, Zenon DEF G!Init, GInv, GType, G!ServerExact
<1>2. GInv => ServerExact
  BY DEF GInv, ServerExact
<1>. QED BY <1>1, <1>2, ServerStep, PTL DEF G!Spec

-----------------------------------------------------------------------------
(* The replies of blegatt.cpp.  The loop that fills one is a recursive      *)
(* function of the turn: it exists, it is unique, and its invariant is      *)
(* shown by induction over the turns.                                       *)

(* The loop over the first n handles from start on.                         *)
First(kind) ==
  [hdls |-> <<>>, out |-> IF kind = "service" THEN 1 ELSE 2, pair |-> 0 - 1, stop |-> FALSE]

Turns(f, kind, start, m, n) ==
  f = [i \in 0..n |-> IF i = 0 THEN First(kind)
                      ELSE G!OnHandle(kind, m, f[i - 1], start + i - 1)]

(* It exists for any number of handles.                                     *)
LEMMA TurnsExist ==
  ASSUME NEW kind, NEW start, NEW m
  PROVE  \A n \in Nat : \E f : Turns(f, kind, start, m, n)
<1>. DEFINE T == {n \in Nat : \E f : Turns(f, kind, start, m, n)}
            Turn(f, i) == G!OnHandle(kind, m, f[i - 1], start + i - 1)
<1>1. 0 \in T
  <2>. DEFINE f == [i \in 0..0 |-> First(kind)]
  <2>1. Turns(f, kind, start, m, 0)
    BY DEF Turns
  <2>. QED BY <2>1
<1>2. ASSUME NEW n \in Nat, n \in T PROVE n + 1 \in T
  <2>1. PICK f : Turns(f, kind, start, m, n)
    BY <1>2
  <2>. DEFINE g == [i \in 0..(n + 1) |-> IF i <= n THEN f[i] ELSE Turn(f, i)]
  <2>2. ASSUME NEW i \in 0..(n + 1)
        PROVE  g[i] = IF i = 0 THEN First(kind) ELSE Turn(g, i)
    <3>1. CASE i <= n
      <4>1. i \in 0..n /\ (i # 0 => i - 1 \in 0..n /\ i - 1 \in 0..(n + 1) /\ i - 1 <= n)
        BY <3>1
      <4>2. f[i] = IF i = 0 THEN First(kind) ELSE Turn(f, i)
        BY <2>1, <4>1 DEF Turns
      <4>3. i # 0 => g[i - 1] = f[i - 1]
        BY <4>1
      <4>. QED BY <3>1, <4>2, <4>3
    <3>2. CASE ~(i <= n)
      <4>1. i # 0 /\ i - 1 \in 0..(n + 1) /\ i - 1 <= n
        BY <3>2
      <4>2. g[i - 1] = f[i - 1]
        BY <4>1
      <4>. QED BY <3>2, <4>1, <4>2
    <3>. QED BY <3>1, <3>2
  <2>3. g = [i \in 0..(n + 1) |-> g[i]]
    OBVIOUS
  <2>. HIDE DEF g
  <2>4. Turns(g, kind, start, m, n + 1)
    BY <2>2, <2>3 DEF Turns
  <2>. QED BY <2>4
<1>. HIDE DEF T
<1>3. \A n \in Nat : n \in T
  BY <1>1, <1>2, Induction
<1>. QED BY <1>3 DEF T

(* Scan is such a function.                                                 *)
LEMMA ScanIs ==
  ASSUME NEW kind, NEW start \in 1..G!HDL_MAX + 1, NEW m
  PROVE  Turns(G!Scan(kind, start, m), kind, start, m, G!HDL_MAX + 1 - start)
<1>1. G!HDL_MAX + 1 - start \in Nat
  BY DEF G!HDL_MAX
<1>2. PICK f : Turns(f, kind, start, m, G!HDL_MAX + 1 - start)
  BY <1>1, TurnsExist
<1>3. PICK g : g = (CHOOSE h : Turns(h, kind, start, m, G!HDL_MAX + 1 - start))
  OBVIOUS
<1>4. Turns(g, kind, start, m, G!HDL_MAX + 1 - start)
  BY <1>2, <1>3
<1>5. G!Scan(kind, start, m) = g
  BY <1>3 DEF G!Scan, Turns, First
<1>. QED BY <1>4, <1>5

(* What the turns up to handle h leave: a reply within the MTU; nothing     *)
(* sought so far while it is empty; otherwise everything sought from start  *)
(* to its last handle, and, unless the reply is closed, nothing behind it.  *)
Filled(s, kind, start, m, h) ==
  /\ s \in [hdls : Seq(1..G!HDL_MAX), out : 1..m, pair : Int, stop : BOOLEAN]
  /\ s.hdls = <<>> => /\ s.pair < 0 /\ s.out <= 2 /\ ~s.stop
                      /\ \A i \in start..h : ~G!Matches(kind, i)
  /\ s.hdls # <<>> => LET l == s.hdls[Len(s.hdls)] IN
       /\ l \in start..h /\ G!Matches(kind, l)
       /\ \A i : i \in Elems(s.hdls) <=> i \in start..l /\ G!Matches(kind, i)
       /\ ~s.stop => \A i \in (l + 1)..h : ~G!Matches(kind, i)

(* What an attribute takes in a reply is a length.                          *)
LEMMA WholeNat ==
  ASSUME NEW kind, NEW h \in 1..G!HDL_MAX, value_len \in Nat
  PROVE  G!Whole(kind, h) \in Nat
<1>1. h \in {1, 2, 3, 4, 5, 6, 7, 8, 9, 10}
  BY DEF G!HDL_MAX
<1>2. G!att_value(h) \in Nat
  BY <1>1 DEF G!att_value, G!HDL_CUS_VAL
<1>3. G!TypeLen(h) \in Nat
  BY DEF G!TypeLen
<1>. QED BY <1>2, <1>3 DEF G!Whole

(* What is linked at the end is the last of the list.                       *)
LEMMA LastAppended ==
  ASSUME NEW W, NEW s \in Seq(W), NEW x \in W
  PROVE  \A t : t = Append(s, x) =>
           t \in Seq(W) /\ t # <<>> /\ t[Len(t)] = x /\ Elems(t) = Elems(s) \union {x}
<1>. TAKE t
<1>. HAVE t = Append(s, x)
<1>1. /\ t \in Seq(W) /\ Len(t) = Len(s) + 1 /\ t[Len(s) + 1] = x
      /\ \A i \in 1..Len(s) : t[i] = s[i]
  BY AppendProperties
<1>2. Len(s) \in Nat
  OBVIOUS
<1>3. t # <<>>
  BY <1>1, <1>2, EmptySeq
<1>4. ASSUME NEW y PROVE y \in Elems(t) <=> y \in Elems(s) \/ y = x
  <2>1. \A i : i \in 1..(Len(s) + 1) <=> i \in 1..Len(s) \/ i = Len(s) + 1
    BY <1>2
  <2>. QED BY <1>1, <2>1 DEF Elems
<1>. QED BY <1>1, <1>3, <1>4

(* One turn.  The first attribute sought always finds room, cut if need be. *)
LEMMA FilledTurn ==
  ASSUME NEW kind, NEW start \in 1..G!HDL_MAX, NEW m \in Nat, m >= 23, value_len \in Nat,
         NEW h \in start..G!HDL_MAX, NEW s, Filled(s, kind, start, m, h - 1),
         NEW t, t = G!OnHandle(kind, m, s, h)
  PROVE  Filled(t, kind, start, m, h)
<1>. DEFINE w == G!Whole(kind, h)
            trunc == w > G!PairMax(m)
            width == IF trunc THEN G!PairMax(m) ELSE w
            want == IF s.pair < 0 THEN width ELSE s.pair
<1>0. h \in 1..G!HDL_MAX /\ h - 1 \in Int /\ start \in Int /\ h \in Int
  BY DEF G!HDL_MAX
<1>1. w \in Nat
  BY <1>0, WholeNat
<1>. HIDE DEF w
<1>2. width \in Nat /\ width <= m - 2 /\ trunc \in BOOLEAN
  BY <1>1 DEF G!PairMax
<1>3. want \in Int
  BY <1>2 DEF Filled
<1>4. t = IF s.stop \/ ~G!Matches(kind, h) THEN s
          ELSE IF width # want \/ s.out + width > m THEN [s EXCEPT !.stop = TRUE, !.pair = want]
          ELSE [hdls |-> Append(s.hdls, h), out |-> s.out + width, pair |-> want, stop |-> trunc]
  BY Zenon DEF G!OnHandle, w
<1>. HIDE DEF trunc, width
<1>5. CASE s.stop \/ ~G!Matches(kind, h)
  <2>1. t = s
    BY <1>4, <1>5
  <2>2. ASSUME s.hdls = <<>>, NEW i \in start..h PROVE ~G!Matches(kind, i)
    <3>1. i = h \/ i \in start..(h - 1)
      BY <1>0
    <3>. QED BY <1>5, <2>2, <3>1 DEF Filled
  <2>3. ASSUME s.hdls # <<>>
        PROVE  LET l == s.hdls[Len(s.hdls)] IN
                 /\ l \in start..h
                 /\ ~s.stop => \A i \in (l + 1)..h : ~G!Matches(kind, i)
    <3>1. PICK l : l = s.hdls[Len(s.hdls)]
      OBVIOUS
    <3>2. l \in start..(h - 1) /\ (~s.stop => \A i \in (l + 1)..(h - 1) : ~G!Matches(kind, i))
      BY <2>3, <3>1 DEF Filled
    <3>3. l \in start..h
      BY <1>0, <3>2
    <3>4. ASSUME ~s.stop, NEW i \in (l + 1)..h PROVE ~G!Matches(kind, i)
      <4>1. i = h \/ i \in (l + 1)..(h - 1)
        BY <1>0, <3>2
      <4>. QED BY <1>5, <3>2, <3>4, <4>1
    <3>. QED BY <3>1, <3>3, <3>4
  <2>. QED BY <2>1, <2>2, <2>3 DEF Filled
<1>6. CASE ~s.stop /\ G!Matches(kind, h) /\ (width # want \/ s.out + width > m)
  <2>1. t = [s EXCEPT !.stop = TRUE, !.pair = want]
    BY <1>4, <1>6
  <2>2. s.hdls # <<>>
    <3>1. SUFFICES ASSUME s.hdls = <<>> PROVE FALSE
      OBVIOUS
    <3>2. want = width /\ s.out <= 2 /\ s.out \in Int
      BY <3>1 DEF Filled
    <3>. QED BY <1>2, <1>6, <3>2
  <2>3. t.hdls = s.hdls /\ t.out = s.out /\ t.pair = want /\ t.stop = TRUE
    BY <2>1 DEF Filled
  <2>4. PICK l : l = s.hdls[Len(s.hdls)]
    OBVIOUS
  <2>5. /\ l \in start..(h - 1) /\ G!Matches(kind, l)
        /\ \A i : i \in Elems(s.hdls) <=> i \in start..l /\ G!Matches(kind, i)
    BY <2>2, <2>4 DEF Filled
  <2>6. l \in start..h
    BY <1>0, <2>5
  <2>7. t \in [hdls : Seq(1..G!HDL_MAX), out : 1..m, pair : Int, stop : BOOLEAN]
    BY <1>3, <2>1 DEF Filled
  <2>. QED BY <2>2, <2>3, <2>4, <2>5, <2>6, <2>7 DEF Filled
<1>7. CASE ~s.stop /\ G!Matches(kind, h) /\ width = want /\ s.out + width <= m
  <2>1. t = [hdls |-> Append(s.hdls, h), out |-> s.out + width, pair |-> want, stop |-> trunc]
    <3>1. s.out \in Int
      BY DEF Filled
    <3>2. ~(s.out + width > m)
      BY <1>2, <1>7, <3>1
    <3>. QED BY <1>4, <1>7, <3>2
  <2>2. t.hdls = Append(s.hdls, h) /\ t.out = s.out + width /\ t.pair = want /\ t.stop = trunc
    BY <2>1
  <2>3. s.hdls \in Seq(1..G!HDL_MAX) /\ s.out \in 1..m
    BY DEF Filled
  <2>4. /\ t.hdls \in Seq(1..G!HDL_MAX) /\ t.hdls # <<>> /\ t.hdls[Len(t.hdls)] = h
        /\ Elems(t.hdls) = Elems(s.hdls) \union {h}
    <3>1. PICK W : W = 1..G!HDL_MAX
      OBVIOUS
    <3>2. s.hdls \in Seq(W) /\ h \in W
      BY <1>0, <2>3, <3>1
    <3>3. PICK r, q : r = s.hdls /\ q = t.hdls
      OBVIOUS
    <3>4. q \in Seq(W) /\ q # <<>> /\ q[Len(q)] = h /\ Elems(q) = Elems(r) \union {h}
      <4>1. r \in Seq(W) /\ h \in W /\ q = Append(r, h)
        BY <2>2, <3>2, <3>3
      <4>2. \A u : u = Append(r, h) =>
              u \in Seq(W) /\ u # <<>> /\ u[Len(u)] = h /\ Elems(u) = Elems(r) \union {h}
        BY <4>1, LastAppended, Zenon
      <4>. QED BY <4>1, <4>2, Zenon
    <3>. QED BY <3>1, <3>3, <3>4
  <2>5. t.out \in 1..m
    BY <1>2, <1>7, <2>2, <2>3
  <2>6. ASSUME NEW i PROVE i \in Elems(t.hdls) <=> i \in start..h /\ G!Matches(kind, i)
    <3>1. CASE s.hdls = <<>>
      <4>1. Elems(s.hdls) = {}
        BY <2>3, <3>1, ElemsType
      <4>2. i \in start..h => i = h \/ i \in start..(h - 1)
        BY <1>0
      <4>3. h \in start..h
        BY <1>0
      <4>. QED BY <1>7, <2>4, <3>1, <4>1, <4>2, <4>3 DEF Filled
    <3>2. CASE s.hdls # <<>>
      <4>1. PICK l : l = s.hdls[Len(s.hdls)]
        OBVIOUS
      <4>2. /\ l \in start..(h - 1)
            /\ \A j : j \in Elems(s.hdls) <=> j \in start..l /\ G!Matches(kind, j)
            /\ \A j \in (l + 1)..(h - 1) : ~G!Matches(kind, j)
        BY <1>7, <3>2, <4>1 DEF Filled
      <4>3. i \in start..h <=> i \in start..l \/ i \in (l + 1)..(h - 1) \/ i = h
        BY <1>0, <4>2
      <4>. QED BY <1>7, <2>4, <4>2, <4>3
    <3>. QED BY <3>1, <3>2
  <2>7. \A i \in (h + 1)..h : FALSE
    BY <1>0
  <2>8. h \in start..h
    BY <1>0
  <2>9. t \in [hdls : Seq(1..G!HDL_MAX), out : 1..m, pair : Int, stop : BOOLEAN]
    <3>1. Append(s.hdls, h) \in Seq(1..G!HDL_MAX)
      BY <2>2, <2>4
    <3>2. s.out + width \in 1..m
      BY <2>2, <2>5
    <3>. QED BY <1>2, <1>3, <2>1, <3>1, <3>2
  <2>. QED BY <1>7, <2>4, <2>6, <2>7, <2>8, <2>9 DEF Filled
<1>8. s.out \in Int
  BY DEF Filled
<1>. QED BY <1>2, <1>5, <1>6, <1>7, <1>8

(* The reply to a request from start on: it fits the MTU; empty, it leaves  *)
(* nothing sought behind start; otherwise it holds everything sought from   *)
(* start to its last handle, which is one of them.                          *)
LEMMA AnswerProp ==
  ASSUME NEW kind, NEW start \in 1..G!HDL_MAX + 1, NEW m \in Nat, m >= 23, value_len \in Nat,
         NEW a, a = G!Answer(kind, start, m)
  PROVE  /\ a.len \in 1..m /\ a.hdls \in Seq(1..G!HDL_MAX)
         /\ a.hdls = <<>> => \A i \in start..G!HDL_MAX : ~G!Matches(kind, i)
         /\ a.hdls # <<>> => LET l == a.hdls[Len(a.hdls)] IN
              /\ l \in start..G!HDL_MAX /\ G!Matches(kind, l)
              /\ \A i : i \in Elems(a.hdls) <=> i \in start..l /\ G!Matches(kind, i)
<1>. DEFINE f == G!Scan(kind, start, m)
            N == G!HDL_MAX + 1 - start
            T == {n \in Nat : n \in 0..N => Filled(f[n], kind, start, m, start + n - 1)}
<1>0. start \in Nat /\ start >= 1 /\ N \in Nat /\ start + N - 1 = G!HDL_MAX /\ start \in Int
  BY DEF G!HDL_MAX
<1>1. Turns(f, kind, start, m, N)
  BY ScanIs
<1>. HIDE DEF f
<1>2. 0 \in T
  <2>1. f[0] = First(kind)
    BY <1>0, <1>1 DEF Turns
  <2>2. PICK s : s = f[0]
    OBVIOUS
  <2>3. \A i \in start..(start + 0 - 1) : FALSE
    BY <1>0
  <2>4. <<>> \in Seq(1..G!HDL_MAX)
    OBVIOUS
  <2>5. s \in [hdls : Seq(1..G!HDL_MAX), out : 1..m, pair : Int, stop : BOOLEAN]
    BY <2>1, <2>2, <2>4 DEF First
  <2>6. s.hdls = <<>> /\ s.pair < 0 /\ s.out <= 2 /\ ~s.stop
    BY <2>1, <2>2 DEF First
  <2>7. Filled(s, kind, start, m, start + 0 - 1)
    BY <2>3, <2>5, <2>6 DEF Filled
  <2>. QED BY <2>2, <2>7
<1>3. ASSUME NEW n \in Nat, n \in T PROVE n + 1 \in T
  <2>. SUFFICES ASSUME n + 1 \in 0..N
                PROVE  Filled(f[n + 1], kind, start, m, start + (n + 1) - 1)
    OBVIOUS
  <2>1. n \in 0..N /\ (n + 1) - 1 = n /\ n + 1 # 0
    BY <1>0
  <2>2. PICK h : h = start + (n + 1) - 1
    OBVIOUS
  <2>3. f[n + 1] = G!OnHandle(kind, m, f[n], h)
    BY <1>1, <2>1, <2>2 DEF Turns
  <2>4. start \in 1..G!HDL_MAX /\ h \in start..G!HDL_MAX /\ h - 1 = start + n - 1
    BY <1>0, <2>2 DEF G!HDL_MAX
  <2>5. PICK s, t : s = f[n] /\ t = f[n + 1]
    OBVIOUS
  <2>6. Filled(s, kind, start, m, h - 1)
    BY <1>3, <2>1, <2>4, <2>5
  <2>7. t = G!OnHandle(kind, m, s, h)
    BY <2>3, <2>5
  <2>8. Filled(t, kind, start, m, h)
    BY <2>4, <2>6, <2>7, FilledTurn
  <2>. QED BY <2>2, <2>5, <2>8
<1>. HIDE DEF T
<1>4. N \in T
  BY <1>0, <1>2, <1>3, Induction
<1>5. PICK s : s = f[N]
  OBVIOUS
<1>6. Filled(s, kind, start, m, G!HDL_MAX)
  BY <1>0, <1>4, <1>5 DEF T
<1>7. a = [hdls |-> s.hdls, len |-> s.out]
  BY <1>5 DEF G!Answer, f
<1>8. a.hdls = s.hdls /\ a.len = s.out
  BY <1>7
<1>. QED BY <1>6, <1>8 DEF Filled

(* A service ends before the next one begins: a client that goes on behind  *)
(* the group misses nothing.                                                *)
LEMMA GoesOn ==
  ASSUME NEW kind \in G!Kinds, NEW hdls, NEW l \in 1..G!HDL_MAX, l = hdls[Len(hdls)],
         G!Matches(kind, l), NEW next, next = G!After(kind, hdls)
  PROVE  /\ next \in 1..G!HDL_MAX + 1 /\ l < next
         /\ \A i \in (l + 1)..(next - 1) : ~G!Matches(kind, i)
<1>1. CASE kind \in {"info", "characteristics", "values"}
  <2>1. next = l + 1
    BY <1>1 DEF G!After, G!Last
  <2>. QED BY <2>1 DEF G!HDL_MAX
<1>2. CASE kind \in {"service", "services"}
  <2>1. next = G!att_group_end(l) + 1 /\ G!att_group_end(l) # 0
    BY <1>2 DEF G!After, G!Last, G!Matches
  <2>2. l \in {1, 6, 7}
    BY <2>1 DEF G!att_group_end
  <2>3. /\ l = 1 => next = 6
        /\ l = 6 => next = 7
        /\ l = 7 => next = 11
    BY <2>1, <2>2 DEF G!att_group_end
  <2>4. ASSUME NEW i \in (l + 1)..(next - 1) PROVE G!att_group_end(i) = 0
    <3>1. i \in {2, 3, 4, 5, 8, 9, 10}
      BY <2>2, <2>3
    <3>. QED BY <3>1 DEF G!att_group_end
  <2>5. \A i \in (l + 1)..(next - 1) : ~G!Matches(kind, i)
    BY <1>2, <2>4 DEF G!Matches
  <2>. QED BY <2>2, <2>3, <2>5 DEF G!HDL_MAX
<1>. QED BY <1>1, <1>2 DEF G!Kinds

(* What a client seeks is what matches.                                     *)
LEMMA SoughtIs ==
  ASSUME NEW kind \in G!Kinds, NEW i
  PROVE  i \in G!Sought(kind) <=> i \in 1..G!HDL_MAX /\ G!Matches(kind, i)
<1>0. i \in 1..G!HDL_MAX <=> i \in {1, 2, 3, 4, 5, 6, 7, 8, 9, 10}
  BY DEF G!HDL_MAX
<1>1. CASE kind = "info"
  BY <1>1 DEF G!Sought, G!Matches
<1>2. CASE kind = "characteristics"
  BY <1>0, <1>2 DEF G!Sought, G!Matches, G!att_type_get
<1>3. CASE kind = "values"
  BY <1>0, <1>3 DEF G!Sought, G!Matches, G!att_type_get, G!HDL_CUS_VAL
<1>4. CASE kind = "service"
  BY <1>0, <1>4 DEF G!Sought, G!Matches, G!att_group_end
<1>5. CASE kind = "services"
  BY <1>0, <1>5 DEF G!Sought, G!Matches, G!att_type_get, G!att_group_end
<1>. QED BY <1>1, <1>2, <1>3, <1>4, <1>5 DEF G!Kinds

(* What is true of the last reply and of the peer's discovery: what it has  *)
(* found is everything it seeks before the handle it goes on from.          *)
Sizes == ClientMtus \subseteq Nat /\ Writes \subseteq Nat

Discovery(d) ==
  /\ d \in [kind : G!Kinds \union {"none"}, next : 1..G!HDL_MAX + 1,
            found : SUBSET (1..G!HDL_MAX), done : BOOLEAN]
  /\ d.kind = "none" => d = G!NoDisc
  /\ d.kind # "none" =>
       /\ \A i : i \in d.found => i \in 1..G!HDL_MAX /\ G!Matches(d.kind, i)
       /\ \A i \in 1..(d.next - 1) : G!Matches(d.kind, i) => i \in d.found
       /\ d.done => \A i \in 1..G!HDL_MAX : G!Matches(d.kind, i) => i \in d.found

Bounded(r) == r.len \in Int /\ r.mtu \in Int /\ r.len <= r.mtu

AInv ==
  /\ cccd \in BOOLEAN /\ mtu \in G!ATT_MTU_DEFAULT..G!ATT_MTU_MAX
  /\ value_len \in 0..G!BLE_VALUE_MAX
  /\ Bounded(reply) /\ Discovery(disc)

(* A peer that starts again has found nothing.                              *)
LEMMA NoDiscovery ==
  ASSUME NEW kind \in G!Kinds \union {"none"}
  PROVE  Discovery([G!NoDisc EXCEPT !.kind = kind])
<1>1. PICK d : d = [G!NoDisc EXCEPT !.kind = kind]
  OBVIOUS
<1>2. d = [kind |-> kind, next |-> 1, found |-> {}, done |-> FALSE]
  BY <1>1 DEF G!NoDisc
<1>3. d \in [kind : G!Kinds \union {"none"}, next : 1..G!HDL_MAX + 1,
             found : SUBSET (1..G!HDL_MAX), done : BOOLEAN]
  <2>1. 1 \in 1..G!HDL_MAX + 1 /\ {} \in SUBSET (1..G!HDL_MAX)
    BY DEF G!HDL_MAX
  <2>. QED BY <1>2, <2>1
<1>4. d.kind = kind /\ d.next = 1 /\ d.found = {} /\ d.done = FALSE
  BY <1>2
<1>5. \A i \in 1..(d.next - 1) : FALSE
  BY <1>4
<1>6. d.kind = "none" => d = G!NoDisc
  BY <1>2, <1>4 DEF G!NoDisc
<1>7. Discovery(d)
  BY <1>3, <1>4, <1>5, <1>6 DEF Discovery
<1>. QED BY <1>1, <1>7

(* A reply of at most the smallest MTU fits any.                            *)
LEMMA ShortReply ==
  ASSUME AInv, NEW n \in Int, n <= 23, G!Replied(n) PROVE Bounded(reply')
<1>1. mtu \in Int /\ 23 <= mtu
  BY DEF AInv, G!ATT_MTU_DEFAULT, G!ATT_MTU_MAX
<1>2. reply'.len = n /\ reply'.mtu = mtu
  BY DEF G!Replied
<1>. QED BY <1>1, <1>2 DEF Bounded

(* The steps that begin a new session, or end one.                          *)
LEMMA ResetOK ==
  ASSUME AInv, G!SessionReset, value_len' \in 0..G!BLE_VALUE_MAX, reply' = reply PROVE AInv'
<1>1. mtu' = 23 /\ cccd' = FALSE /\ disc' = G!NoDisc
  BY DEF G!SessionReset, G!ATT_MTU_DEFAULT
<1>2. mtu' \in G!ATT_MTU_DEFAULT..G!ATT_MTU_MAX
  BY <1>1 DEF G!ATT_MTU_DEFAULT, G!ATT_MTU_MAX
<1>3. Discovery(G!NoDisc)
  <2>1. [G!NoDisc EXCEPT !.kind = "none"] = G!NoDisc
    BY DEF G!NoDisc
  <2>. QED BY <2>1, NoDiscovery
<1>. QED BY <1>1, <1>2, <1>3 DEF AInv

(* What every command does to the session: it is new, or as it was.         *)
LEMMA SessionOr ==
  ASSUME NEW queue, NEW how, NEW armed, NEW off, G!ble_peer_left(queue, how, armed, off)
  PROVE  G!SessionReset
BY DEF G!ble_peer_left, G!StartOrStop, G!ble_stop

(* A request of the discovery.                                              *)
LEMMA DiscoverOK ==
  ASSUME AInv, NEW kind \in G!Kinds, G!DiscoverReq(kind)
  PROVE  Bounded(reply') /\ Discovery(disc')
<1>0. mtu \in Nat /\ mtu >= 23 /\ value_len \in Nat
  BY DEF AInv, G!ATT_MTU_DEFAULT, G!ATT_MTU_MAX, G!BLE_VALUE_MAX
<1>1. PICK d : d = IF disc.kind = kind THEN disc ELSE [G!NoDisc EXCEPT !.kind = kind]
  OBVIOUS
<1>2. PICK a : a = G!Answer(kind, d.next, mtu)
  OBVIOUS
<1>3. /\ disc' = IF a.hdls = <<>> THEN [d EXCEPT !.done = TRUE]
                 ELSE [d EXCEPT !.next = G!After(kind, a.hdls), !.found = @ \union G!ToSet(a.hdls)]
      /\ G!Replied(IF a.hdls = <<>> THEN 5 ELSE a.len)
  BY <1>1, <1>2, Zenon DEF G!DiscoverReq
<1>4. Discovery(d) /\ d.kind = kind /\ kind # "none"
  <2>1. ([G!NoDisc EXCEPT !.kind = kind]).kind = kind
    BY DEF G!NoDisc
  <2>2. Discovery([G!NoDisc EXCEPT !.kind = kind])
    BY NoDiscovery
  <2>3. kind # "none"
    BY DEF G!Kinds
  <2>. QED BY <1>1, <2>1, <2>2, <2>3 DEF AInv
<1>5. d \in [kind : G!Kinds \union {"none"}, next : 1..G!HDL_MAX + 1,
             found : SUBSET (1..G!HDL_MAX), done : BOOLEAN]
  BY <1>4 DEF Discovery
<1>6. PICK start \in 1..G!HDL_MAX + 1 : start = d.next
  BY <1>5
<1>7. /\ a.len \in 1..mtu /\ a.hdls \in Seq(1..G!HDL_MAX)
      /\ a.hdls = <<>> => \A i \in start..G!HDL_MAX : ~G!Matches(kind, i)
      /\ a.hdls # <<>> => LET l == a.hdls[Len(a.hdls)] IN
           /\ l \in start..G!HDL_MAX /\ G!Matches(kind, l)
           /\ \A i : i \in Elems(a.hdls) <=> i \in start..l /\ G!Matches(kind, i)
  <2>1. a = G!Answer(kind, start, mtu)
    BY <1>2, <1>6
  <2>. QED BY <1>0, <2>1, AnswerProp
<1>8. Bounded(reply')
  <2>1. CASE a.hdls = <<>>
    BY <1>3, <2>1, ShortReply
  <2>2. CASE a.hdls # <<>>
    <3>1. reply'.len = a.len /\ reply'.mtu = mtu
      BY <1>3, <2>2 DEF G!Replied
    <3>. QED BY <1>0, <1>7, <3>1 DEF Bounded
  <2>. QED BY <2>1, <2>2
<1>9. Discovery(disc')
  <2>1. CASE a.hdls = <<>>
    <3>1. PICK e : e = [d EXCEPT !.done = TRUE]
      OBVIOUS
    <3>2. /\ e \in [kind : G!Kinds \union {"none"}, next : 1..G!HDL_MAX + 1,
                    found : SUBSET (1..G!HDL_MAX), done : BOOLEAN]
          /\ e.kind = kind /\ e.next = d.next /\ e.found = d.found
      BY <1>4, <1>5, <3>1
    <3>3. ASSUME NEW i \in 1..G!HDL_MAX, G!Matches(kind, i) PROVE i \in d.found
      <4>1. i \in 1..(start - 1) \/ i \in start..G!HDL_MAX
        BY DEF G!HDL_MAX
      <4>. QED BY <1>4, <1>6, <1>7, <2>1, <3>3, <4>1 DEF Discovery
    <3>4. Discovery(e)
      BY <1>4, <3>2, <3>3 DEF Discovery
    <3>. QED BY <1>3, <2>1, <3>1, <3>4
  <2>2. CASE a.hdls # <<>>
    <3>1. PICK e, next : /\ next = G!After(kind, a.hdls)
                         /\ e = [d EXCEPT !.next = next, !.found = @ \union G!ToSet(a.hdls)]
      OBVIOUS
    <3>2. PICK l : l = a.hdls[Len(a.hdls)]
      OBVIOUS
    <3>3. /\ l \in start..G!HDL_MAX /\ G!Matches(kind, l)
          /\ \A i : i \in Elems(a.hdls) <=> i \in start..l /\ G!Matches(kind, i)
      BY <1>7, <2>2, <3>2
    <3>4. l \in 1..G!HDL_MAX
      BY <3>3 DEF G!HDL_MAX
    <3>5. /\ next \in 1..G!HDL_MAX + 1 /\ l < next
          /\ \A i \in (l + 1)..(next - 1) : ~G!Matches(kind, i)
      BY <3>1, <3>2, <3>3, <3>4, GoesOn
    <3>6. G!ToSet(a.hdls) = Elems(a.hdls)
      <4>1. DOMAIN a.hdls = 1..Len(a.hdls)
        BY <1>7
      <4>. QED BY <4>1 DEF G!ToSet, Elems
    <3>7. \A i \in Elems(a.hdls) : i \in 1..G!HDL_MAX /\ G!Matches(kind, i)
      BY <3>3 DEF G!HDL_MAX
    <3>8. d.found \union Elems(a.hdls) \in SUBSET (1..G!HDL_MAX)
      BY <1>5, <3>7
    <3>9. /\ e \in [kind : G!Kinds \union {"none"}, next : 1..G!HDL_MAX + 1,
                    found : SUBSET (1..G!HDL_MAX), done : BOOLEAN]
          /\ e.kind = kind /\ e.next = next /\ e.found = d.found \union Elems(a.hdls)
          /\ e.done = d.done
      BY <1>4, <1>5, <3>1, <3>5, <3>6, <3>8
    <3>10. ASSUME NEW i \in 1..(next - 1), G!Matches(kind, i)
           PROVE  i \in d.found \union Elems(a.hdls)
      <4>1. i \in 1..(start - 1) \/ i \in start..l \/ i \in (l + 1)..(next - 1)
        BY <3>3, <3>4, <3>5 DEF G!HDL_MAX
      <4>. QED BY <1>4, <1>6, <3>3, <3>5, <3>10, <4>1 DEF Discovery
    <3>11. \A i : i \in d.found => i \in 1..G!HDL_MAX /\ G!Matches(kind, i)
      BY <1>4 DEF Discovery
    <3>12. ~d.done
      BY <1>1, Zenon DEF G!DiscoverReq
    <3>13. Discovery(e)
      BY <1>4, <3>7, <3>9, <3>10, <3>11, <3>12 DEF Discovery
    <3>. QED BY <1>3, <2>2, <3>1, <3>13
  <2>. QED BY <2>1, <2>2
<1>. QED BY <1>8, <1>9

(* No step makes a reply longer than the MTU or loses an attribute.         *)
LEMMA RepliesStep ==
  ASSUME Sizes, AInv, [G!Next]_G!vars PROVE AInv'
<1>0. /\ mtu \in Int /\ 23 <= mtu /\ mtu <= 128
      /\ value_len \in Int /\ 0 <= value_len /\ value_len <= 64
  BY DEF AInv, G!ATT_MTU_DEFAULT, G!ATT_MTU_MAX, G!BLE_VALUE_MAX
<1>. DEFINE Still == UNCHANGED G!attVars
            Same == value_len' \in 0..G!BLE_VALUE_MAX /\ reply' = reply
<1>1. ASSUME Still PROVE AInv'
  BY <1>1 DEF AInv, G!attVars
<1>2. CASE \/ G!blegatt_init \/ G!PeerConnects \/ G!Collect \/ G!PeerGivesUp
           \/ \E kept \in BOOLEAN : G!AcceptFails(kept)
  <2>1. Still
    BY <1>2 DEF G!blegatt_init, G!PeerConnects, G!Collect, G!PeerGivesUp, G!AcceptFails
  <2>. QED BY <1>1, <2>1
<1>3. ASSUME NEW off \in G!How, G!blegatt_destroy(off) \/ G!Stop(off) PROVE AInv'
  <2>1. G!SessionReset /\ Same
    BY <1>3 DEF G!blegatt_destroy, G!Stop, G!ble_stop, AInv
  <2>. QED BY <2>1, ResetOK
<1>4. ASSUME NEW s \in BOOLEAN, NEW a \in BOOLEAN, NEW how \in G!How, NEW off \in G!How,
             G!ble_advertise(s, how, a, off)
      PROVE  AInv'
  <2>1. (G!SessionReset /\ Same) \/ Still
    BY <1>4 DEF G!ble_advertise, G!StartOrStop, G!ble_stop, G!attVars, AInv
  <2>. QED BY <1>1, <2>1, ResetOK
<1>5. ASSUME NEW n \in Writes, NEW s \in BOOLEAN, NEW a \in BOOLEAN, NEW how \in G!How,
             NEW off \in G!How, G!ble_notify(n, s, how, a, off)
      PROVE  AInv'
  <2>1. CASE s
    <3>1. /\ n <= mtu - 3 /\ n <= 64 /\ value_len' = n /\ reply' = [len |-> 3 + n, mtu |-> mtu]
          /\ mtu' = mtu /\ cccd' = cccd /\ disc' = disc
      BY <1>5, <2>1 DEF G!ble_notify, G!BLE_VALUE_MAX
    <3>2. n \in Nat
      BY DEF Sizes
    <3>3. value_len' \in 0..G!BLE_VALUE_MAX
      BY <3>1, <3>2 DEF G!BLE_VALUE_MAX
    <3>4. reply'.len = 3 + n /\ reply'.mtu = mtu
      BY <3>1
    <3>5. Bounded(reply')
      BY <1>0, <3>1, <3>2, <3>4 DEF Bounded
    <3>. QED BY <3>1, <3>3, <3>5 DEF AInv
  <2>2. CASE ~s
    <3>1. G!SessionReset /\ n <= 64 /\ value_len' = n /\ reply' = reply
      BY <1>5, <2>2, SessionOr DEF G!ble_notify, G!BLE_VALUE_MAX
    <3>2. Same
      BY <3>1 DEF Sizes, G!BLE_VALUE_MAX
    <3>. QED BY <3>1, <3>2, ResetOK
  <2>. QED BY <2>1, <2>2
<1>6. ASSUME NEW a \in BOOLEAN, NEW a2 \in BOOLEAN, NEW how \in G!How,
             NEW off \in G!How, G!ble_accept_cb(a, how, a2, off)
      PROVE  AInv'
  <2>1. G!SessionReset /\ Same
    BY <1>6, SessionOr DEF G!ble_accept_cb, AInv
  <2>. QED BY <2>1, ResetOK
<1>7. ASSUME NEW a \in BOOLEAN, NEW how \in G!How, NEW off \in G!How, G!PeerLeaves(how, a, off)
      PROVE  AInv'
  <2>1. G!SessionReset /\ Same
    BY <1>7, SessionOr DEF G!PeerLeaves, AInv
  <2>. QED BY <2>1, ResetOK
<1>8. ASSUME NEW m \in ClientMtus, G!MtuReq(m) PROVE AInv'
  <2>1. m \in Nat
    BY DEF Sizes
  <2>2. mtu' \in G!ATT_MTU_DEFAULT..G!ATT_MTU_MAX
    BY <1>0, <1>8, <2>1 DEF G!MtuReq, G!ATT_MTU_DEFAULT, G!ATT_MTU_MAX
  <2>3. G!Replied(5) \/ G!Replied(3)
    BY <1>8 DEF G!MtuReq
  <2>4. cccd' = cccd /\ value_len' = value_len /\ disc' = disc
    BY <1>8 DEF G!MtuReq
  <2>5. Bounded(reply')
    BY <2>3, ShortReply
  <2>. QED BY <2>2, <2>4, <2>5 DEF AInv
<1>9. ASSUME NEW kind \in G!Kinds, G!DiscoverReq(kind) PROVE AInv'
  <2>1. mtu' = mtu /\ cccd' = cccd /\ value_len' = value_len
    BY <1>9 DEF G!DiscoverReq
  <2>. QED BY <1>9, <2>1, DiscoverOK DEF AInv
<1>10. ASSUME NEW h \in {1, 3, G!HDL_CUS_VAL, 11}, NEW off \in {0, 22}, G!ReadReq(h, off)
       PROVE  AInv'
  <2>1. mtu' = mtu /\ cccd' = cccd /\ value_len' = value_len /\ disc' = disc
    BY <1>10 DEF G!ReadReq
  <2>2. PICK n : n = IF h \in 1..G!HDL_MAX THEN G!att_value(h) ELSE 0 - 1
    OBVIOUS
  <2>3. n \in Int
    <3>1. h \in {1, 3, 9, 11}
      BY DEF G!HDL_CUS_VAL
    <3>. QED BY <1>0, <2>2, <3>1 DEF G!att_value, G!HDL_CUS_VAL, G!HDL_MAX
  <2>4. PICK rest : rest = IF n - off > mtu - 1 THEN mtu - 1 ELSE n - off
    OBVIOUS
  <2>5. rest \in Int /\ 1 + rest <= mtu
    BY <1>0, <2>3, <2>4
  <2>6. G!Replied(IF n < 0 \/ off > n THEN 5 ELSE 1 + rest)
    BY <1>10, <2>2, <2>4, Zenon DEF G!ReadReq
  <2>7. reply'.len \in {5, 1 + rest} /\ reply'.mtu = mtu
    BY <2>6 DEF G!Replied
  <2>8. Bounded(reply')
    BY <1>0, <2>5, <2>7 DEF Bounded
  <2>. QED BY <2>1, <2>8 DEF AInv
<1>11. ASSUME NEW h \in {3, G!HDL_CUS_VAL, 10}, NEW n \in Writes, NEW turnOn \in BOOLEAN,
              NEW rsp \in BOOLEAN, G!WriteReq(h, n, turnOn, rsp)
       PROVE  AInv'
  <2>1. n \in Nat
    BY DEF Sizes
  <2>2. /\ value_len' = IF G!att_write(h, n) /\ h = G!HDL_CUS_VAL THEN n ELSE value_len
        /\ cccd' = IF G!att_write(h, n) /\ h = 10 THEN turnOn ELSE cccd
        /\ IF rsp THEN G!Replied(IF G!att_write(h, n) THEN 1 ELSE 5) ELSE reply' = reply
        /\ mtu' = mtu /\ disc' = disc
    BY <1>11, Zenon DEF G!WriteReq
  <2>3. value_len' \in 0..G!BLE_VALUE_MAX
    BY <1>0, <2>1, <2>2 DEF G!att_write, G!BLE_VALUE_MAX, G!HDL_CUS_VAL
  <2>4. cccd' \in BOOLEAN
    BY <2>2 DEF AInv
  <2>5. Bounded(reply')
    <3>1. reply' = reply \/ G!Replied(1) \/ G!Replied(5)
      BY <2>2
    <3>. QED BY <3>1, ShortReply DEF AInv
  <2>. QED BY <2>2, <2>3, <2>4, <2>5 DEF AInv
<1>12. CASE G!OtherReq
  <2>1. /\ mtu' = mtu /\ cccd' = cccd /\ value_len' = value_len /\ disc' = disc
        /\ G!Replied(5)
    BY <1>12 DEF G!OtherReq
  <2>2. Bounded(reply')
    BY <2>1, ShortReply
  <2>. QED BY <2>1, <2>2 DEF AInv
<1>13. CASE UNCHANGED G!vars
  <2>1. Still
    BY <1>13 DEF G!vars, G!attVars
  <2>. QED BY <1>1, <2>1
<1>. HIDE DEF Still
<1>. QED BY <1>2, <1>3, <1>4, <1>5, <1>6, <1>7, <1>8, <1>9, <1>10, <1>11, <1>12, <1>13 DEF G!Next

(* Whatever MTUs a peer asks for, whatever is written in between, no reply  *)
(* or notification of att_on_pdu and ble_notify exceeds the MTU in force,   *)
(* and a peer that goes on from reply to reply until none is left has found *)
(* exactly the attributes it sought.                                        *)
THEOREM RepliesSafe == ASSUME Sizes PROVE G!Spec => []RepliesComplete
<1>1. G!Init => GInv /\ AInv
  <2>. SUFFICES ASSUME G!Init PROVE GInv /\ AInv
    OBVIOUS
  <2>1. GInv
    <3>1. peers \in 0..1 /\ ~(peers > 0)
      BY DEF G!Init
    <3>. QED BY <3>1, Zenon DEF G!Init, GInv, GType, G!ServerExact
  <2>2. /\ cccd = FALSE /\ mtu = 23 /\ value_len = 0 /\ disc = G!NoDisc
        /\ reply = [len |-> 0, mtu |-> 23]
    BY DEF G!Init, G!ATT_MTU_DEFAULT
  <2>3. Bounded(reply)
    BY <2>2 DEF Bounded
  <2>4. Discovery(G!NoDisc)
    <3>1. [G!NoDisc EXCEPT !.kind = "none"] = G!NoDisc
      BY DEF G!NoDisc
    <3>. QED BY <3>1, NoDiscovery
  <2>5. mtu \in G!ATT_MTU_DEFAULT..G!ATT_MTU_MAX /\ value_len \in 0..G!BLE_VALUE_MAX
    BY <2>2 DEF G!ATT_MTU_DEFAULT, G!ATT_MTU_MAX, G!BLE_VALUE_MAX
  <2>. QED BY <2>1, <2>2, <2>3, <2>4, <2>5 DEF AInv
<1>2. GInv /\ AInv /\ [G!Next]_G!vars => GInv' /\ AInv'
  BY ServerStep, RepliesStep
<1>3. GInv /\ AInv => RepliesComplete
  <2>. SUFFICES ASSUME GInv, AInv PROVE RepliesComplete
    OBVIOUS
  <2>1. disc \in [kind : G!Kinds \union {"none"}, next : 1..G!HDL_MAX + 1,
                  found : SUBSET (1..G!HDL_MAX), done : BOOLEAN]
    BY DEF AInv, Discovery
  <2>2. G!TypeOK
    BY <2>1 DEF GInv, GType, AInv, G!TypeOK
  <2>3. reply.len <= reply.mtu
    BY DEF AInv, Bounded
  <2>4. ASSUME disc.done PROVE disc.found = G!Sought(disc.kind)
    <3>1. disc.kind # "none"
      BY <2>4 DEF AInv, Discovery, G!NoDisc
    <3>2. PICK kind \in G!Kinds : kind = disc.kind
      BY <2>1, <3>1
    <3>3. \A i : i \in disc.found <=> i \in 1..G!HDL_MAX /\ G!Matches(kind, i)
      BY <2>4, <3>1, <3>2 DEF AInv, Discovery
    <3>4. \A i : i \in disc.found <=> i \in G!Sought(kind)
      BY <3>3, SoughtIs
    <3>. QED BY <3>2, <3>4
  <2>. QED BY <2>2, <2>3, <2>4 DEF RepliesComplete, G!RepliesComplete
<1>. QED BY <1>1, <1>2, <1>3, PTL DEF G!Spec
=============================================================================

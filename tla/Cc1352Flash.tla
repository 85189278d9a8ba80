----------------------------- MODULE Cc1352Flash -----------------------------
(***************************************************************************)
(* cc1352-flash: the host side of the CC1352P7 serial bootloader, as run   *)
(* by main: enter the bootloader, erase, download, send the image in       *)
(* chunks, compare the CRC and reset the target.  Nothing is tried twice.  *)
(*                                                                         *)
(* A byte of the image is known by its address, so that flash = Image says *)
(* that every byte arrived at its place.  CRC32 is taken to tell contents  *)
(* apart: the value the target computes is the contents.  The serial line  *)
(* keeps the order; it may lose or damage a packet or a reply, and noise   *)
(* may put bytes on it.  The 8 bit checksum may fail to notice damage to   *)
(* the data, but damage never turns a packet into another command or a     *)
(* wrong CRC into the right one.                                           *)
(***************************************************************************)
EXTENDS Integers, Sequences

CONSTANTS
  FlashSize,    \* FLASH_SIZE
  Chunk,        \* 252, the most bytes of one SEND_DATA
  Timeout,      \* timeout_ms, in ticks of the clock
  MaxFaults     \* bound on losses, damage, spurious bytes and failures

Addr == 0 .. FlashSize - 1
Old == -1                                 \* what the flash held before
Blank == -2                               \* an erased byte
Bad == -3                                 \* a damaged byte
Image == [a \in Addr |-> a]               \* the file, padded to the full flash

VARIABLES
  verify, manual,   \* options --verify-only and --manual
  pc,       \* "start", "send", "ack", "resp", "ok" or "fail"
  step,     \* the command in hand
  chk,      \* whether its status is being asked for
  off,      \* offset of the chunk in hand
  left,     \* ticks left until the deadline of the exchange
  tx, rx,   \* the serial line: packets to the target, bytes and replies from it
  target,   \* what the target runs: "app" or "boot", the ROM bootloader
  rom,      \* status of the ROM's last command: "ok" or "failed"
  ptr,      \* address the ROM writes next
  flash,    \* contents of the flash
  faults    \* number of faults so far

options == <<verify, manual>>
host == <<pc, step, chk, off, left>>
dev  == <<target, rom, ptr, flash>>
vars == <<verify, manual, pc, step, chk, off, left, tx, rx, target, rom, ptr, flash, faults>>

Byte(b) == [b |-> b, n |-> 0, sum |-> TRUE, st |-> "ok", crc |-> <<>>]
StatusReply(s) == [b |-> "rsp", n |-> 1, sum |-> TRUE, st |-> s, crc |-> <<>>]
CrcReply(f) == [b |-> "rsp", n |-> 4, sum |-> TRUE, st |-> "ok", crc |-> f]

(* The flash may hold the image already.  Bytes may wait on the line.       *)
Init ==
  /\ verify \in BOOLEAN /\ manual \in BOOLEAN
  /\ pc = "start" /\ step = "sync" /\ chk = FALSE /\ off = 0 /\ left = Timeout
  /\ tx = <<>> /\ rx \in {<<>>, <<Byte("ack")>>}
  /\ target \in {"app", "boot"} /\ rom = "ok" /\ ptr = 0
  /\ flash \in {[a \in Addr |-> Old], [Image EXCEPT ![FlashSize - 1] = Old], Image}
  /\ faults = 0

Fault == faults < MaxFaults /\ faults' = faults + 1
Running == pc \in {"send", "ack", "resp"}
-----------------------------------------------------------------------------
(* The host *)

(* bootloader, unless --manual, and tcflush *)
bootloader ==
  /\ pc = "start"
  /\ target' = IF manual THEN target ELSE "boot"
  /\ pc' = "send" /\ rx' = <<>> /\ tx' = <<>>
  /\ UNCHANGED <<options, step, chk, off, left, rom, ptr, flash, faults>>

ChunkLen == IF FlashSize - off > Chunk THEN Chunk ELSE FlashSize - off

(* The packet the host sends. *)
Packet ==
  [cmd |-> IF chk THEN "status" ELSE step,
   off |-> IF step = "send" /\ ~chk THEN off ELSE 0,
   n   |-> IF step = "send" /\ ~chk THEN ChunkLen ELSE 0,
   wire |-> "clean"]

(* command: the packet goes out; the deadline covers the wait for its ACK.  *)
command ==
  /\ pc = "send" /\ pc' = "ack" /\ left' = Timeout
  /\ \/ tx' = Append(tx, Packet) /\ UNCHANGED faults
     \/ tx' \in {tx, Append(tx, [Packet EXCEPT !.wire = "garbled"]),
                 Append(tx, [Packet EXCEPT !.wire = "altered"])} /\ Fault
  /\ UNCHANGED <<options, step, chk, off, rx, dev>>

(* main: what follows a command whose status is good *)
AfterStatus ==
  CASE step = "sync"     -> step' = (IF verify THEN "crc" ELSE "erase") /\ off' = 0
    [] step = "erase"    -> step' = "download" /\ off' = 0
    [] step = "download" -> step' = "send" /\ off' = 0
    [] step = "send"     -> IF off + Chunk < FlashSize THEN step' = step /\ off' = off + Chunk
                                                       ELSE step' = "crc" /\ off' = off

(* Mutant: every byte starts a new deadline. *)
nonzero_renew ==
  /\ pc \in {"ack", "resp"} /\ left > 0 /\ rx # <<>> /\ Head(rx).b = "zero"
  /\ rx' = Tail(rx) /\ left' = Timeout
  /\ UNCHANGED <<options, pc, step, chk, off, tx, dev, faults>>

(* nonzero: idle bytes are skipped, within one deadline. *)
nonzero ==
  /\ pc \in {"ack", "resp"} /\ left > 0 /\ rx # <<>> /\ Head(rx).b = "zero"
  /\ rx' = Tail(rx)
  /\ UNCHANGED <<options, host, tx, dev, faults>>

(* expect_ack, and what main does next *)
expect_ack ==
  /\ pc = "ack" /\ left > 0 /\ rx # <<>> /\ Head(rx).b # "zero" /\ rx' = Tail(rx)
  /\ CASE Head(rx).b # "ack" -> pc' = "fail" /\ UNCHANGED <<step, chk, off, left>>
       [] Head(rx).b = "ack" /\ (chk \/ step = "crc") ->
            pc' = "resp" /\ left' = Timeout /\ UNCHANGED <<step, chk, off>>
       [] Head(rx).b = "ack" /\ ~chk /\ step = "reset" ->
            pc' = "ok" /\ UNCHANGED <<step, chk, off, left>>
       [] OTHER -> pc' = "send" /\ chk' = TRUE /\ UNCHANGED <<step, off, left>>
  /\ UNCHANGED <<options, tx, dev, faults>>

(* Mutant: the checksum of the CRC's reply stands in for its value. *)
response_blind ==
  /\ pc = "resp" /\ left > 0 /\ rx # <<>> /\ Head(rx).b # "zero" /\ rx' = Tail(rx)
  /\ LET r == Head(rx) IN
     CASE r.b # "rsp" \/ r.n # (IF chk THEN 1 ELSE 4) \/ ~r.sum -> pc' = "fail" /\ UNCHANGED <<step, chk, off>>
       [] OTHER -> /\ pc' = "send" /\ chk' = FALSE
                   /\ IF chk THEN AfterStatus ELSE step' = "reset" /\ off' = off
  /\ UNCHANGED <<options, left, tx, dev, faults>>

(* Mutant: the exit code after a wrong CRC is 0. *)
response_lenient ==
  /\ pc = "resp" /\ left > 0 /\ rx # <<>> /\ Head(rx).b # "zero" /\ rx' = Tail(rx)
  /\ LET r == Head(rx) IN
     CASE r.b # "rsp" \/ r.n # (IF chk THEN 1 ELSE 4) \/ ~r.sum \/ r.st # "ok" ->
            pc' = "fail" /\ UNCHANGED <<step, chk, off>>
       [] r.b = "rsp" /\ r.n = 4 /\ r.sum /\ r.crc # Image -> pc' = "ok" /\ UNCHANGED <<step, chk, off>>
       [] OTHER -> /\ pc' = "send" /\ chk' = FALSE
                   /\ IF chk THEN AfterStatus ELSE step' = "reset" /\ off' = off
  /\ UNCHANGED <<options, left, tx, dev, faults>>

(* response, with the comparisons status and main make of it.  A wrong sum  *)
(* is answered with NACK, and the host gives up.                            *)
response ==
  /\ pc = "resp" /\ left > 0 /\ rx # <<>> /\ Head(rx).b # "zero" /\ rx' = Tail(rx)
  /\ LET r == Head(rx)
         good == /\ r.b = "rsp" /\ r.n = (IF chk THEN 1 ELSE 4) /\ r.sum
                 /\ IF chk THEN r.st = "ok" ELSE r.crc = Image
     IN IF good THEN /\ pc' = "send" /\ chk' = FALSE
                     /\ IF chk THEN AfterStatus ELSE step' = "reset" /\ off' = off
                ELSE pc' = "fail" /\ UNCHANGED <<step, chk, off>>
  /\ UNCHANGED <<options, left, tx, dev, faults>>

(* transfer: the deadline is looked at before each byte. *)
TimedOut ==
  /\ pc \in {"ack", "resp"} /\ left = 0 /\ pc' = "fail"
  /\ UNCHANGED <<options, step, chk, off, left, tx, rx, dev, faults>>

(* fail: a system call fails, or the program is killed. *)
fail ==
  /\ pc \notin {"ok", "fail"} /\ Fault /\ pc' = "fail"
  /\ UNCHANGED <<options, step, chk, off, left, tx, rx, dev>>
-----------------------------------------------------------------------------
(* The clock, the serial line and the ROM *)

Tick ==
  /\ pc \in {"ack", "resp"} /\ left > 0 /\ left' = left - 1
  /\ UNCHANGED <<options, pc, step, chk, off, tx, rx, dev, faults>>

(* An idle line may read as zeros, as often as it likes. *)
Noise ==
  /\ Running /\ rx = <<>>
  /\ \/ rx' = <<Byte("zero")>> /\ UNCHANGED faults
     \/ rx' \in {<<Byte("ack")>>, <<Byte("junk")>>} /\ Fault
  /\ UNCHANGED <<options, host, tx, dev>>

(* What the target answers reaches the host, or part of it does. *)
Answer(s) ==
  \/ rx' = rx \o s /\ UNCHANGED faults
  \/ rx' \in {rx, Append(rx, s[1]), rx \o Tail(s), Append(rx, Byte("junk"))} /\ Fault
  \/ /\ Len(s) = 2 /\ Fault
     /\ \E t \in {[s[2] EXCEPT !.sum = FALSE], [s[2] EXCEPT !.st = "ok", !.crc = <<>>]} :
          rx' = rx \o <<s[1], t>>

Written(p) ==
  [a \in Addr |-> IF a \in ptr .. ptr + p.n - 1
                    THEN IF p.wire = "altered" THEN Bad ELSE p.off + (a - ptr)
                    ELSE flash[a]]

(* The bootloader executes one packet: its answer and its effect. *)
Rom ==
  /\ target = "boot" /\ tx # <<>> /\ tx' = Tail(tx)
  /\ LET p == Head(tx) IN
     CASE p.wire = "garbled" -> Answer(<<Byte("nack")>>) /\ UNCHANGED dev
       [] p.wire # "garbled" /\ p.cmd = "sync" ->
            Answer(<<Byte("ack")>>) /\ UNCHANGED dev
       [] p.wire # "garbled" /\ p.cmd = "status" ->
            Answer(<<Byte("ack"), StatusReply(rom)>>) /\ UNCHANGED dev
       [] p.wire # "garbled" /\ p.cmd = "erase" ->
            /\ Answer(<<Byte("ack")>>)
            /\ rom' = "ok" /\ flash' = [a \in Addr |-> Blank] /\ UNCHANGED <<target, ptr>>
       [] p.wire # "garbled" /\ p.cmd = "download" ->
            Answer(<<Byte("ack")>>) /\ rom' = "ok" /\ ptr' = 0 /\ UNCHANGED <<target, flash>>
       [] p.wire # "garbled" /\ p.cmd = "send" ->
            /\ Answer(<<Byte("ack")>>)
            /\ rom' = "ok" /\ flash' = Written(p) /\ ptr' = ptr + p.n /\ UNCHANGED target
       [] p.wire # "garbled" /\ p.cmd = "crc" ->
            Answer(<<Byte("ack"), CrcReply(flash)>>) /\ UNCHANGED dev
       [] p.wire # "garbled" /\ p.cmd = "reset" ->
            Answer(<<Byte("ack")>>) /\ target' = "app" /\ UNCHANGED <<rom, ptr, flash>>
  /\ UNCHANGED <<options, host>>

(* A write to the flash fails. *)
RomFails ==
  /\ target = "boot" /\ tx # <<>> /\ tx' = Tail(tx) /\ Fault
  /\ Head(tx).wire # "garbled" /\ Head(tx).cmd \in {"erase", "send"}
  /\ rom' = "failed" /\ rx' = Append(rx, Byte("ack"))
  /\ UNCHANGED <<options, host, target, ptr, flash>>

(* The application does not speak the protocol. *)
Deaf ==
  /\ target = "app" /\ tx # <<>> /\ tx' = <<>>
  /\ UNCHANGED <<options, host, rx, dev, faults>>
-----------------------------------------------------------------------------
Host == bootloader \/ command \/ nonzero \/ expect_ack \/ response \/ TimedOut
Device == Rom \/ RomFails \/ Deaf
Next == Host \/ fail \/ Tick \/ Noise \/ Device

Spec == Init /\ [][Next]_vars

(* The program runs and the clock goes on. *)
FairSpec == Spec /\ WF_vars(Host) /\ WF_vars(Tick)
-----------------------------------------------------------------------------
(* Properties *)

(* Every variable has its type, and command never reads past the image.     *)
TypeOK ==
  /\ pc \in {"start", "send", "ack", "resp", "ok", "fail"} /\ chk \in BOOLEAN
  /\ step \in {"sync", "erase", "download", "send", "crc", "reset"}
  /\ off \in Nat /\ left \in 0 .. Timeout /\ ptr \in Nat /\ faults \in 0 .. MaxFaults
  /\ target \in {"app", "boot"} /\ rom \in {"ok", "failed"}
  /\ flash \in [Addr -> Addr \cup {Old, Blank, Bad}]
  /\ \A i \in DOMAIN tx : tx[i].off + tx[i].n <= FlashSize

(* Exit code 0 means that the flash holds the padded image, whatever was    *)
(* lost, damaged, invented by the line or acknowledged out of step.         *)
Programmed == pc = "ok" => flash = Image

(* The target leaves the bootloader only with the image in its flash:       *)
(* "CRC failure leaves the target in the bootloader".                       *)
ResetOnlyVerified == [][target = "boot" /\ target' = "app" => flash = Image]_vars

(* --verify-only never changes the flash.                                   *)
VerifyReadsOnly == [][verify => flash' = flash]_vars

(* The program ends, even on a line that reads zeros for ever: a deadline   *)
(* covers the whole wait, not each byte.                                    *)
Terminates == <>(pc \in {"ok", "fail"})

(* The program fails for a reason: a fault, a deadline that passed, or a    *)
(* flash that --verify-only found different.  On a quiet line with a target *)
(* that answers in time it succeeds, the last and shorter chunk included.   *)
FailsForCause ==
  pc = "fail" => faults > 0 \/ left = 0 \/ (verify /\ flash # Image)
=============================================================================

------------------------------ MODULE MCThreads ------------------------------
(***************************************************************************)
(* The parts that run in threads or processes of their own, on small       *)
(* instances: the semaphore, cc1352-flash, the BlueZ peripheral and the    *)
(* Wi-Fi thread of app_network.c.  They share nothing; a behaviour is one  *)
(* of the part named by `part', the others stay in their initial states.   *)
(***************************************************************************)
EXTENDS Threads, TLC

CONSTANTS w1, w2, w3, w4, w5,          \* waiting threads
          c1, c2, Cred, None, Empty    \* of AppNetwork

VARIABLES part,
          conf, try, wifi_running, process_exit, request_reset, state, late, thr, api, arg,
          discarded, wpa, ap, dhcp, assoc, ip

nVars == <<conf, try, wifi_running, process_exit, request_reset, state, late, thr, api, arg,
           discarded, wpa, ap, dhcp, assoc, ip>>
allVars == <<part, vars, fVars, bVars, nVars>>

N == INSTANCE AppNetwork WITH running <- wifi_running

\* One initial state stands for the parts that do not move.
PartsInit ==
  /\ part \in {"sem", "flash", "bluez", "net"}
  /\ Init /\ F!Init /\ B!Init /\ N!Init
  /\ part # "flash" => ~verify /\ ~manual /\ rx = <<>> /\ target = "boot" /\ flash = F!Image
  /\ part # "bluez" => ~pairable
  /\ part # "net" => conf = None /\ try = None

\* Part p moves and no other.
Only(p) ==
  /\ part = p /\ UNCHANGED part
  /\ p # "sem" => UNCHANGED vars
  /\ p # "flash" => UNCHANGED fVars
  /\ p # "bluez" => UNCHANGED bVars
  /\ p # "net" => UNCHANGED nVars

SemStep   == Only("sem") /\ Next
FlashStep == Only("flash") /\ F!Next
BluezStep == Only("bluez") /\ B!Next
NetStep   == Only("net") /\ N!Next

PartsNext == SemStep \/ FlashStep \/ BluezStep \/ NetStep

(* Each part under its own fairness. *)
PartsSpec ==
  /\ PartsInit /\ [][PartsNext]_allVars
  /\ WF_allVars(Only("flash") /\ F!Host) /\ WF_allVars(Only("flash") /\ F!Tick)
  /\ WF_allVars(Only("bluez") /\ B!Waits) /\ WF_allVars(Only("bluez") /\ B!Worker)
  /\ WF_allVars(Only("net") /\ N!Thread) /\ WF_allVars(Only("net") /\ N!Deadline)
-----------------------------------------------------------------------------
(* cc1352-flash ends, even on a line that reads zeros for ever.             *)
Terminates == part = "flash" => F!Terminates

(* Every public call of bluez1 returns.                                     *)
Returns == B!Returns

(* The Wi-Fi thread brings a try to an end.                                 *)
TryEnds == N!TryEnds

(* The supplicant comes to run with the official credentials.               *)
Agreed == N!Agreed
=============================================================================

------------------------------- MODULE Threads -------------------------------
(***************************************************************************)
(* The parts that run in threads of their own or as programs of their own, *)
(* side by side: the semaphore, cc1352-flash and the BlueZ peripheral.     *)
(* They share nothing.  Here is what each of them promises; the model      *)
(* checker and the proofs speak of these definitions.                      *)
(***************************************************************************)
EXTENDS AloeSem

CONSTANTS FlashSize, Chunk, Timeout, MaxFaults,  \* of Cc1352Flash
          Messages, MaxCalls, Faults             \* of Bluez1

VARIABLES verify, manual, pc, step, chk, off, left, tx, rx, target, rom, ptr, flash, faults,
          caller, op, calls, started, worker, b_at, ready, start_result, running, source,
          done, active, notifying, pairing, restore_pairable, old_pairable, value,
          object_count, bus, pairable, registered, before, spoiled

fVars == <<verify, manual, pc, step, chk, off, left, tx, rx, target, rom, ptr, flash, faults>>
bVars == <<caller, op, calls, started, worker, b_at, ready, start_result, running, source,
           done, active, notifying, pairing, restore_pairable, old_pairable, value,
           object_count, bus, pairable, registered, before, spoiled>>

F == INSTANCE Cc1352Flash
B == INSTANCE Bluez1 WITH at <- b_at
-----------------------------------------------------------------------------
(* Exit code 0 of cc1352-flash means that the flash holds the padded image, *)
(* whatever was lost, damaged or invented by the line; the program fails    *)
(* only for a reason, and --verify-only finds what is there.                *)
Programmed == F!TypeOK /\ F!Programmed /\ F!FailsForCause

(* cc1352-flash lets the target leave the bootloader only with the image in *)
(* its flash, and --verify-only changes nothing there.                      *)
ResetOnlyVerified == F!ResetOnlyVerified /\ F!VerifyReadsOnly

(* When bluez1_start has returned 0 the peripheral is set up and served,    *)
(* and run_work touches its Work only while the caller whose stack it is on *)
(* waits for it.                                                            *)
StartTruth == B!TypeOK /\ B!StartTruth /\ B!WorkAlive

(* After bluez1_stop, bluez1_destroy or a failed start nothing of the       *)
(* worker is left, and Pairable is restored.                                *)
NothingLeft == B!NothingLeft
=============================================================================

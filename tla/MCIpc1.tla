------------------------------- MODULE MCIpc1 -------------------------------
(* The message pipe with one-byte fields and payloads of up to two bytes.   *)
(* A payload may hold the leading mark.                                     *)
EXTENDS Ipc1, TLC

CONSTANTS t1, t2, NoOne

Mark == <<9>>
Bytes == 0..3 \cup {9}
Messages == {[type |-> 0, val |-> <<>>], [type |-> 1, val |-> <<9>>],
             [type |-> 1, val |-> <<2, 9>>]}
Sym == Permutations(Thread)
=============================================================================

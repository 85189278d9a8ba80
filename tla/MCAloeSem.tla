------------------------------ MODULE MCAloeSem ------------------------------
(* The semaphore on small instances. *)
EXTENDS AloeSem, TLC

CONSTANTS w1, w2, w3, w4, w5

Sym == Permutations(Waiter)
=============================================================================

------------------------------- MODULE MCEvb2 -------------------------------
(* The event loop on small instances. *)
EXTENDS Evb2, TLC

CONSTANTS h1, h2, f1, t1, t2

Sym == Permutations(Handle) \cup Permutations(Thread)
=============================================================================

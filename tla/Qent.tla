-------------------------------- MODULE Qent --------------------------------
(***************************************************************************)
(* The intrusive singly-linked lists of aloe/sys_linux/evb2.c.  A list is  *)
(* the sequence of the handles linked on it, head first.  The operators    *)
(* keep the names of the C functions.  qent_insert_tail is Append and      *)
(* qent_pop is Head with Tail.                                             *)
(***************************************************************************)
EXTENDS Integers, Sequences

(* The handles linked on the list s. *)
Elems(s) == {s[i] : i \in 1..Len(s)}

(* qent_contains: a walk over the list looking for the entry e. *)
qent_contains(s, e) == \E i \in 1..Len(s) : s[i] = e

(* The walk's stop: the first position holding e. *)
FirstAt(s, e) ==
  CHOOSE i \in 1..Len(s) : s[i] = e /\ \A j \in 1..(i-1) : s[j] # e

(* qent_remove unlinks the first occurrence of e and leaves a list without *)
(* e as it is.                                                             *)
qent_remove(s, e) ==
  IF qent_contains(s, e)
  THEN LET k == FirstAt(s, e)
       IN  [j \in 1..(Len(s) - 1) |-> IF j < k THEN s[j] ELSE s[j+1]]
  ELSE s

(* The link that timer_insert rewrites: the one before the first entry     *)
(* that is due strictly later than the new handle, or the end of the list. *)
InsertPos(s, at, h) ==
  CHOOSE p \in 1..(Len(s) + 1) :
    /\ p = Len(s) + 1 \/ at[h] < at[s[p]]
    /\ \A j \in 1..(p-1) : ~(at[h] < at[s[j]])

(* timer_insert: ordered insertion, after the entries due at the same time.*)
timer_insert(s, at, h) ==
  LET p == InsertPos(s, at, h)
  IN  [j \in 1..(Len(s) + 1) |->
         IF j < p THEN s[j] ELSE IF j = p THEN h ELSE s[j-1]]

(* No entry is linked twice on the same list. *)
NoDup(s) == \A i, j \in 1..Len(s) : s[i] = s[j] => i = j

(* Deadlines never decrease from the head of the list to its tail. *)
SortedBy(s, at) == \A i, j \in 1..Len(s) : i < j => at[s[i]] <= at[s[j]]
=============================================================================

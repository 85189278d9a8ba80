------------------------------ MODULE EvProofs ------------------------------
(***************************************************************************)
(* The older event loop of aloe/sys_linux/ev.c and the program dummy1 on   *)
(* it.  What each operation does to a context is shown once, for any       *)
(* descriptors and any callback arguments; the loop with arbitrary clients *)
(* and dummy1 are then two uses of it.                                     *)
(***************************************************************************)
EXTENDS Clients, QentProofs

O == INSTANCE EvOps

-----------------------------------------------------------------------------
(* The walks over the lists.  Kept and MovedOut are recursive functions of  *)
(* the position: they exist, and what they collect is shown by induction.   *)

(* The walk behind Kept, up to position n.                                  *)
Keeps(g, s, T, n) ==
  g = [i \in 0..n |-> IF i = 0 THEN <<>>
                      ELSE IF s[i] \in T THEN Append(g[i - 1], s[i]) ELSE g[i - 1]]

(* It exists for any length.                                                *)
LEMMA KeepsExist ==
  ASSUME NEW s, NEW T
  PROVE  \A n \in Nat : \E g : Keeps(g, s, T, n)
<1>. DEFINE N == {n \in Nat : \E g : Keeps(g, s, T, n)}
            Turn(g, i) == IF s[i] \in T THEN Append(g[i - 1], s[i]) ELSE g[i - 1]
<1>1. 0 \in N
  <2>. DEFINE g == [i \in 0..0 |-> <<>>]
  <2>1. Keeps(g, s, T, 0)
    BY DEF Keeps
  <2>. QED BY <2>1
<1>2. ASSUME NEW n \in Nat, n \in N PROVE n + 1 \in N
  <2>1. PICK g : Keeps(g, s, T, n)
    BY <1>2
  <2>. DEFINE h == [i \in 0..(n + 1) |-> IF i <= n THEN g[i] ELSE Turn(g, i)]
  <2>2. ASSUME NEW i \in 0..(n + 1) PROVE h[i] = IF i = 0 THEN <<>> ELSE Turn(h, i)
    <3>1. CASE i <= n
      <4>1. i \in 0..n /\ (i # 0 => i - 1 \in 0..n /\ i - 1 \in 0..(n + 1) /\ i - 1 <= n)
        BY <3>1
      <4>2. g[i] = IF i = 0 THEN <<>> ELSE Turn(g, i)
        BY <2>1, <4>1 DEF Keeps
      <4>3. i # 0 => h[i - 1] = g[i - 1]
        BY <4>1
      <4>. QED BY <3>1, <4>2, <4>3
    <3>2. CASE ~(i <= n)
      <4>1. i # 0 /\ i - 1 \in 0..(n + 1) /\ i - 1 <= n
        BY <3>2
      <4>2. h[i - 1] = g[i - 1]
        BY <4>1
      <4>. QED BY <3>2, <4>1, <4>2
    <3>. QED BY <3>1, <3>2
  <2>3. h = [i \in 0..(n + 1) |-> h[i]]
    OBVIOUS
  <2>. HIDE DEF h
  <2>4. Keeps(h, s, T, n + 1)
    BY <2>2, <2>3 DEF Keeps
  <2>. QED BY <2>4
<1>. HIDE DEF N
<1>3. \A n \in Nat : n \in N
  BY <1>1, <1>2, Induction
<1>. QED BY <1>3 DEF N

(* Kept returns the members of s that are in T, each as often as s has it.  *)
LEMMA KeptProp ==
  ASSUME NEW W, NEW s \in Seq(W), NEW T
  PROVE  /\ O!Kept(s, T) \in Seq(W)
         /\ \A x : x \in Elems(O!Kept(s, T)) <=> x \in Elems(s) /\ x \in T
         /\ NoDup(s) => NoDup(O!Kept(s, T))
<1>0. Len(s) \in Nat /\ \A i \in 1..Len(s) : s[i] \in W
  BY ElementOfSeq, LenProperties
<1>1. PICK g : g = (CHOOSE h : Keeps(h, s, T, Len(s)))
  OBVIOUS
<1>2. Keeps(g, s, T, Len(s))
  BY <1>0, <1>1, KeepsExist
<1>3. O!Kept(s, T) = g[Len(s)]
  BY <1>1 DEF O!Kept, Keeps
<1>. DEFINE Right(k, n) ==
              /\ k \in Seq(W)
              /\ \A x : x \in Elems(k) <=> x \in T /\ \E j \in 1..n : s[j] = x
              /\ NoDup(s) => NoDup(k)
            N == {n \in Nat : n <= Len(s) => Right(g[n], n)}
<1>4. 0 \in N
  <2>1. g[0] = <<>>
    BY <1>0, <1>2 DEF Keeps
  <2>2. <<>> \in Seq(W) /\ Elems(<<>>) = {} /\ NoDup(<<>>)
    <3>1. Len(<<>>) = 0 /\ <<>> \in Seq(W)
      OBVIOUS
    <3>. QED BY <3>1 DEF Elems, NoDup
  <2>3. ~\E j \in 1..0 : TRUE
    OBVIOUS
  <2>4. Right(<<>>, 0)
    BY <2>2, <2>3, Zenon
  <2>. QED BY <2>1, <2>4
<1>5. ASSUME NEW n \in Nat, n \in N PROVE n + 1 \in N
  <2>. SUFFICES ASSUME n + 1 <= Len(s) PROVE Right(g[n + 1], n + 1)
    OBVIOUS
  <2>1. n <= Len(s) /\ n + 1 \in 1..Len(s) /\ n + 1 \in 0..Len(s) /\ n + 1 # 0 /\ (n + 1) - 1 = n
    BY <1>0
  <2>2. PICK k, x : k = g[n] /\ x = s[n + 1]
    OBVIOUS
  <2>3. Right(k, n)
    BY <1>5, <2>1, <2>2
  <2>4. x \in W
    BY <1>0, <2>1, <2>2
  <2>5. g[n + 1] = IF x \in T THEN Append(k, x) ELSE k
    BY <1>2, <2>1, <2>2 DEF Keeps
  <2>6. \A y : (\E j \in 1..(n + 1) : s[j] = y) <=> (\E j \in 1..n : s[j] = y) \/ y = x
    <3>1. \A j : j \in 1..(n + 1) <=> j \in 1..n \/ j = n + 1
      OBVIOUS
    <3>. QED BY <2>2, <3>1
  <2>7. CASE x \notin T
    BY <2>3, <2>5, <2>6, <2>7
  <2>8. CASE x \in T
    <3>1. /\ Append(k, x) \in Seq(W) /\ Elems(Append(k, x)) = Elems(k) \cup {x}
          /\ NoDup(k) /\ x \notin Elems(k) => NoDup(Append(k, x))
      BY <2>3, <2>4, AppendProp
    <3>2. ASSUME NoDup(s) PROVE x \notin Elems(k)
      <4>1. \A j \in 1..n : j \in 1..Len(s) /\ j # n + 1
        BY <1>0, <2>1
      <4>2. \A j \in 1..n : s[j] # x
        BY <2>1, <2>2, <3>2, <4>1 DEF NoDup
      <4>. QED BY <2>3, <4>2
    <3>3. g[n + 1] = Append(k, x)
      BY <2>5, <2>8
    <3>. QED BY <2>3, <2>6, <2>8, <3>1, <3>2, <3>3
  <2>. QED BY <2>7, <2>8
<1>. HIDE DEF N
<1>6. Len(s) \in N
  BY <1>0, <1>4, <1>5, Induction
<1>7. Right(g[Len(s)], Len(s))
  BY <1>0, <1>6 DEF N
<1>. QED BY <1>3, <1>7 DEF Elems

(* Two lists one behind the other.                                          *)
LEMMA ConcatProp ==
  ASSUME NEW W, NEW s \in Seq(W), NEW t \in Seq(W)
  PROVE  /\ s \o t \in Seq(W)
         /\ \A x : x \in Elems(s \o t) <=> x \in Elems(s) \/ x \in Elems(t)
         /\ NoDup(s) /\ NoDup(t) /\ (\A x \in Elems(s) : x \notin Elems(t)) => NoDup(s \o t)
<1>1. PICK r : r = s \o t
  OBVIOUS
<1>2. /\ r \in Seq(W) /\ Len(r) = Len(s) + Len(t) /\ Len(s) \in Nat /\ Len(t) \in Nat
      /\ \A i \in 1..Len(r) : r[i] = IF i <= Len(s) THEN s[i] ELSE t[i - Len(s)]
  BY <1>1, ConcatProperties, LenProperties
<1>3. /\ \A i \in 1..Len(s) : i \in 1..Len(r) /\ r[i] = s[i]
      /\ \A i \in 1..Len(t) : i + Len(s) \in 1..Len(r) /\ r[i + Len(s)] = t[i]
  BY <1>2
<1>4. \A i \in 1..Len(r) : i \in 1..Len(s) \/ \E j \in 1..Len(t) : i = j + Len(s)
  <2>1. ASSUME NEW i \in 1..Len(r), i \notin 1..Len(s) PROVE \E j \in 1..Len(t) : i = j + Len(s)
    <3>1. i - Len(s) \in 1..Len(t) /\ i = (i - Len(s)) + Len(s)
      BY <1>2, <2>1
    <3>. QED BY <3>1
  <2>. QED BY <2>1
<1>5. ASSUME NEW x PROVE x \in Elems(r) <=> x \in Elems(s) \/ x \in Elems(t)
  <2>1. ASSUME NEW i \in 1..Len(r), x = r[i] PROVE x \in Elems(s) \/ x \in Elems(t)
    BY <1>3, <1>4, <2>1 DEF Elems
  <2>2. ASSUME NEW i \in 1..Len(s), x = s[i] PROVE x \in Elems(r)
    BY <1>3, <2>2 DEF Elems
  <2>3. ASSUME NEW i \in 1..Len(t), x = t[i] PROVE x \in Elems(r)
    BY <1>3, <2>3 DEF Elems
  <2>. QED BY <2>1, <2>2, <2>3 DEF Elems
<1>6. ASSUME NoDup(s), NoDup(t), \A x \in Elems(s) : x \notin Elems(t) PROVE NoDup(r)
  <2>1. SUFFICES ASSUME NEW i \in 1..Len(r), NEW j \in 1..Len(r), r[i] = r[j] PROVE i = j
    BY DEF NoDup
  <2>2. \A k \in 1..Len(s), l \in 1..Len(t) : s[k] # t[l]
    BY <1>6 DEF Elems
  <2>3. CASE i \in 1..Len(s) /\ j \in 1..Len(s)
    BY <1>3, <1>6, <2>1, <2>3 DEF NoDup
  <2>4. CASE i \notin 1..Len(s) /\ j \notin 1..Len(s)
    <3>1. PICK k \in 1..Len(t), l \in 1..Len(t) : i = k + Len(s) /\ j = l + Len(s)
      BY <1>4, <2>4
    <3>2. t[k] = t[l]
      BY <1>3, <2>1, <3>1
    <3>. QED BY <1>6, <3>1, <3>2 DEF NoDup
  <2>5. CASE i \in 1..Len(s) /\ j \notin 1..Len(s)
    <3>1. PICK l \in 1..Len(t) : j = l + Len(s)
      BY <1>4, <2>5
    <3>. QED BY <1>3, <2>1, <2>2, <2>5, <3>1
  <2>6. CASE i \notin 1..Len(s) /\ j \in 1..Len(s)
    <3>1. PICK k \in 1..Len(t) : i = k + Len(s)
      BY <1>4, <2>6
    <3>. QED BY <1>3, <2>1, <2>2, <2>6, <3>1
  <2>. QED BY <2>3, <2>4, <2>5, <2>6
<1>. QED BY <1>1, <1>2, <1>5, <1>6

(* The walk behind MovedOut, over the first n groups.                       *)
Moves(g, c, T, n) ==
  g = [i \in 0..n |-> IF i = 0 THEN c.ready ELSE g[i - 1] \o O!Kept(c.grp[c.fdq[i]], T)]

(* It exists for any number of groups.                                      *)
LEMMA MovesExist ==
  ASSUME NEW c, NEW T
  PROVE  \A n \in Nat : \E g : Moves(g, c, T, n)
<1>. DEFINE N == {n \in Nat : \E g : Moves(g, c, T, n)}
            Turn(g, i) == g[i - 1] \o O!Kept(c.grp[c.fdq[i]], T)
<1>1. 0 \in N
  <2>. DEFINE g == [i \in 0..0 |-> c.ready]
  <2>1. Moves(g, c, T, 0)
    BY DEF Moves
  <2>. QED BY <2>1
<1>2. ASSUME NEW n \in Nat, n \in N PROVE n + 1 \in N
  <2>1. PICK g : Moves(g, c, T, n)
    BY <1>2
  <2>. DEFINE h == [i \in 0..(n + 1) |-> IF i <= n THEN g[i] ELSE Turn(g, i)]
  <2>2. ASSUME NEW i \in 0..(n + 1) PROVE h[i] = IF i = 0 THEN c.ready ELSE Turn(h, i)
    <3>1. CASE i <= n
      <4>1. i \in 0..n /\ (i # 0 => i - 1 \in 0..n /\ i - 1 \in 0..(n + 1) /\ i - 1 <= n)
        BY <3>1
      <4>2. g[i] = IF i = 0 THEN c.ready ELSE Turn(g, i)
        BY <2>1, <4>1 DEF Moves
      <4>3. i # 0 => h[i - 1] = g[i - 1]
        BY <4>1
      <4>. QED BY <3>1, <4>2, <4>3
    <3>2. CASE ~(i <= n)
      <4>1. i # 0 /\ i - 1 \in 0..(n + 1) /\ i - 1 <= n
        BY <3>2
      <4>2. h[i - 1] = g[i - 1]
        BY <4>1
      <4>. QED BY <3>2, <4>1, <4>2
    <3>. QED BY <3>1, <3>2
  <2>3. h = [i \in 0..(n + 1) |-> h[i]]
    OBVIOUS
  <2>. HIDE DEF h
  <2>4. Moves(h, c, T, n + 1)
    BY <2>2, <2>3 DEF Moves
  <2>. QED BY <2>4
<1>. HIDE DEF N
<1>3. \A n \in Nat : n \in N
  BY <1>1, <1>2, Induction
<1>. QED BY <1>3 DEF N

(* MovedOut puts behind the ready list exactly the members of T that wait   *)
(* in a group, each once.                                                   *)
LEMMA MovedProp ==
  ASSUME NEW W, NEW F, NEW c, NEW T, c.fdq \in Seq(F), c.grp \in [F -> Seq(W)], c.ready \in Seq(W),
         NoDup(c.fdq), NoDup(c.ready), \A f \in F : NoDup(c.grp[f]),
         \A f, k \in F : \A x \in Elems(c.grp[f]) : x \in Elems(c.grp[k]) => f = k,
         \A f \in F : \A x \in Elems(c.grp[f]) : x \notin Elems(c.ready)
  PROVE  /\ O!MovedOut(c, T) \in Seq(W) /\ NoDup(O!MovedOut(c, T))
         /\ \A x : x \in Elems(O!MovedOut(c, T)) <=>
              \/ x \in Elems(c.ready)
              \/ x \in T /\ \E f \in Elems(c.fdq) : x \in Elems(c.grp[f])
<1>0. PICK q : q = c.fdq
  OBVIOUS
<1>1. Len(q) \in Nat /\ \A i \in 1..Len(q) : q[i] \in F
  BY <1>0, ElementOfSeq, LenProperties
<1>2. PICK g : g = (CHOOSE h : Moves(h, c, T, Len(q)))
  OBVIOUS
<1>3. Moves(g, c, T, Len(q))
  BY <1>1, <1>2, MovesExist
<1>4. O!MovedOut(c, T) = g[Len(q)]
  BY <1>0, <1>2 DEF O!MovedOut, Moves
<1>. DEFINE Right(k, n) ==
              /\ k \in Seq(W) /\ NoDup(k)
              /\ \A x : x \in Elems(k) <=>
                   x \in Elems(c.ready) \/ (x \in T /\ \E j \in 1..n : x \in Elems(c.grp[q[j]]))
            N == {n \in Nat : n <= Len(q) => Right(g[n], n)}
<1>5. 0 \in N
  <2>1. g[0] = c.ready
    BY <1>1, <1>3 DEF Moves
  <2>2. ~\E j \in 1..0 : TRUE
    OBVIOUS
  <2>3. Right(c.ready, 0)
    BY <2>2, Zenon
  <2>. QED BY <2>1, <2>3
<1>6. ASSUME NEW n \in Nat, n \in N PROVE n + 1 \in N
  <2>. SUFFICES ASSUME n + 1 <= Len(q) PROVE Right(g[n + 1], n + 1)
    OBVIOUS
  <2>1. n <= Len(q) /\ n + 1 \in 1..Len(q) /\ n + 1 \in 0..Len(q) /\ n + 1 # 0 /\ (n + 1) - 1 = n
    BY <1>1
  <2>2. PICK k, f, s, r : k = g[n] /\ f = q[n + 1] /\ s = c.grp[f] /\ r = O!Kept(s, T)
    OBVIOUS
  <2>3. Right(k, n)
    BY <1>6, <2>1, <2>2
  <2>4. f \in F /\ s \in Seq(W) /\ NoDup(s)
    BY <1>1, <2>1, <2>2
  <2>5. r \in Seq(W) /\ NoDup(r) /\ \A x : x \in Elems(r) <=> x \in Elems(s) /\ x \in T
    BY <2>2, <2>4, KeptProp
  <2>6. g[n + 1] = k \o r
    BY <1>0, <1>3, <2>1, <2>2 DEF Moves
  <2>7. \A j \in 1..n : j \in 1..Len(q) /\ j # n + 1
    BY <1>1, <2>1
  <2>8. \A j \in 1..n : q[j] \in F /\ q[j] # f
    BY <1>0, <1>1, <2>1, <2>2, <2>7 DEF NoDup
  <2>9. \A x \in Elems(k) : x \notin Elems(r)
    BY <2>2, <2>3, <2>4, <2>5, <2>8
  <2>10. /\ k \o r \in Seq(W) /\ NoDup(k \o r)
         /\ \A x : x \in Elems(k \o r) <=> x \in Elems(k) \/ x \in Elems(r)
    BY <2>3, <2>5, <2>9, ConcatProp
  <2>11. \A x : (\E j \in 1..(n + 1) : x \in Elems(c.grp[q[j]])) <=>
                (\E j \in 1..n : x \in Elems(c.grp[q[j]])) \/ x \in Elems(s)
    <3>1. \A j : j \in 1..(n + 1) <=> j \in 1..n \/ j = n + 1
      OBVIOUS
    <3>. QED BY <2>2, <3>1
  <2>. QED BY <2>3, <2>5, <2>6, <2>10, <2>11
<1>. HIDE DEF N
<1>7. Len(q) \in N
  BY <1>1, <1>5, <1>6, Induction
<1>8. Right(g[Len(q)], Len(q))
  BY <1>1, <1>7 DEF N
<1>9. \A x : (\E j \in 1..Len(q) : x \in Elems(c.grp[q[j]])) <=>
             (\E f \in Elems(q) : x \in Elems(c.grp[f]))
  BY DEF Elems
<1>. QED BY <1>0, <1>4, <1>8, <1>9

-----------------------------------------------------------------------------
(* The context.  F are the descriptors, NoFd among them, and W the          *)
(* callback arguments.                                                      *)
IoFlag == {"read", "write", "except"}

Record(F, W) ==
  [fd : F, owner : W \union {NULL}, wait : SUBSET IoFlag, due : {"inf", "past"},
   noti : SUBSET (IoFlag \union {"time"})]

Context(F, W) ==
  [fdq : Seq(F), grp : [F -> Seq(Nat)], epw : [F -> SUBSET IoFlag], kern : [F -> SUBSET IoFlag],
   ready : Seq(Nat), spare : Seq(Nat), rec : Seq(Record(F, W))]

Waits(c, i) == i \in Elems(c.grp[c.rec[i].fd])

(* Every record is in the group of its descriptor, on the ready list or on  *)
(* the spare list, in one of them and once; loose are the records an        *)
(* operation has in its hands.  A group with a record is on fd_q.           *)
Linked(c, loose) ==
  /\ NoDup(c.fdq) /\ NoDup(c.ready) /\ NoDup(c.spare)
  /\ \A f \in DOMAIN c.grp :
       /\ NoDup(c.grp[f]) /\ (c.grp[f] # <<>> => f \in Elems(c.fdq))
       /\ \A i \in Elems(c.grp[f]) : i \in 1..Len(c.rec) /\ c.rec[i].fd = f
  /\ \A i : i \in Elems(c.ready) \/ i \in Elems(c.spare) => i \in 1..Len(c.rec)
  /\ \A i \in 1..Len(c.rec) :
       /\ i \in loose => ~Waits(c, i) /\ i \notin Elems(c.ready) /\ i \notin Elems(c.spare)
       /\ i \notin loose => Waits(c, i) \/ i \in Elems(c.ready) \/ i \in Elems(c.spare)
       /\ ~(i \in Elems(c.ready) /\ i \in Elems(c.spare))
       /\ Waits(c, i) => i \notin Elems(c.ready) /\ i \notin Elems(c.spare)

(* The kernel has the mask of every group, and the loop knows it.  The      *)
(* groups of fs are still to be refreshed.                                  *)
Watching(c, fs) ==
  \A f \in DOMAIN c.grp \ {NoFd} :
    IF f \in fs THEN c.epw[f] = c.kern[f]
    ELSE c.kern[f] = O!Mask(c, f) /\ (f \in Elems(c.fdq) => c.epw[f] = c.kern[f])

CtxOK(c, F, W) ==
  /\ c \in Context(F, W) /\ Linked(c, {}) /\ Watching(c, {})
  /\ \A f \in Elems(c.fdq) : c.grp[f] # <<>>

(* What is registered.                                                      *)
Held(c) == {i \in 1..Len(c.rec) : i \notin Elems(c.spare)}

(* The events a group asks for are events.                                  *)
LEMMA MaskType ==
  ASSUME NEW F, NEW W, NEW c \in Context(F, W), NEW loose, Linked(c, loose), NEW f \in F
  PROVE  O!Mask(c, f) \in SUBSET IoFlag
<1>1. c.grp \in [F -> Seq(Nat)] /\ c.rec \in Seq(Record(F, W))
  BY DEF Context
<1>2. \A i \in 1..Len(c.rec) : c.rec[i] \in Record(F, W)
  BY <1>1, ElementOfSeq
<1>3. \A i \in Elems(c.grp[f]) : c.rec[i].wait \in SUBSET IoFlag
  BY <1>1, <1>2 DEF Linked, Record
<1>4. O!Elems(c.grp[f]) = Elems(c.grp[f])
  BY DEF O!Elems, Elems
<1>. QED BY <1>3, <1>4 DEF O!Mask

(* fd_ep_refresh brings kernel and loop up to date.                         *)
LEMMA RefreshProp ==
  ASSUME NEW F, NEW W, NEW c \in Context(F, W), NEW loose, Linked(c, loose), NEW fs, Watching(c, fs),
         NEW r, r = O!fd_ep_refresh(c, fs)
  PROVE  /\ r \in Context(F, W) /\ Watching(r, {})
         /\ r.fdq = c.fdq /\ r.grp = c.grp /\ r.ready = c.ready /\ r.spare = c.spare /\ r.rec = c.rec
<1>. DEFINE mask == [f \in DOMAIN c.grp |-> O!Mask(c, f)]
            set == {f \in fs \ {NoFd} : mask[f] = {} \/ mask[f] # c.epw[f]}
            e == [f \in DOMAIN c.epw |-> IF f \in set THEN mask[f] ELSE c.epw[f]]
            k == [f \in DOMAIN c.kern |-> IF f \in set THEN mask[f] ELSE c.kern[f]]
<1>1. r = [c EXCEPT !.epw = e, !.kern = k]
  BY DEF O!fd_ep_refresh
<1>2. /\ DOMAIN c.grp = F /\ DOMAIN c.epw = F /\ DOMAIN c.kern = F
      /\ c.epw \in [F -> SUBSET IoFlag] /\ c.kern \in [F -> SUBSET IoFlag]
  BY DEF Context
<1>3. \A f \in F : mask[f] = O!Mask(c, f) /\ mask[f] \in SUBSET IoFlag
  BY <1>2, MaskType
<1>. HIDE DEF mask
<1>4. /\ e \in [F -> SUBSET IoFlag] /\ k \in [F -> SUBSET IoFlag]
      /\ \A f \in F : /\ e[f] = IF f \in set THEN mask[f] ELSE c.epw[f]
                      /\ k[f] = IF f \in set THEN mask[f] ELSE c.kern[f]
  BY <1>2, <1>3
<1>5. \A f \in F : f \in set <=> f \in fs /\ f # NoFd /\ (mask[f] = {} \/ mask[f] # c.epw[f])
  OBVIOUS
<1>. HIDE DEF e, k, set
<1>6. /\ r \in Context(F, W) /\ r.epw = e /\ r.kern = k
      /\ r.fdq = c.fdq /\ r.grp = c.grp /\ r.ready = c.ready /\ r.spare = c.spare /\ r.rec = c.rec
  BY <1>1, <1>4 DEF Context
<1>7. ASSUME NEW f \in F PROVE O!Mask(r, f) = mask[f]
  BY <1>3, <1>6 DEF O!Mask
<1>8. ASSUME NEW f \in F \ {NoFd}
      PROVE  r.kern[f] = O!Mask(r, f) /\ (f \in Elems(r.fdq) => r.epw[f] = r.kern[f])
  <2>1. CASE f \in fs
    BY <1>2, <1>4, <1>5, <1>6, <1>7, <2>1 DEF Watching
  <2>2. CASE f \notin fs
    BY <1>2, <1>3, <1>4, <1>5, <1>6, <1>7, <2>2 DEF Watching
  <2>. QED BY <2>1, <2>2
<1>. QED BY <1>2, <1>6, <1>8 DEF Watching

(* The operators of the lists are the ones the lemmas speak of.             *)
LEMMA SameElems == ASSUME NEW s PROVE O!Elems(s) = Elems(s)
BY DEF O!Elems, Elems

LEMMA SameRemove == ASSUME NEW s, NEW e PROVE O!qent_remove(s, e) = qent_remove(s, e)
BY DEF O!qent_remove, qent_remove, O!qent_contains, qent_contains, O!FirstAt, FirstAt

(* Only the lists and the records matter for how the records are linked.    *)
LEMMA SameLinks ==
  ASSUME NEW c, NEW r, NEW loose, Linked(c, loose), r.fdq = c.fdq, r.grp = c.grp, r.ready = c.ready,
         r.spare = c.spare, r.rec = c.rec
  PROVE  Linked(r, loose)
BY DEF Linked, Waits

(* Empty groups leave fd_q.                                                 *)
LEMMA DropProp ==
  ASSUME NEW F, NEW W, NEW c \in Context(F, W), Linked(c, {}), Watching(c, {}), NEW fs,
         \A f \in Elems(c.fdq) : f \notin fs => c.grp[f] # <<>>,
         NEW r, r = O!DropEmptyGroups(c, fs)
  PROVE  /\ CtxOK(r, F, W)
         /\ r.grp = c.grp /\ r.ready = c.ready /\ r.spare = c.spare /\ r.rec = c.rec
<1>. DEFINE T == DOMAIN c.grp \ {f \in fs : c.grp[f] = <<>>}
<1>1. PICK q : q = O!Kept(c.fdq, T)
  OBVIOUS
<1>2. r = [c EXCEPT !.fdq = q]
  BY <1>1 DEF O!DropEmptyGroups
<1>3. c.fdq \in Seq(F) /\ DOMAIN c.grp = F /\ NoDup(c.fdq)
  BY DEF Context, Linked
<1>4. q \in Seq(F) /\ NoDup(q) /\ \A x : x \in Elems(q) <=> x \in Elems(c.fdq) /\ x \in T
  BY <1>1, <1>3, KeptProp
<1>5. Elems(c.fdq) \subseteq F
  BY <1>3, ElemsType
<1>6. \A x : x \in Elems(q) <=> x \in Elems(c.fdq) /\ c.grp[x] # <<>>
  BY <1>3, <1>4, <1>5
<1>. HIDE DEF T
<1>7. /\ r \in Context(F, W) /\ r.fdq = q /\ r.epw = c.epw /\ r.kern = c.kern
      /\ r.grp = c.grp /\ r.ready = c.ready /\ r.spare = c.spare /\ r.rec = c.rec
  BY <1>2, <1>4 DEF Context
<1>8. Linked(r, {})
  BY <1>4, <1>6, <1>7 DEF Linked, Waits
<1>9. \A f \in F : O!Mask(r, f) = O!Mask(c, f)
  BY <1>7 DEF O!Mask
<1>10. Watching(r, {})
  BY <1>3, <1>6, <1>7, <1>9 DEF Watching
<1>. QED BY <1>6, <1>7, <1>8, <1>10 DEF CtxOK

(* A record that is in no list goes to the spare list.                      *)
LEMMA RecycleProp ==
  ASSUME NEW F, NEW W, NEW c \in Context(F, W), NEW i \in 1..Len(c.rec), Linked(c, {i}),
         NEW fs, Watching(c, fs), NEW r, r = O!Recycle(c, i)
  PROVE  /\ r \in Context(F, W) /\ Linked(r, {}) /\ Watching(r, fs)
         /\ r.fdq = c.fdq /\ r.grp = c.grp /\ r.ready = c.ready
         /\ Elems(r.spare) = Elems(c.spare) \union {i} /\ Len(r.rec) = Len(c.rec)
         /\ \A j \in 1..Len(c.rec) : j # i => r.rec[j] = c.rec[j]
<1>1. PICK x : x = [fd |-> c.rec[i].fd, owner |-> NULL, wait |-> {}, due |-> "inf", noti |-> {}]
  OBVIOUS
<1>2. PICK q, s : q = [c.rec EXCEPT ![i] = x] /\ s = Append(c.spare, i)
  OBVIOUS
<1>3. r = [c EXCEPT !.spare = s, !.rec = q]
  BY <1>1, <1>2 DEF O!Recycle
<1>4. /\ c.rec \in Seq(Record(F, W)) /\ c.spare \in Seq(Nat) /\ i \in Nat
      /\ \A j \in 1..Len(c.rec) : c.rec[j] \in Record(F, W)
  BY ElementOfSeq DEF Context
<1>5. x \in Record(F, W) /\ x.fd = c.rec[i].fd
  BY <1>1, <1>4 DEF Record
<1>6. q \in Seq(Record(F, W)) /\ Len(q) = Len(c.rec)
  BY <1>2, <1>4, <1>5, ExceptSeq
<1>7. \A j \in 1..Len(c.rec) : q[j] = IF j = i THEN x ELSE c.rec[j]
  BY <1>2, <1>4
<1>8. i \notin Elems(c.spare) /\ NoDup(c.spare)
  BY DEF Linked
<1>9. s \in Seq(Nat) /\ Elems(s) = Elems(c.spare) \union {i} /\ NoDup(s)
  BY <1>2, <1>4, <1>8, AppendProp
<1>10. /\ r \in Context(F, W) /\ r.fdq = c.fdq /\ r.epw = c.epw /\ r.kern = c.kern
       /\ r.grp = c.grp /\ r.ready = c.ready /\ r.spare = s /\ r.rec = q
  BY <1>3, <1>6, <1>9 DEF Context
<1>11. \A j \in 1..Len(c.rec) : r.rec[j].fd = c.rec[j].fd
  BY <1>5, <1>7, <1>10
<1>12. \A j \in 1..Len(c.rec) : Waits(r, j) <=> Waits(c, j)
  BY <1>10, <1>11 DEF Waits
<1>13. DOMAIN c.grp = F
  BY DEF Context
<1>14. Linked(r, {})
  <2>1. \A f \in DOMAIN r.grp :
          /\ NoDup(r.grp[f]) /\ (r.grp[f] # <<>> => f \in Elems(r.fdq))
          /\ \A j \in Elems(r.grp[f]) : j \in 1..Len(r.rec) /\ r.rec[j].fd = f
    BY <1>6, <1>10, <1>11 DEF Linked
  <2>2. \A j : j \in Elems(r.ready) \/ j \in Elems(r.spare) => j \in 1..Len(r.rec)
    BY <1>6, <1>9, <1>10 DEF Linked
  <2>3. ASSUME NEW j \in 1..Len(r.rec)
        PROVE  /\ Waits(r, j) \/ j \in Elems(r.ready) \/ j \in Elems(r.spare)
               /\ ~(j \in Elems(r.ready) /\ j \in Elems(r.spare))
               /\ Waits(r, j) => j \notin Elems(r.ready) /\ j \notin Elems(r.spare)
    <3>1. j \in 1..Len(c.rec)
      BY <1>6, <1>10
    <3>. QED BY <1>9, <1>10, <1>12, <3>1 DEF Linked
  <2>4. NoDup(r.fdq) /\ NoDup(r.ready) /\ NoDup(r.spare)
    BY <1>9, <1>10 DEF Linked
  <2>. QED BY <2>1, <2>2, <2>3, <2>4 DEF Linked
<1>15. ASSUME NEW f \in F PROVE O!Mask(r, f) = O!Mask(c, f)
  <2>1. \A j \in Elems(c.grp[f]) : j \in 1..Len(c.rec) /\ j # i
    BY <1>13 DEF Linked, Waits
  <2>2. \A j \in Elems(c.grp[f]) : r.rec[j] = c.rec[j]
    BY <1>7, <1>10, <2>1
  <2>3. O!Elems(c.grp[f]) = Elems(c.grp[f])
    BY SameElems
  <2>. QED BY <1>10, <2>2, <2>3 DEF O!Mask
<1>16. Watching(r, fs)
  BY <1>10, <1>13, <1>15 DEF Watching
<1>. QED BY <1>6, <1>7, <1>9, <1>10, <1>14, <1>16

(* What is registered waits in its group or is ready.                       *)
LEMMA HeldIs ==
  ASSUME NEW F, NEW W, NEW c, CtxOK(c, F, W), NEW i
  PROVE  /\ i \in Held(c) <=> i \in 1..Len(c.rec) /\ (Waits(c, i) \/ i \in Elems(c.ready))
         /\ i \in Held(c) => c.rec[i] \in Record(F, W) /\ c.rec[i].fd \in F /\ i \in Nat
         /\ i \in Elems(c.ready) => i \in Held(c)
         /\ \A f \in F : i \in Elems(c.grp[f]) => i \in Held(c) /\ c.rec[i].fd = f
<1>1. /\ c.rec \in Seq(Record(F, W)) /\ DOMAIN c.grp = F
  BY DEF CtxOK, Context
<1>2. Len(c.rec) \in Nat /\ \A j \in 1..Len(c.rec) : c.rec[j] \in Record(F, W)
  BY <1>1, ElementOfSeq, LenProperties
<1>3. i \in Held(c) <=> i \in 1..Len(c.rec) /\ (Waits(c, i) \/ i \in Elems(c.ready))
  BY DEF Held, CtxOK, Linked
<1>4. i \in Held(c) => c.rec[i] \in Record(F, W) /\ c.rec[i].fd \in F /\ i \in Nat
  BY <1>2 DEF Held, Record
<1>5. i \in Elems(c.ready) => i \in Held(c)
  BY <1>3 DEF CtxOK, Linked
<1>6. \A f \in F : i \in Elems(c.grp[f]) => i \in Held(c) /\ c.rec[i].fd = f
  BY <1>1, <1>3 DEF CtxOK, Linked, Waits
<1>. QED BY <1>3, <1>4, <1>5, <1>6

(* What an operation leaves when it has recycled the record i.              *)
Released(r, c, i) ==
  /\ \A j : j \in Held(r) <=> j \in Held(c) /\ j # i
  /\ \A j \in Held(c) : j # i => r.rec[j] = c.rec[j]

LEMMA ReleasedBy ==
  ASSUME NEW r, NEW c, NEW i, Elems(r.spare) = Elems(c.spare) \union {i}, Len(r.rec) = Len(c.rec),
         \A j \in 1..Len(c.rec) : j # i => r.rec[j] = c.rec[j]
  PROVE  Released(r, c, i)
BY DEF Released, Held

(* The head of the ready list is recycled before its callback runs.         *)
LEMMA ReadyProp ==
  ASSUME NEW F, NEW W, NEW c, CtxOK(c, F, W), c.ready # <<>>, NEW r, r = O!PopReady(c)
  PROVE  /\ CtxOK(r, F, W) /\ Head(c.ready) \in Held(c) /\ Head(c.ready) \in Elems(c.ready)
         /\ Released(r, c, Head(c.ready))
<1>0. PICK h : h = Head(c.ready)
  OBVIOUS
<1>1. PICK t : t = Tail(c.ready)
  OBVIOUS
<1>2. PICK b : b = [c EXCEPT !.ready = t]
  OBVIOUS
<1>3. r = O!Recycle(b, h)
  BY <1>0, <1>1, <1>2 DEF O!PopReady
<1>4. c.ready \in Seq(Nat) /\ NoDup(c.ready) /\ DOMAIN c.grp = F
  BY DEF CtxOK, Context, Linked
<1>5. h \in Elems(c.ready) /\ t \in Seq(Nat) /\ NoDup(t) /\ Elems(t) = Elems(c.ready) \ {h}
  BY <1>0, <1>1, <1>4, PopProp
<1>6. h \in 1..Len(c.rec) /\ h \in Held(c)
  BY <1>5 DEF Held, CtxOK, Linked
<1>7. /\ b \in Context(F, W) /\ b.fdq = c.fdq /\ b.epw = c.epw /\ b.kern = c.kern
      /\ b.grp = c.grp /\ b.ready = t /\ b.spare = c.spare /\ b.rec = c.rec
  BY <1>2, <1>5 DEF CtxOK, Context
<1>8. Linked(b, {h})
  <2>1. \A j : Waits(b, j) <=> Waits(c, j)
    BY <1>7 DEF Waits
  <2>. QED BY <1>5, <1>7, <2>1 DEF Linked, CtxOK
<1>9. Watching(b, {})
  <2>1. \A f \in F : O!Mask(b, f) = O!Mask(c, f)
    BY <1>7 DEF O!Mask
  <2>. QED BY <1>4, <1>7, <2>1 DEF Watching, CtxOK
<1>10. /\ r \in Context(F, W) /\ Linked(r, {}) /\ Watching(r, {}) /\ r.fdq = b.fdq /\ r.grp = b.grp
       /\ Elems(r.spare) = Elems(b.spare) \union {h} /\ Len(r.rec) = Len(b.rec)
       /\ \A j \in 1..Len(b.rec) : j # h => r.rec[j] = b.rec[j]
  <2>1. h \in 1..Len(b.rec)
    BY <1>6, <1>7
  <2>. QED BY <1>3, <1>7, <1>8, <1>9, <2>1, RecycleProp
<1>11. CtxOK(r, F, W)
  BY <1>7, <1>10 DEF CtxOK
<1>12. Released(r, c, h)
  BY <1>7, <1>10, ReleasedBy
<1>. QED BY <1>0, <1>5, <1>6, <1>11, <1>12

(* aloe_ev_cancel through a handle that is registered takes back that one.  *)
LEMMA CancelProp ==
  ASSUME NEW F, NEW W, NEW c, CtxOK(c, F, W), NEW i \in Held(c), NEW r, r = O!aloe_ev_cancel(c, i)
  PROVE  CtxOK(r, F, W) /\ Released(r, c, i)
<1>0. /\ c \in Context(F, W) /\ DOMAIN c.grp = F /\ c.ready \in Seq(Nat) /\ c.grp \in [F -> Seq(Nat)]
      /\ NoDup(c.ready) /\ \A f \in F : NoDup(c.grp[f])
  BY DEF CtxOK, Context, Linked
<1>1. i \in 1..Len(c.rec) /\ c.rec[i].fd \in F /\ (Waits(c, i) \/ i \in Elems(c.ready))
  BY HeldIs
<1>2. PICK f \in F : f = c.rec[i].fd
  BY <1>1
<1>3. CASE Waits(c, i)
  <2>1. PICK s, t : s = c.grp[f] /\ t = qent_remove(s, i)
    OBVIOUS
  <2>2. s \in Seq(Nat) /\ NoDup(s) /\ i \in Elems(s)
    BY <1>0, <1>2, <1>3, <2>1 DEF Waits
  <2>3. t \in Seq(Nat) /\ NoDup(t) /\ Elems(t) = Elems(s) \ {i}
    BY <2>1, <2>2, RemoveProp
  <2>4. f \in Elems(c.fdq)
    <3>1. s # <<>>
      BY <2>2, ElemsType
    <3>. QED BY <1>0, <2>1, <3>1 DEF CtxOK, Linked
  <2>5. PICK b : b = [c EXCEPT !.grp[f] = t]
    OBVIOUS
  <2>6. PICK k, m : k = O!Recycle(b, i) /\ m = O!fd_ep_refresh(k, {f})
    OBVIOUS
  <2>7. r = O!DropEmptyGroups(m, {f})
    <3>1. f \in O!Elems(c.fdq) /\ i \in O!Elems(c.grp[f]) /\ O!qent_remove(s, i) = t
      BY <2>1, <2>2, <2>4, SameElems, SameRemove
    <3>. QED BY <1>2, <2>1, <2>5, <2>6, <3>1 DEF O!aloe_ev_cancel
  <2>8. /\ b \in Context(F, W) /\ b.fdq = c.fdq /\ b.epw = c.epw /\ b.kern = c.kern
        /\ b.ready = c.ready /\ b.spare = c.spare /\ b.rec = c.rec
        /\ \A g \in F : b.grp[g] = IF g = f THEN t ELSE c.grp[g]
    BY <1>0, <2>3, <2>5 DEF Context
  <2>9. DOMAIN b.grp = F
    BY <2>8 DEF Context
  <2>10. Linked(b, {i})
    <3>1. \A g \in F : Elems(b.grp[g]) = Elems(c.grp[g]) \ {i}
      <4>1. \A g \in F : g # f => i \notin Elems(c.grp[g])
        BY <1>0, <1>2 DEF CtxOK, Linked
      <4>. QED BY <2>1, <2>3, <2>8, <4>1
    <3>2. \A j \in 1..Len(c.rec) : c.rec[j].fd \in F
      <4>1. \A j \in 1..Len(c.rec) : c.rec[j] \in Record(F, W)
        BY <1>0, ElementOfSeq DEF Context
      <4>. QED BY <4>1 DEF Record
    <3>3. ASSUME NEW j \in 1..Len(c.rec) PROVE Waits(b, j) <=> Waits(c, j) /\ j # i
      <4>1. PICK g \in F : g = c.rec[j].fd /\ g = b.rec[j].fd
        BY <2>8, <3>2
      <4>. QED BY <3>1, <4>1 DEF Waits
    <3>4. ASSUME NEW g \in F
          PROVE  /\ NoDup(b.grp[g]) /\ (b.grp[g] # <<>> => g \in Elems(b.fdq))
                 /\ \A j \in Elems(b.grp[g]) : j \in 1..Len(b.rec) /\ b.rec[j].fd = g
      <4>1. ASSUME NEW j \in Elems(b.grp[g]) PROVE j \in 1..Len(b.rec) /\ b.rec[j].fd = g
        <5>1. j \in Elems(c.grp[g])
          BY <3>1
        <5>2. j \in 1..Len(c.rec) /\ c.rec[j].fd = g
          BY <1>0, <5>1 DEF CtxOK, Linked
        <5>. QED BY <2>8, <5>2
      <4>2. CASE g = f
        BY <2>3, <2>4, <2>8, <4>1, <4>2
      <4>3. CASE g # f
        BY <1>0, <2>8, <4>1, <4>3 DEF CtxOK, Linked
      <4>. QED BY <4>2, <4>3
    <3>5. i \notin Elems(c.ready) /\ i \notin Elems(c.spare)
      BY <1>1, <1>3 DEF CtxOK, Linked
    <3>6. ASSUME NEW j \in 1..Len(b.rec)
          PROVE  /\ j \in {i} => ~Waits(b, j) /\ j \notin Elems(b.ready) /\ j \notin Elems(b.spare)
                 /\ j \notin {i} => Waits(b, j) \/ j \in Elems(b.ready) \/ j \in Elems(b.spare)
                 /\ ~(j \in Elems(b.ready) /\ j \in Elems(b.spare))
                 /\ Waits(b, j) => j \notin Elems(b.ready) /\ j \notin Elems(b.spare)
      BY <2>8, <3>3, <3>5 DEF CtxOK, Linked
    <3>7. /\ NoDup(b.fdq) /\ NoDup(b.ready) /\ NoDup(b.spare)
          /\ \A j : j \in Elems(b.ready) \/ j \in Elems(b.spare) => j \in 1..Len(b.rec)
      BY <2>8 DEF CtxOK, Linked
    <3>. QED BY <2>9, <3>4, <3>6, <3>7 DEF Linked
  <2>11. Watching(b, {f})
    <3>1. \A g \in F : g # f => O!Mask(b, g) = O!Mask(c, g)
      BY <2>8 DEF O!Mask
    <3>. QED BY <1>0, <2>4, <2>8, <2>9, <3>1 DEF CtxOK, Watching
  <2>12. i \in 1..Len(b.rec)
    BY <1>1, <2>8
  <2>13. /\ k \in Context(F, W) /\ Linked(k, {}) /\ Watching(k, {f})
         /\ k.fdq = b.fdq /\ k.grp = b.grp /\ k.ready = b.ready
         /\ Elems(k.spare) = Elems(b.spare) \union {i} /\ Len(k.rec) = Len(b.rec)
         /\ \A j \in 1..Len(b.rec) : j # i => k.rec[j] = b.rec[j]
    BY <2>6, <2>8, <2>10, <2>11, <2>12, RecycleProp, SMTT(30)
  <2>14. /\ m \in Context(F, W) /\ Watching(m, {})
         /\ m.fdq = k.fdq /\ m.grp = k.grp /\ m.ready = k.ready /\ m.spare = k.spare /\ m.rec = k.rec
    BY <2>6, <2>13, RefreshProp
  <2>15. Linked(m, {})
    BY <2>13, <2>14 DEF Linked, Waits
  <2>16. \A g \in Elems(m.fdq) : g \notin {f} => m.grp[g] # <<>>
    <3>1. Elems(c.fdq) \subseteq F
      BY <1>0, ElemsType DEF Context
    <3>. QED BY <2>8, <2>13, <2>14, <3>1 DEF CtxOK
  <2>17. CtxOK(r, F, W) /\ r.spare = m.spare /\ r.rec = m.rec
    BY <2>7, <2>14, <2>15, <2>16, DropProp
  <2>18. Released(r, c, i)
    BY <2>8, <2>13, <2>14, <2>17, ReleasedBy
  <2>. QED BY <2>17, <2>18
<1>4. CASE ~Waits(c, i)
  <2>1. i \in Elems(c.ready)
    BY <1>1, <1>4
  <2>2. PICK t : t = qent_remove(c.ready, i)
    OBVIOUS
  <2>3. t \in Seq(Nat) /\ NoDup(t) /\ Elems(t) = Elems(c.ready) \ {i}
    BY <1>0, <2>2, RemoveProp
  <2>4. PICK b : b = [c EXCEPT !.ready = t]
    OBVIOUS
  <2>5. r = O!Recycle(b, i)
    <3>1. i \notin O!Elems(c.grp[f]) /\ i \in O!Elems(c.ready) /\ O!qent_remove(c.ready, i) = t
      BY <1>2, <1>4, <2>1, <2>2, SameElems, SameRemove DEF Waits
    <3>. QED BY <1>2, <2>4, <3>1 DEF O!aloe_ev_cancel
  <2>6. /\ b \in Context(F, W) /\ b.fdq = c.fdq /\ b.epw = c.epw /\ b.kern = c.kern
        /\ b.grp = c.grp /\ b.ready = t /\ b.spare = c.spare /\ b.rec = c.rec
    BY <1>0, <2>3, <2>4 DEF Context
  <2>7. Linked(b, {i})
    <3>1. \A j : Waits(b, j) <=> Waits(c, j)
      BY <2>6 DEF Waits
    <3>. QED BY <2>1, <2>3, <2>6, <3>1 DEF Linked, CtxOK
  <2>8. Watching(b, {})
    <3>1. \A g \in F : O!Mask(b, g) = O!Mask(c, g)
      BY <2>6 DEF O!Mask
    <3>. QED BY <1>0, <2>6, <3>1 DEF Watching, CtxOK
  <2>9. /\ r \in Context(F, W) /\ Linked(r, {}) /\ Watching(r, {}) /\ r.fdq = b.fdq /\ r.grp = b.grp
        /\ Elems(r.spare) = Elems(b.spare) \union {i} /\ Len(r.rec) = Len(b.rec)
        /\ \A j \in 1..Len(b.rec) : j # i => r.rec[j] = b.rec[j]
    BY <1>1, <2>5, <2>6, <2>7, <2>8, RecycleProp
  <2>10. CtxOK(r, F, W)
    BY <2>6, <2>9 DEF CtxOK
  <2>11. Released(r, c, i)
    BY <2>6, <2>9, ReleasedBy
  <2>. QED BY <2>10, <2>11
<1>. QED BY <1>3, <1>4

-----------------------------------------------------------------------------
(* aloe_ev_put takes the record i, the first spare one or a new one, and    *)
(* fills it with x: q are the records then, s is the spare list.            *)
Taken(c, x, i, q, s) ==
  /\ i = IF c.spare = <<>> THEN Len(c.rec) + 1 ELSE Head(c.spare)
  /\ q = IF c.spare = <<>> THEN Append(c.rec, x) ELSE [c.rec EXCEPT ![i] = x]
  /\ s = IF c.spare = <<>> THEN c.spare ELSE Tail(c.spare)

(* It is nobody else's.                                                     *)
TakenOK(c, F, W, x, i, q, s) ==
  /\ i \in Nat /\ i \in 1..Len(q) /\ q \in Seq(Record(F, W)) /\ q[i] = x
  /\ \A j : j \in 1..Len(q) <=> j \in 1..Len(c.rec) \/ j = i
  /\ \A j \in 1..Len(c.rec) : j # i => q[j] = c.rec[j]
  /\ s \in Seq(Nat) /\ NoDup(s) /\ \A j : j \in Elems(s) <=> j \in Elems(c.spare) /\ j # i
  /\ i \notin Held(c) /\ i \notin Elems(c.ready) /\ \A g \in F : i \notin Elems(c.grp[g])

LEMMA TakeProp ==
  ASSUME NEW F, NEW W, NEW c, CtxOK(c, F, W), NEW x \in Record(F, W), NEW i, NEW q, NEW s,
         Taken(c, x, i, q, s)
  PROVE  TakenOK(c, F, W, x, i, q, s)
<1>1. /\ c.rec \in Seq(Record(F, W)) /\ c.spare \in Seq(Nat) /\ NoDup(c.spare) /\ DOMAIN c.grp = F
      /\ Len(c.rec) \in Nat
  BY DEF CtxOK, Context, Linked
<1>2. CASE c.spare = <<>>
  <2>1. i = Len(c.rec) + 1 /\ q = Append(c.rec, x) /\ s = c.spare
    BY <1>2 DEF Taken
  <2>2. /\ q \in Seq(Record(F, W)) /\ Len(q) = Len(c.rec) + 1 /\ q[Len(c.rec) + 1] = x
        /\ \A j \in 1..Len(c.rec) : q[j] = c.rec[j]
    BY <1>1, <2>1, AppendProperties
  <2>3. /\ i \in Nat /\ i \in 1..Len(q) /\ i \notin 1..Len(c.rec)
        /\ \A j : j \in 1..Len(q) <=> j \in 1..Len(c.rec) \/ j = i
    BY <1>1, <2>1, <2>2
  <2>4. i \notin Elems(c.ready) /\ i \notin Elems(c.spare) /\ \A g \in F : i \notin Elems(c.grp[g])
    BY <1>1, <2>3 DEF CtxOK, Linked
  <2>5. i \notin Held(c)
    BY <2>3 DEF Held
  <2>6. s \in Seq(Nat) /\ NoDup(s) /\ \A j : j \in Elems(s) <=> j \in Elems(c.spare) /\ j # i
    BY <1>1, <2>1, <2>4
  <2>7. q[i] = x
    BY <2>1, <2>2
  <2>. QED BY <2>2, <2>3, <2>4, <2>5, <2>6, <2>7 DEF TakenOK
<1>3. CASE c.spare # <<>>
  <2>1. i = Head(c.spare) /\ q = [c.rec EXCEPT ![i] = x] /\ s = Tail(c.spare)
    BY <1>3 DEF Taken
  <2>2. /\ i \in Nat /\ i \in Elems(c.spare) /\ s \in Seq(Nat) /\ NoDup(s)
        /\ Elems(s) = Elems(c.spare) \ {i}
    BY <1>1, <1>3, <2>1, PopProp
  <2>3. i \in 1..Len(c.rec)
    BY <2>2 DEF CtxOK, Linked
  <2>4. q \in Seq(Record(F, W)) /\ Len(q) = Len(c.rec)
    BY <1>1, <2>1, <2>3, ExceptSeq
  <2>5. \A j \in 1..Len(c.rec) : q[j] = IF j = i THEN x ELSE c.rec[j]
    BY <1>1, <2>1
  <2>6. i \notin Elems(c.ready) /\ i \notin Held(c) /\ ~Waits(c, i)
    BY <2>2, <2>3 DEF CtxOK, Linked, Held
  <2>7. \A g \in F : i \notin Elems(c.grp[g])
    BY <1>1, <2>6 DEF CtxOK, Linked, Waits
  <2>. QED BY <2>2, <2>3, <2>4, <2>5, <2>6, <2>7 DEF TakenOK
<1>. QED BY <1>2, <1>3

(* The record is chained to the group of its descriptor.                    *)
Chained(k, c, f, i, q, s) ==
  k = [c EXCEPT !.spare = s, !.rec = q,
                !.fdq = IF f \notin Elems(c.fdq) THEN Append(c.fdq, f) ELSE c.fdq,
                !.epw[f] = IF f \notin Elems(c.fdq) THEN {} ELSE c.epw[f],
                !.grp[f] = Append(c.grp[f], i)]

IsFor(x, f) == x.fd = f

(* What has changed then.                                                   *)
ChainedOK(k, c, F, W, f, i, q, s) ==
  /\ k \in Context(F, W) /\ DOMAIN k.grp = F /\ NoDup(k.fdq)
  /\ \A g : g \in Elems(k.fdq) <=> g \in Elems(c.fdq) \/ g = f
  /\ \A g \in F : k.epw[g] = IF g = f /\ f \notin Elems(c.fdq) THEN {} ELSE c.epw[g]
  /\ k.kern = c.kern /\ k.ready = c.ready /\ k.spare = s /\ k.rec = q
  /\ k.grp = [c.grp EXCEPT ![f] = Append(c.grp[f], i)]

LEMMA ChainFields ==
  ASSUME NEW F, NEW W, NEW c, CtxOK(c, F, W), NEW f \in F, NEW x \in Record(F, W), NEW i, NEW q, NEW s,
         TakenOK(c, F, W, x, i, q, s), NEW k, Chained(k, c, f, i, q, s)
  PROVE  ChainedOK(k, c, F, W, f, i, q, s)
<1>0. /\ c \in Context(F, W) /\ DOMAIN c.grp = F /\ c.fdq \in Seq(F) /\ NoDup(c.fdq)
      /\ c.grp \in [F -> Seq(Nat)] /\ c.epw \in [F -> SUBSET IoFlag]
  BY DEF CtxOK, Context, Linked
<1>1. PICK u, e, t : /\ u = IF f \notin Elems(c.fdq) THEN Append(c.fdq, f) ELSE c.fdq
                     /\ e = [c.epw EXCEPT ![f] = IF f \notin Elems(c.fdq) THEN {} ELSE c.epw[f]]
                     /\ t = [c.grp EXCEPT ![f] = Append(c.grp[f], i)]
  OBVIOUS
<1>2. k = [c EXCEPT !.spare = s, !.rec = q, !.fdq = u, !.epw = e, !.grp = t]
  BY <1>0, <1>1 DEF Chained, Context
<1>3. /\ Append(c.fdq, f) \in Seq(F) /\ Elems(Append(c.fdq, f)) = Elems(c.fdq) \cup {f}
      /\ f \notin Elems(c.fdq) => NoDup(Append(c.fdq, f))
  BY <1>0, AppendProp
<1>4. u \in Seq(F) /\ NoDup(u) /\ \A g : g \in Elems(u) <=> g \in Elems(c.fdq) \/ g = f
  BY <1>0, <1>1, <1>3
<1>5. /\ e \in [F -> SUBSET IoFlag]
      /\ \A g \in F : e[g] = IF g = f /\ f \notin Elems(c.fdq) THEN {} ELSE c.epw[g]
  BY <1>0, <1>1
<1>6. Append(c.grp[f], i) \in Seq(Nat)
  BY <1>0, AppendProperties DEF TakenOK
<1>7. t \in [F -> Seq(Nat)]
  BY <1>0, <1>1, <1>6
<1>8. s \in Seq(Nat) /\ q \in Seq(Record(F, W))
  BY DEF TakenOK
<1>9. /\ k \in Context(F, W) /\ k.fdq = u /\ k.epw = e /\ k.kern = c.kern
      /\ k.grp = t /\ k.ready = c.ready /\ k.spare = s /\ k.rec = q
  BY <1>0, <1>2, <1>4, <1>5, <1>7, <1>8 DEF Context
<1>10. DOMAIN t = F
  BY <1>7
<1>. QED BY <1>1, <1>4, <1>5, <1>9, <1>10 DEF ChainedOK

(* The group has it, and nothing else is different.                         *)
Joined(k, c, f, i) ==
  /\ Linked(k, {}) /\ Watching(k, {f}) /\ \A g \in Elems(k.fdq) : k.grp[g] # <<>>
  /\ \A j : j \in Held(k) <=> j \in Held(c) \/ j = i

LEMMA ChainProp ==
  ASSUME NEW F, NEW W, NEW c, CtxOK(c, F, W), NEW f \in F, NEW x \in Record(F, W), IsFor(x, f),
         NEW i, NEW q, NEW s, TakenOK(c, F, W, x, i, q, s), NEW k, ChainedOK(k, c, F, W, f, i, q, s)
  PROVE  Joined(k, c, f, i)
<1>0. /\ DOMAIN c.grp = F /\ c.grp \in [F -> Seq(Nat)] /\ Elems(c.fdq) \subseteq F
      /\ DOMAIN k.grp = F /\ c.rec \in Seq(Record(F, W))
  <2>1. c.fdq \in Seq(F) /\ c.grp \in [F -> Seq(Nat)] /\ c.rec \in Seq(Record(F, W))
    BY DEF CtxOK, Context
  <2>. QED BY <2>1, ElemsType DEF ChainedOK
<1>1. /\ Append(c.grp[f], i) \in Seq(Nat) /\ Elems(Append(c.grp[f], i)) = Elems(c.grp[f]) \cup {i}
      /\ NoDup(Append(c.grp[f], i))
  <2>1. c.grp[f] \in Seq(Nat) /\ NoDup(c.grp[f]) /\ i \in Nat /\ i \notin Elems(c.grp[f])
    BY <1>0 DEF CtxOK, Linked, TakenOK
  <2>. QED BY <2>1, AppendProp
<1>2. \A g \in F : k.grp[g] = IF g = f THEN Append(c.grp[f], i) ELSE c.grp[g]
  BY <1>0 DEF ChainedOK
<1>3. \A g \in F : \A j : j \in Elems(k.grp[g]) <=> j \in Elems(c.grp[g]) \/ (g = f /\ j = i)
  BY <1>1, <1>2
<1>4. \A j \in 1..Len(c.rec) : c.rec[j].fd \in F
  <2>1. \A j \in 1..Len(c.rec) : c.rec[j] \in Record(F, W)
    BY <1>0, ElementOfSeq
  <2>. QED BY <2>1 DEF Record
<1>5. Append(c.grp[f], i) # <<>>
  BY <1>1, ElemsType
<1>6. \A g \in Elems(k.fdq) : g \in F /\ k.grp[g] # <<>>
  BY <1>0, <1>2, <1>5 DEF CtxOK, ChainedOK
<1>7. ASSUME NEW j \in 1..Len(k.rec) PROVE Waits(k, j) <=> j = i \/ (j \in 1..Len(c.rec) /\ Waits(c, j))
  <2>1. CASE j = i
    <3>1. k.rec[j].fd = f
      BY <2>1 DEF TakenOK, ChainedOK, IsFor
    <3>. QED BY <1>3, <2>1, <3>1 DEF Waits
  <2>2. CASE j # i
    <3>1. j \in 1..Len(c.rec) /\ k.rec[j] = c.rec[j]
      BY <2>2 DEF TakenOK, ChainedOK
    <3>2. PICK g \in F : g = c.rec[j].fd
      BY <1>4, <3>1
    <3>3. Waits(k, j) <=> j \in Elems(k.grp[g])
      BY <3>1, <3>2 DEF Waits
    <3>4. Waits(c, j) <=> j \in Elems(c.grp[g])
      BY <3>2 DEF Waits
    <3>. QED BY <1>3, <2>2, <3>1, <3>3, <3>4
  <2>. QED BY <2>1, <2>2
<1>8. Linked(k, {})
  <2>1. ASSUME NEW g \in F
        PROVE  /\ NoDup(k.grp[g]) /\ (k.grp[g] # <<>> => g \in Elems(k.fdq))
               /\ \A j \in Elems(k.grp[g]) : j \in 1..Len(k.rec) /\ k.rec[j].fd = g
    <3>1. NoDup(k.grp[g]) /\ (k.grp[g] # <<>> => g \in Elems(k.fdq))
      BY <1>0, <1>1, <1>2 DEF CtxOK, Linked, ChainedOK
    <3>2. ASSUME NEW j \in Elems(k.grp[g]) PROVE j \in 1..Len(k.rec) /\ k.rec[j].fd = g
      <4>1. CASE j = i /\ g = f
        BY <4>1 DEF TakenOK, ChainedOK, IsFor
      <4>2. CASE j \in Elems(c.grp[g])
        <5>1. j \in 1..Len(c.rec) /\ c.rec[j].fd = g /\ j # i
          BY <1>0, <4>2 DEF CtxOK, Linked, TakenOK
        <5>. QED BY <5>1 DEF TakenOK, ChainedOK
      <4>. QED BY <1>3, <4>1, <4>2
    <3>. QED BY <3>1, <3>2
  <2>2. /\ NoDup(k.fdq) /\ NoDup(k.ready) /\ NoDup(k.spare)
        /\ \A j : j \in Elems(k.ready) \/ j \in Elems(k.spare) => j \in 1..Len(k.rec)
    BY DEF CtxOK, Linked, TakenOK, ChainedOK
  <2>3. ASSUME NEW j \in 1..Len(k.rec)
        PROVE  /\ Waits(k, j) \/ j \in Elems(k.ready) \/ j \in Elems(k.spare)
               /\ ~(j \in Elems(k.ready) /\ j \in Elems(k.spare))
               /\ Waits(k, j) => j \notin Elems(k.ready) /\ j \notin Elems(k.spare)
    <3>1. k.ready = c.ready /\ (j \in Elems(k.spare) <=> j \in Elems(c.spare) /\ j # i)
      BY DEF TakenOK, ChainedOK
    <3>2. CASE j = i
      <4>1. Waits(k, j) /\ j \notin Elems(c.ready)
        BY <1>7, <3>2 DEF TakenOK
      <4>. QED BY <3>1, <3>2, <4>1
    <3>3. CASE j # i
      <4>1. j \in 1..Len(c.rec)
        BY <3>3 DEF TakenOK, ChainedOK
      <4>. QED BY <1>7, <3>1, <3>3, <4>1 DEF CtxOK, Linked
    <3>. QED BY <3>2, <3>3
  <2>. QED BY <1>0, <2>1, <2>2, <2>3 DEF Linked
<1>9. Watching(k, {f})
  <2>1. ASSUME NEW g \in F \ {NoFd}, g # f
        PROVE  k.kern[g] = O!Mask(k, g) /\ (g \in Elems(k.fdq) => k.epw[g] = k.kern[g])
    <3>1. k.grp[g] = c.grp[g]
      BY <1>2, <2>1
    <3>2. ASSUME NEW j \in Elems(c.grp[g]) PROVE k.rec[j] = c.rec[j]
      <4>1. j \in 1..Len(c.rec) /\ j # i
        BY <1>0 DEF CtxOK, Linked, TakenOK
      <4>. QED BY <4>1 DEF TakenOK, ChainedOK
    <3>3. O!Mask(k, g) = O!Mask(c, g)
      BY <3>1, <3>2, SameElems DEF O!Mask
    <3>. QED BY <1>0, <2>1, <3>3 DEF CtxOK, Watching, ChainedOK
  <2>2. ASSUME f # NoFd PROVE k.epw[f] = k.kern[f]
    <3>1. c.kern[f] = O!Mask(c, f)
      BY <1>0, <2>2 DEF CtxOK, Watching
    <3>2. CASE f \in Elems(c.fdq)
      BY <1>0, <2>2, <3>2 DEF CtxOK, Watching, ChainedOK
    <3>3. CASE f \notin Elems(c.fdq)
      <4>1. c.grp[f] = <<>>
        BY <1>0, <3>3 DEF CtxOK, Linked
      <4>2. O!Elems(c.grp[f]) = {}
        BY <1>0, <4>1, SameElems, ElemsType
      <4>3. O!Mask(c, f) = {}
        BY <4>2 DEF O!Mask
      <4>. QED BY <3>1, <3>3, <4>3 DEF ChainedOK
    <3>. QED BY <3>2, <3>3
  <2>. QED BY <1>0, <2>1, <2>2 DEF Watching
<1>10. \A j : j \in Held(k) <=> j \in Held(c) \/ j = i
  BY DEF Held, TakenOK, ChainedOK
<1>. QED BY <1>6, <1>8, <1>9, <1>10 DEF Joined

(* When the kernel refuses, the group is as it was and the record loose.    *)
Unchained(b, k, c, f) == b = [k EXCEPT !.grp[f] = c.grp[f]]

LEMMA UnchainProp ==
  ASSUME NEW F, NEW W, NEW c, CtxOK(c, F, W), NEW f \in F, NEW x \in Record(F, W),
         NEW i, NEW q, NEW s, TakenOK(c, F, W, x, i, q, s), NEW k, ChainedOK(k, c, F, W, f, i, q, s),
         NEW b, Unchained(b, k, c, f)
  PROVE  /\ b \in Context(F, W) /\ Linked(b, {i}) /\ Watching(b, {}) /\ i \in 1..Len(b.rec)
         /\ b.fdq = k.fdq /\ b.grp = c.grp /\ b.ready = c.ready /\ b.spare = s /\ b.rec = q
<1>0. /\ DOMAIN c.grp = F /\ c.grp \in [F -> Seq(Nat)] /\ c.rec \in Seq(Record(F, W))
      /\ k \in Context(F, W)
  BY DEF CtxOK, Context, ChainedOK
<1>1. /\ b \in Context(F, W) /\ b.fdq = k.fdq /\ b.epw = k.epw /\ b.kern = k.kern
      /\ b.ready = k.ready /\ b.spare = k.spare /\ b.rec = k.rec
      /\ b.grp = [k.grp EXCEPT ![f] = c.grp[f]]
  BY <1>0 DEF Context, Unchained
<1>2. b.grp = c.grp
  <2>1. \A g \in F : b.grp[g] = c.grp[g]
    BY <1>0, <1>1 DEF ChainedOK
  <2>2. b.grp \in [F -> Seq(Nat)]
    BY <1>1 DEF Context
  <2>3. PICK t, u : t = b.grp /\ u = c.grp
    OBVIOUS
  <2>4. t \in [F -> Seq(Nat)] /\ u \in [F -> Seq(Nat)] /\ \A g \in F : t[g] = u[g]
    BY <1>0, <2>1, <2>2, <2>3
  <2>5. t = u
    BY <2>4
  <2>. QED BY <2>3, <2>5
<1>3. b.ready = c.ready /\ b.spare = s /\ b.rec = q /\ b.kern = c.kern
  BY <1>1 DEF ChainedOK
<1>4. \A j \in 1..Len(c.rec) : c.rec[j].fd \in F
  <2>1. \A j \in 1..Len(c.rec) : c.rec[j] \in Record(F, W)
    BY <1>0, ElementOfSeq
  <2>. QED BY <2>1 DEF Record
<1>5. x.fd \in F
  BY DEF Record
<1>6. ASSUME NEW j \in 1..Len(q) PROVE Waits(b, j) <=> j # i /\ Waits(c, j)
  <2>1. CASE j = i
    BY <1>2, <1>3, <1>5, <2>1 DEF Waits, TakenOK
  <2>2. CASE j # i
    <3>1. j \in 1..Len(c.rec) /\ b.rec[j] = c.rec[j]
      BY <1>3, <2>2 DEF TakenOK
    <3>. QED BY <1>2, <2>2, <3>1 DEF Waits
  <2>. QED BY <2>1, <2>2
<1>7. Linked(b, {i})
  <2>1. ASSUME NEW g \in F
        PROVE  /\ NoDup(b.grp[g]) /\ (b.grp[g] # <<>> => g \in Elems(b.fdq))
               /\ \A j \in Elems(b.grp[g]) : j \in 1..Len(b.rec) /\ b.rec[j].fd = g
    <3>1. NoDup(b.grp[g]) /\ (b.grp[g] # <<>> => g \in Elems(b.fdq))
      BY <1>0, <1>1, <1>2 DEF CtxOK, Linked, ChainedOK
    <3>2. ASSUME NEW j \in Elems(b.grp[g]) PROVE j \in 1..Len(b.rec) /\ b.rec[j].fd = g
      <4>1. j \in 1..Len(c.rec) /\ c.rec[j].fd = g /\ j # i
        BY <1>0, <1>2 DEF CtxOK, Linked, TakenOK
      <4>. QED BY <1>3, <4>1 DEF TakenOK
    <3>. QED BY <3>1, <3>2
  <2>2. /\ NoDup(b.fdq) /\ NoDup(b.ready) /\ NoDup(b.spare)
        /\ \A j : j \in Elems(b.ready) \/ j \in Elems(b.spare) => j \in 1..Len(b.rec)
    BY <1>1, <1>3 DEF CtxOK, Linked, TakenOK, ChainedOK
  <2>3. ASSUME NEW j \in 1..Len(b.rec)
        PROVE  /\ j \in {i} => ~Waits(b, j) /\ j \notin Elems(b.ready) /\ j \notin Elems(b.spare)
               /\ j \notin {i} => Waits(b, j) \/ j \in Elems(b.ready) \/ j \in Elems(b.spare)
               /\ ~(j \in Elems(b.ready) /\ j \in Elems(b.spare))
               /\ Waits(b, j) => j \notin Elems(b.ready) /\ j \notin Elems(b.spare)
    <3>1. j \in 1..Len(q) /\ (j \in Elems(b.spare) <=> j \in Elems(c.spare) /\ j # i)
      BY <1>3 DEF TakenOK
    <3>2. Waits(b, j) <=> j # i /\ Waits(c, j)
      BY <1>6, <3>1
    <3>3. CASE j = i
      <4>1. j \notin Elems(c.ready)
        BY <3>3 DEF TakenOK
      <4>. QED BY <1>3, <3>1, <3>2, <3>3, <4>1
    <3>4. CASE j # i
      <4>1. j \in 1..Len(c.rec)
        BY <3>1, <3>4 DEF TakenOK
      <4>. QED BY <1>3, <3>1, <3>2, <3>4, <4>1 DEF CtxOK, Linked
    <3>. QED BY <3>3, <3>4
  <2>. QED BY <1>0, <1>2, <2>1, <2>2, <2>3 DEF Linked
<1>8. Watching(b, {})
  <2>1. ASSUME NEW g \in F \ {NoFd}
        PROVE  b.kern[g] = O!Mask(b, g) /\ (g \in Elems(b.fdq) => b.epw[g] = b.kern[g])
    <3>1. ASSUME NEW j \in Elems(c.grp[g]) PROVE b.rec[j] = c.rec[j]
      <4>1. j \in 1..Len(c.rec) /\ j # i
        BY <1>0 DEF CtxOK, Linked, TakenOK
      <4>. QED BY <1>3, <4>1 DEF TakenOK
    <3>2. O!Mask(b, g) = O!Mask(c, g)
      BY <1>2, <3>1, SameElems DEF O!Mask
    <3>3. c.kern[g] = O!Mask(c, g) /\ (g \in Elems(c.fdq) => c.epw[g] = c.kern[g])
      BY <1>0, <2>1 DEF CtxOK, Watching
    <3>4. CASE g = f /\ f \notin Elems(c.fdq)
      <4>1. c.grp[f] = <<>>
        BY <1>0, <3>4 DEF CtxOK, Linked
      <4>2. O!Elems(c.grp[f]) = {}
        BY <1>0, <4>1, SameElems, ElemsType
      <4>3. O!Mask(c, f) = {}
        BY <4>2 DEF O!Mask
      <4>. QED BY <1>1, <1>3, <3>2, <3>3, <3>4, <4>3 DEF ChainedOK
    <3>5. CASE ~(g = f /\ f \notin Elems(c.fdq))
      BY <1>1, <1>3, <3>2, <3>3, <3>5 DEF ChainedOK
    <3>. QED BY <3>4, <3>5
  <2>. QED BY <1>0, <1>2, <2>1 DEF Watching
<1>9. i \in 1..Len(b.rec)
  BY <1>3 DEF TakenOK
<1>. QED BY <1>1, <1>2, <1>3, <1>7, <1>8, <1>9

(* The two ends of aloe_ev_put: nothing is registered and the handle is     *)
(* NULL, or a record that was nobody's is registered under the handle.      *)
Refused(p, c) ==
  /\ p.ev = NULL
  /\ \A j : j \in Held(p.ctx) <=> j \in Held(c)
  /\ \A j \in Held(c) : p.ctx.rec[j] = c.rec[j]

Registered(p, c, x) ==
  /\ p.ev \in Nat /\ p.ev \notin Held(c)
  /\ \A j : j \in Held(p.ctx) <=> j \in Held(c) \/ j = p.ev
  /\ \A j \in Held(c) : p.ctx.rec[j] = c.rec[j]
  /\ p.ctx.rec[p.ev] = x

(* The three ends in the terms above: k is the context with the record       *)
(* chained, b the one with the group put back.                              *)
Prepared(c, f, o, w, d, i, q, s, k, b) ==
  /\ Taken(c, [fd |-> f, owner |-> o, wait |-> w, due |-> d, noti |-> {}], i, q, s)
  /\ Chained(k, c, f, i, q, s) /\ Unchained(b, k, c, f)

Ends(p, c, f, i, k, b) ==
  \/ p = [ctx |-> c, ev |-> NULL]
  \/ p = [ctx |-> IF f \notin Elems(c.fdq) THEN O!DropEmptyGroups(O!Recycle(b, i), {f})
                  ELSE O!Recycle(b, i),
          ev |-> NULL]
  \/ p = [ctx |-> O!fd_ep_refresh(k, {f}), ev |-> i]

LEMMA PutIs ==
  ASSUME NEW F, NEW W, NEW c \in Context(F, W), NEW f \in F, NEW o, NEW w, NEW d, NEW fails,
         NEW i, NEW q, NEW s, NEW k, NEW b, Prepared(c, f, o, w, d, i, q, s, k, b)
  PROVE  Ends(O!aloe_ev_put(c, f, o, w, d, fails), c, f, i, k, b)
<1>0. PICK p : p = O!aloe_ev_put(c, f, o, w, d, fails)
  OBVIOUS
<1>. DEFINE new == c.spare = <<>>
            opens == f \notin O!Elems(c.fdq)
            x == [fd |-> f, owner |-> o, wait |-> w, due |-> d, noti |-> {}]
            h == IF new THEN Len(c.rec) + 1 ELSE Head(c.spare)
            k2 == [c EXCEPT !.spare = IF new THEN @ ELSE Tail(@),
                            !.rec = IF new THEN Append(@, x) ELSE [@ EXCEPT ![h] = x],
                            !.fdq = IF opens THEN Append(@, f) ELSE @,
                            !.epw[f] = IF opens THEN {} ELSE @,
                            !.grp[f] = Append(@, h)]
            bites == f # NoFd /\ fails = "epoll" /\ O!Mask(k2, f) \notin {{}, k2.epw[f]}
            back2 == O!Recycle([k2 EXCEPT !.grp[f] = c.grp[f]], h)
<1>1. p = CASE fails = "malloc" /\ (new \/ opens) -> [ctx |-> c, ev |-> NULL]
            [] bites -> [ctx |-> IF opens THEN O!DropEmptyGroups(back2, {f}) ELSE back2, ev |-> NULL]
            [] OTHER -> [ctx |-> O!fd_ep_refresh(k2, {f}), ev |-> h]
  BY <1>0, Zenon DEF O!aloe_ev_put
<1>2. O!Elems(c.fdq) = Elems(c.fdq)
  BY SameElems
<1>3. h = i
  BY DEF Prepared, Taken
<1>4. k2 = k
  <2>1. /\ s = (IF new THEN c.spare ELSE Tail(c.spare))
        /\ q = IF new THEN Append(c.rec, x) ELSE [c.rec EXCEPT ![h] = x]
    BY <1>3 DEF Prepared, Taken
  <2>2. /\ c = [fdq |-> c.fdq, grp |-> c.grp, epw |-> c.epw, kern |-> c.kern, ready |-> c.ready,
                spare |-> c.spare, rec |-> c.rec]
        /\ f \in DOMAIN c.epw /\ f \in DOMAIN c.grp
    BY DEF Context
  <2>3. k2 = [c EXCEPT !.spare = s, !.rec = q,
                !.fdq = IF f \notin Elems(c.fdq) THEN Append(c.fdq, f) ELSE c.fdq,
                !.epw[f] = IF f \notin Elems(c.fdq) THEN {} ELSE c.epw[f],
                !.grp[f] = Append(c.grp[f], h)]
    BY <1>2, <2>1, <2>2
  <2>. QED BY <1>3, <2>3 DEF Prepared, Chained
<1>5. back2 = O!Recycle(b, i)
  BY <1>3, <1>4 DEF Prepared, Unchained
<1>. HIDE DEF k2, bites, new, h, back2
<1>6. Ends(p, c, f, i, k, b)
  BY <1>1, <1>2, <1>3, <1>4, <1>5 DEF Ends
<1>. QED BY <1>0, <1>6

(* The record is registered.                                                *)
LEMMA AcceptProp ==
  ASSUME NEW F, NEW W, NEW c, CtxOK(c, F, W), NEW f \in F, NEW x \in Record(F, W), IsFor(x, f),
         NEW i, NEW q, NEW s, TakenOK(c, F, W, x, i, q, s), NEW k, ChainedOK(k, c, F, W, f, i, q, s)
  PROVE  \A r : r = O!fd_ep_refresh(k, {f}) =>
           CtxOK(r, F, W) /\ Registered([ctx |-> r, ev |-> i], c, x)
<1>1. /\ Linked(k, {}) /\ Watching(k, {f}) /\ \A g \in Elems(k.fdq) : k.grp[g] # <<>>
      /\ \A j : j \in Held(k) <=> j \in Held(c) \/ j = i
  <2>1. Joined(k, c, f, i)
    BY ChainProp
  <2>. QED BY <2>1 DEF Joined
<1>. SUFFICES ASSUME NEW r, r = O!fd_ep_refresh(k, {f})
              PROVE  CtxOK(r, F, W) /\ Registered([ctx |-> r, ev |-> i], c, x)
  OBVIOUS
<1>2. k \in Context(F, W) /\ k.rec = q
  BY DEF ChainedOK
<1>3. /\ r \in Context(F, W) /\ Watching(r, {})
      /\ r.fdq = k.fdq /\ r.grp = k.grp /\ r.ready = k.ready /\ r.spare = k.spare /\ r.rec = k.rec
  BY <1>1, <1>2, RefreshProp
<1>4. Linked(r, {})
  BY <1>1, <1>3, SameLinks
<1>5. CtxOK(r, F, W)
  BY <1>1, <1>3, <1>4 DEF CtxOK
<1>6. \A j : j \in Held(r) <=> j \in Held(c) \/ j = i
  BY <1>1, <1>3 DEF Held
<1>7. \A j \in Held(c) : r.rec[j] = c.rec[j]
  BY <1>2, <1>3 DEF Held, TakenOK
<1>8. i \in Nat /\ i \notin Held(c) /\ r.rec[i] = x
  BY <1>2, <1>3 DEF TakenOK
<1>9. PICK p : p = [ctx |-> r, ev |-> i]
  OBVIOUS
<1>10. p.ctx = r /\ p.ev = i
  BY <1>9
<1>11. Registered(p, c, x)
  BY <1>6, <1>7, <1>8, <1>10 DEF Registered
<1>. QED BY <1>5, <1>9, <1>11

(* The record is taken back, and with it the group if it was opened for it. *)
LEMMA RefuseProp ==
  ASSUME NEW F, NEW W, NEW c, CtxOK(c, F, W), NEW f \in F, NEW x \in Record(F, W),
         NEW i, NEW q, NEW s, TakenOK(c, F, W, x, i, q, s), NEW k, ChainedOK(k, c, F, W, f, i, q, s),
         NEW b, Unchained(b, k, c, f), NEW back, back = O!Recycle(b, i)
  PROVE  \A r : r = (IF f \notin Elems(c.fdq) THEN O!DropEmptyGroups(back, {f}) ELSE back) =>
           CtxOK(r, F, W) /\ Refused([ctx |-> r, ev |-> NULL], c)
<1>1. /\ b \in Context(F, W) /\ Linked(b, {i}) /\ Watching(b, {}) /\ i \in 1..Len(b.rec)
      /\ b.fdq = k.fdq /\ b.grp = c.grp /\ b.ready = c.ready /\ b.spare = s /\ b.rec = q
  BY UnchainProp
<1>2. i \in 1..Len(b.rec)
  BY <1>1
<1>3. /\ back \in Context(F, W) /\ Linked(back, {}) /\ Watching(back, {})
      /\ back.fdq = b.fdq /\ back.grp = b.grp
      /\ Elems(back.spare) = Elems(b.spare) \union {i} /\ Len(back.rec) = Len(b.rec)
      /\ \A j \in 1..Len(b.rec) : j # i => back.rec[j] = b.rec[j]
  BY <1>1, <1>2, RecycleProp, SMTT(30)
<1>4. \A j : j \in Held(back) <=> j \in Held(c)
  BY <1>1, <1>3 DEF Held, TakenOK
<1>5. \A j \in Held(c) : back.rec[j] = c.rec[j]
  BY <1>1, <1>3 DEF Held, TakenOK
<1>6. \A g \in Elems(back.fdq) : g # f => back.grp[g] # <<>>
  BY <1>1, <1>3 DEF ChainedOK, CtxOK
<1>. SUFFICES ASSUME NEW r, r = (IF f \notin Elems(c.fdq) THEN O!DropEmptyGroups(back, {f}) ELSE back)
              PROVE  CtxOK(r, F, W) /\ Refused([ctx |-> r, ev |-> NULL], c)
  OBVIOUS
<1>7. CtxOK(r, F, W) /\ r.spare = back.spare /\ r.rec = back.rec
  <2>1. CASE f \notin Elems(c.fdq)
    <3>1. r = O!DropEmptyGroups(back, {f})
      BY <2>1
    <3>2. \A g \in Elems(back.fdq) : g \notin {f} => back.grp[g] # <<>>
      BY <1>6
    <3>. QED BY <1>3, <3>1, <3>2, DropProp
  <2>2. CASE f \in Elems(c.fdq)
    <3>1. r = back
      BY <2>2
    <3>2. c.grp[f] # <<>>
      BY <2>2 DEF CtxOK
    <3>. QED BY <1>1, <1>3, <1>6, <3>1, <3>2 DEF CtxOK
  <2>. QED BY <2>1, <2>2
<1>8. PICK p : p = [ctx |-> r, ev |-> NULL]
  OBVIOUS
<1>9. p.ctx = r /\ p.ev = NULL
  BY <1>8
<1>10. Refused(p, c)
  BY <1>4, <1>5, <1>7, <1>9 DEF Refused, Held
<1>. QED BY <1>7, <1>8, <1>10

(* aloe_ev_put, whatever fails in it.                                       *)
LEMMA PutProp ==
  ASSUME NEW F, NEW W, NEW c, CtxOK(c, F, W), NEW f \in F, NEW o \in W, NEW w \in SUBSET IoFlag,
         NEW d \in {"inf", "past"}, NEW fails
  PROVE  \A p : p = O!aloe_ev_put(c, f, o, w, d, fails) =>
           /\ CtxOK(p.ctx, F, W)
           /\ Refused(p, c) \/
              Registered(p, c, [fd |-> f, owner |-> o, wait |-> w, due |-> d, noti |-> {}])
<1>1. PICK x : x = [fd |-> f, owner |-> o, wait |-> w, due |-> d, noti |-> {}]
  OBVIOUS
<1>2. x \in Record(F, W) /\ IsFor(x, f)
  BY <1>1 DEF Record, IsFor
<1>3. PICK i, q, s : Taken(c, x, i, q, s)
  BY DEF Taken
<1>4. TakenOK(c, F, W, x, i, q, s)
  BY <1>2, <1>3, TakeProp
<1>5. PICK k : Chained(k, c, f, i, q, s)
  BY DEF Chained
<1>6. ChainedOK(k, c, F, W, f, i, q, s)
  BY <1>2, <1>4, <1>5, ChainFields
<1>7. PICK b : Unchained(b, k, c, f)
  BY DEF Unchained
<1>8. PICK back : back = O!Recycle(b, i)
  OBVIOUS
<1>9. c \in Context(F, W)
  BY DEF CtxOK
<1>10. Prepared(c, f, o, w, d, i, q, s, k, b)
  BY <1>1, <1>3, <1>5, <1>7 DEF Prepared
<1>11. \A r : r = O!fd_ep_refresh(k, {f}) => CtxOK(r, F, W) /\ Registered([ctx |-> r, ev |-> i], c, x)
  BY <1>2, <1>4, <1>6, AcceptProp
<1>12. \A r : r = (IF f \notin Elems(c.fdq) THEN O!DropEmptyGroups(back, {f}) ELSE back) =>
           CtxOK(r, F, W) /\ Refused([ctx |-> r, ev |-> NULL], c)
  BY <1>2, <1>4, <1>6, <1>7, <1>8, RefuseProp
<1>. SUFFICES ASSUME NEW p, p = O!aloe_ev_put(c, f, o, w, d, fails)
              PROVE  CtxOK(p.ctx, F, W) /\ (Refused(p, c) \/ Registered(p, c, x))
  BY <1>1
<1>13. \/ p = [ctx |-> c, ev |-> NULL]
       \/ p = [ctx |-> IF f \notin Elems(c.fdq) THEN O!DropEmptyGroups(back, {f}) ELSE back, ev |-> NULL]
       \/ p = [ctx |-> O!fd_ep_refresh(k, {f}), ev |-> i]
  <2>1. Ends(O!aloe_ev_put(c, f, o, w, d, fails), c, f, i, k, b)
    BY <1>9, <1>10, PutIs
  <2>2. Ends(p, c, f, i, k, b)
    BY <2>1
  <2>. QED BY <1>8, <2>2 DEF Ends
<1>14. CASE p = [ctx |-> c, ev |-> NULL]
  <2>1. p.ctx = c /\ p.ev = NULL
    BY <1>14
  <2>. QED BY <2>1 DEF Refused
<1>15. CASE p = [ctx |-> O!fd_ep_refresh(k, {f}), ev |-> i]
  <2>1. PICK r : r = O!fd_ep_refresh(k, {f})
    OBVIOUS
  <2>2. p = [ctx |-> r, ev |-> i] /\ p.ctx = r
    BY <1>15, <2>1
  <2>. QED BY <1>11, <2>1, <2>2
<1>16. CASE p = [ctx |-> IF f \notin Elems(c.fdq) THEN O!DropEmptyGroups(back, {f}) ELSE back, ev |-> NULL]
  <2>1. PICK r : r = IF f \notin Elems(c.fdq) THEN O!DropEmptyGroups(back, {f}) ELSE back
    OBVIOUS
  <2>2. p = [ctx |-> r, ev |-> NULL] /\ p.ctx = r
    BY <1>16, <2>1
  <2>. QED BY <1>12, <2>1, <2>2
<1>. QED BY <1>13, <1>14, <1>15, <1>16

-----------------------------------------------------------------------------
(* What the sweep tells is a set of flags.                                  *)
LEMMA NotifiedType ==
  ASSUME NEW F, NEW W, NEW x \in Record(F, W), NEW t, NEW h
  PROVE  O!Notified(x, t, h) \in SUBSET (IoFlag \union {"time"})
<1>1. x.wait \in SUBSET IoFlag
  BY DEF Record
<1>2. (t \intersect x.wait) \in SUBSET (IoFlag \union {"time"})
  BY <1>1
<1>3. {"except"} \in SUBSET (IoFlag \union {"time"}) /\ {"time"} \in SUBSET (IoFlag \union {"time"})
      /\ {} \in SUBSET (IoFlag \union {"time"})
  BY DEF IoFlag
<1>. QED BY <1>2, <1>3 DEF O!Notified

(* The context in the middle of the sweep: the records of told have moved   *)
(* to the ready list, each record may have been told something.             *)
SweptTo(b, c, told) ==
  /\ b.fdq = c.fdq /\ b.epw = c.epw /\ b.kern = c.kern /\ b.spare = c.spare
  /\ b.grp = [f \in DOMAIN c.grp |-> O!Kept(c.grp[f], DOMAIN c.rec \ told)]
  /\ b.ready = O!MovedOut(c, told) /\ Len(b.rec) = Len(c.rec)
  /\ \A j \in 1..Len(c.rec) : /\ b.rec[j].fd = c.rec[j].fd /\ b.rec[j].owner = c.rec[j].owner
                              /\ b.rec[j].wait = c.rec[j].wait /\ b.rec[j].due = c.rec[j].due

(* Nothing is lost and nothing else changes hands.                          *)
LEMMA MoveProp ==
  ASSUME NEW F, NEW W, NEW c, CtxOK(c, F, W), NEW told, NEW b, SweptTo(b, c, told),
         b.rec \in Seq(Record(F, W)), b = [fdq |-> b.fdq, grp |-> b.grp, epw |-> b.epw, kern |-> b.kern,
           ready |-> b.ready, spare |-> b.spare, rec |-> b.rec]
  PROVE  b \in Context(F, W) /\ Linked(b, {}) /\ Watching(b, Elems(b.fdq))
<1>0. /\ c \in Context(F, W) /\ DOMAIN c.grp = F /\ c.fdq \in Seq(F) /\ c.ready \in Seq(Nat)
      /\ c.grp \in [F -> Seq(Nat)] /\ Elems(c.fdq) \subseteq F /\ c.rec \in Seq(Record(F, W))
  <2>1. /\ c \in Context(F, W) /\ DOMAIN c.grp = F /\ c.fdq \in Seq(F) /\ c.ready \in Seq(Nat)
        /\ c.grp \in [F -> Seq(Nat)] /\ c.rec \in Seq(Record(F, W))
    BY DEF CtxOK, Context
  <2>. QED BY <2>1, ElemsType
<1>1. DOMAIN c.rec = 1..Len(c.rec)
  BY <1>0
<1>2. ASSUME NEW f \in F
      PROVE  /\ b.grp[f] \in Seq(Nat) /\ NoDup(b.grp[f])
             /\ \A j : j \in Elems(b.grp[f]) <=> j \in Elems(c.grp[f]) /\ j \notin told
  <2>1. PICK s, t : s = c.grp[f] /\ t = O!Kept(s, DOMAIN c.rec \ told)
    OBVIOUS
  <2>2. s \in Seq(Nat) /\ NoDup(s) /\ \A j \in Elems(s) : j \in 1..Len(c.rec)
    BY <1>0, <2>1 DEF CtxOK, Linked
  <2>3. /\ t \in Seq(Nat) /\ NoDup(t)
        /\ \A j : j \in Elems(t) <=> j \in Elems(s) /\ j \in DOMAIN c.rec \ told
    BY <2>1, <2>2, KeptProp
  <2>4. b.grp[f] = t
    BY <1>0, <2>1 DEF SweptTo
  <2>. QED BY <1>1, <2>1, <2>2, <2>3, <2>4
<1>3. b.grp \in [F -> Seq(Nat)] /\ DOMAIN b.grp = F
  BY <1>0, <1>2 DEF SweptTo
<1>4. /\ NoDup(c.fdq) /\ NoDup(c.ready) /\ NoDup(c.spare)
      /\ \A f \in F : /\ NoDup(c.grp[f]) /\ (c.grp[f] # <<>> => f \in Elems(c.fdq))
                      /\ \A j \in Elems(c.grp[f]) : j \in 1..Len(c.rec) /\ c.rec[j].fd = f /\ Waits(c, j)
                                                    /\ j \notin Elems(c.ready) /\ j \notin Elems(c.spare)
  BY <1>0 DEF CtxOK, Linked, Waits
<1>5. /\ b.ready \in Seq(Nat) /\ NoDup(b.ready)
      /\ \A j : j \in Elems(b.ready) <=>
           j \in Elems(c.ready) \/ (j \in told /\ \E f \in Elems(c.fdq) : j \in Elems(c.grp[f]))
  <2>1. \A f, k \in F : \A j \in Elems(c.grp[f]) : j \in Elems(c.grp[k]) => f = k
    <3>. SUFFICES ASSUME NEW f \in F, NEW k \in F, NEW j \in Elems(c.grp[f]), j \in Elems(c.grp[k])
                  PROVE  f = k
      OBVIOUS
    <3>1. c.rec[j].fd = f
      BY <1>4
    <3>2. c.rec[j].fd = k
      BY <1>4
    <3>. QED BY <3>1, <3>2
  <2>2. \A f \in F : \A j \in Elems(c.grp[f]) : j \notin Elems(c.ready)
    BY <1>4
  <2>3. /\ c.fdq \in Seq(F) /\ c.grp \in [F -> Seq(Nat)] /\ c.ready \in Seq(Nat)
        /\ NoDup(c.fdq) /\ NoDup(c.ready)
    BY <1>0, <1>4
  <2>4. \A f \in F : NoDup(c.grp[f])
    BY <1>4
  <2>5. /\ O!MovedOut(c, told) \in Seq(Nat) /\ NoDup(O!MovedOut(c, told))
        /\ \A x : x \in Elems(O!MovedOut(c, told)) <=>
             \/ x \in Elems(c.ready)
             \/ x \in told /\ \E f \in Elems(c.fdq) : x \in Elems(c.grp[f])
    BY <2>1, <2>2, <2>3, <2>4, MovedProp
  <2>6. b.ready = O!MovedOut(c, told)
    BY DEF SweptTo
  <2>. QED BY <2>5, <2>6
<1>6. \A j \in 1..Len(c.rec) : c.rec[j].fd \in F
  <2>1. \A j \in 1..Len(c.rec) : c.rec[j] \in Record(F, W)
    BY <1>0, ElementOfSeq
  <2>. QED BY <2>1 DEF Record
<1>7. \A f \in F : \A j : j \in Elems(c.grp[f]) => f \in Elems(c.fdq)
  <2>1. Elems(<<>>) = {}
    BY DEF Elems
  <2>. QED BY <1>4, <2>1
<1>8. ASSUME NEW j \in 1..Len(c.rec)
      PROVE  /\ Waits(b, j) <=> Waits(c, j) /\ j \notin told
             /\ j \in Elems(b.ready) <=> j \in Elems(c.ready) \/ (j \in told /\ Waits(c, j))
  <2>1. PICK f \in F : f = c.rec[j].fd
    BY <1>6
  <2>2. b.rec[j].fd = f
    BY <2>1 DEF SweptTo
  <2>3. Waits(c, j) <=> j \in Elems(c.grp[f])
    BY <2>1 DEF Waits
  <2>4. Waits(b, j) <=> j \in Elems(b.grp[f])
    BY <2>2 DEF Waits
  <2>5. Waits(c, j) <=> \E k \in Elems(c.fdq) : j \in Elems(c.grp[k])
    BY <1>0, <1>4, <1>7, <2>3
  <2>. QED BY <1>2, <1>5, <2>3, <2>4, <2>5
<1>9. b \in Context(F, W)
  <2>1. /\ b.fdq \in Seq(F) /\ b.epw \in [F -> SUBSET IoFlag] /\ b.kern \in [F -> SUBSET IoFlag]
        /\ b.spare \in Seq(Nat)
    BY <1>0 DEF SweptTo, Context
  <2>. QED BY <1>3, <1>5, <2>1 DEF Context
<1>10. Linked(b, {})
  <2>1. ASSUME NEW g \in F
        PROVE  /\ NoDup(b.grp[g]) /\ (b.grp[g] # <<>> => g \in Elems(b.fdq))
               /\ \A j \in Elems(b.grp[g]) : j \in 1..Len(b.rec) /\ b.rec[j].fd = g
    <3>1. b.grp[g] # <<>> => \E j : j \in Elems(b.grp[g])
      BY <1>2, ElemsType
    <3>2. b.grp[g] # <<>> => g \in Elems(b.fdq)
      BY <1>2, <1>7, <3>1 DEF SweptTo
    <3>3. \A j \in Elems(b.grp[g]) : j \in 1..Len(b.rec) /\ b.rec[j].fd = g
      BY <1>2, <1>4 DEF SweptTo
    <3>. QED BY <1>2, <3>2, <3>3
  <2>2. /\ NoDup(b.fdq) /\ NoDup(b.ready) /\ NoDup(b.spare)
    BY <1>4, <1>5 DEF SweptTo
  <2>3. \A j : j \in Elems(b.ready) \/ j \in Elems(b.spare) => j \in 1..Len(b.rec)
    BY <1>0, <1>4, <1>5 DEF SweptTo, CtxOK, Linked
  <2>4. ASSUME NEW j \in 1..Len(b.rec)
        PROVE  /\ Waits(b, j) \/ j \in Elems(b.ready) \/ j \in Elems(b.spare)
               /\ ~(j \in Elems(b.ready) /\ j \in Elems(b.spare))
               /\ Waits(b, j) => j \notin Elems(b.ready) /\ j \notin Elems(b.spare)
    <3>1. j \in 1..Len(c.rec) /\ b.spare = c.spare
      BY DEF SweptTo
    <3>2. /\ Waits(c, j) \/ j \in Elems(c.ready) \/ j \in Elems(c.spare)
          /\ ~(j \in Elems(c.ready) /\ j \in Elems(c.spare))
          /\ Waits(c, j) => j \notin Elems(c.ready) /\ j \notin Elems(c.spare)
      BY <3>1 DEF CtxOK, Linked
    <3>. QED BY <1>8, <3>1, <3>2
  <2>. QED BY <1>3, <2>1, <2>2, <2>3, <2>4 DEF Linked
<1>11. Watching(b, Elems(b.fdq))
  <2>1. ASSUME NEW f \in F \ {NoFd}, f \in Elems(b.fdq) PROVE b.epw[f] = b.kern[f]
    BY <1>0, <2>1 DEF CtxOK, Watching, SweptTo
  <2>2. ASSUME NEW f \in F \ {NoFd}, f \notin Elems(b.fdq) PROVE b.kern[f] = O!Mask(b, f)
    <3>1. c.kern[f] = O!Mask(c, f) /\ b.kern[f] = c.kern[f]
      BY <1>0, <2>2 DEF CtxOK, Watching, SweptTo
    <3>2. f \notin Elems(c.fdq)
      BY <2>2 DEF SweptTo
    <3>3. Elems(c.grp[f]) = {} /\ Elems(b.grp[f]) = {}
      BY <1>2, <1>7, <3>2
    <3>4. O!Elems(c.grp[f]) = {} /\ O!Elems(b.grp[f]) = {}
      BY <3>3, SameElems
    <3>5. O!Mask(c, f) = {} /\ O!Mask(b, f) = {}
      BY <3>4 DEF O!Mask
    <3>. QED BY <3>1, <3>5
  <2>. QED BY <1>3, <2>1, <2>2 DEF Watching
<1>. QED BY <1>9, <1>10, <1>11

(* The sweep keeps what is registered.                                      *)
Swept(r, c) ==
  /\ \A j : j \in Held(r) <=> j \in Held(c)
  /\ \A j \in Held(c) : /\ r.rec[j].fd = c.rec[j].fd /\ r.rec[j].owner = c.rec[j].owner
                        /\ r.rec[j].wait = c.rec[j].wait

LEMMA SweepProp ==
  ASSUME NEW F, NEW W, NEW c, CtxOK(c, F, W), NEW trig, NEW hup
  PROVE  \A r : r = O!Sweep(c, trig, hup) => CtxOK(r, F, W) /\ Swept(r, c)
<1>0. c \in Context(F, W) /\ DOMAIN c.rec = 1..Len(c.rec) /\ Len(c.rec) \in Nat /\ c.rec \in Seq(Record(F, W))
  BY DEF CtxOK, Context
<1>. DEFINE tells == [i \in DOMAIN c.rec |->
                       O!Notified(c.rec[i], trig[c.rec[i].fd], c.rec[i].fd \in hup)]
            tolds == {i \in DOMAIN c.rec : tells[i] # {}}
            recs == [i \in DOMAIN c.rec |->
                      IF i \in O!Elems(c.grp[c.rec[i].fd]) THEN [c.rec[i] EXCEPT !.noti = tells[i]]
                      ELSE c.rec[i]]
            grps == [f \in DOMAIN c.grp |-> O!Kept(c.grp[f], DOMAIN c.rec \ tolds)]
            swept == [c EXCEPT !.rec = recs, !.grp = grps, !.ready = O!MovedOut(c, tolds)]
<1>1. PICK r : r = O!Sweep(c, trig, hup)
  OBVIOUS
<1>2. r = O!DropEmptyGroups(O!fd_ep_refresh(swept, O!Elems(c.fdq)), O!Elems(c.fdq))
  BY <1>1 DEF O!Sweep
<1>3. \A j \in 1..Len(c.rec) : c.rec[j] \in Record(F, W)
  BY <1>0, ElementOfSeq
<1>4. ASSUME NEW j \in 1..Len(c.rec)
      PROVE  /\ recs[j] \in Record(F, W)
             /\ recs[j].fd = c.rec[j].fd /\ recs[j].owner = c.rec[j].owner
             /\ recs[j].wait = c.rec[j].wait /\ recs[j].due = c.rec[j].due
  <2>1. PICK x, t : x = c.rec[j] /\ t = tells[j]
    OBVIOUS
  <2>2. x \in Record(F, W)
    BY <1>3, <2>1
  <2>3. t \in SUBSET (IoFlag \union {"time"})
    BY <1>0, <2>1, <2>2, NotifiedType
  <2>. HIDE DEF tells
  <2>4. recs[j] = [x EXCEPT !.noti = t] \/ recs[j] = x
    BY <1>0, <2>1
  <2>5. [x EXCEPT !.noti = t] \in Record(F, W)
    BY <2>2, <2>3 DEF Record
  <2>6. /\ [x EXCEPT !.noti = t].fd = x.fd /\ [x EXCEPT !.noti = t].owner = x.owner
        /\ [x EXCEPT !.noti = t].wait = x.wait /\ [x EXCEPT !.noti = t].due = x.due
    BY <2>2 DEF Record
  <2>. QED BY <2>1, <2>2, <2>4, <2>5, <2>6
<1>5. PICK T : T = tolds
  OBVIOUS
<1>6. PICK q, g, m : q = recs /\ g = grps /\ m = O!MovedOut(c, T)
  OBVIOUS
<1>7. PICK b : b = [c EXCEPT !.rec = q, !.grp = g, !.ready = m]
  OBVIOUS
<1>8. b = swept
  BY <1>5, <1>6, <1>7
<1>9. q \in Seq(Record(F, W)) /\ Len(q) = Len(c.rec)
  <2>1. DOMAIN q = 1..Len(c.rec) /\ q = [j \in 1..Len(c.rec) |-> q[j]]
    BY <1>0, <1>6
  <2>2. \A j \in 1..Len(c.rec) : q[j] \in Record(F, W)
    BY <1>4, <1>6
  <2>3. PICK n \in Nat : n = Len(c.rec)
    BY <1>0
  <2>4. q \in [1..n -> Record(F, W)]
    BY <2>1, <2>2, <2>3
  <2>. QED BY <2>3, <2>4
<1>. HIDE DEF recs, grps, tells, tolds, swept
<1>10. /\ b.rec = q /\ b.grp = g /\ b.ready = m /\ b.fdq = c.fdq /\ b.epw = c.epw /\ b.kern = c.kern
       /\ b.spare = c.spare
       /\ b = [fdq |-> b.fdq, grp |-> b.grp, epw |-> b.epw, kern |-> b.kern, ready |-> b.ready,
               spare |-> b.spare, rec |-> b.rec]
  BY <1>0, <1>7 DEF Context
<1>11. SweptTo(b, c, T)
  <2>1. g = [f \in DOMAIN c.grp |-> O!Kept(c.grp[f], DOMAIN c.rec \ T)]
    BY <1>5, <1>6 DEF grps
  <2>. QED BY <1>4, <1>6, <1>9, <1>10, <2>1 DEF SweptTo
<1>12. b \in Context(F, W) /\ Linked(b, {}) /\ Watching(b, Elems(b.fdq))
  BY <1>9, <1>10, <1>11, MoveProp
<1>13. PICK k : k = O!fd_ep_refresh(b, Elems(b.fdq))
  OBVIOUS
<1>14. /\ k \in Context(F, W) /\ Watching(k, {})
       /\ k.fdq = b.fdq /\ k.grp = b.grp /\ k.ready = b.ready /\ k.spare = b.spare /\ k.rec = b.rec
  BY <1>12, <1>13, RefreshProp
<1>15. Linked(k, {})
  BY <1>12, <1>14, SameLinks
<1>16. r = O!DropEmptyGroups(k, Elems(b.fdq))
  <2>1. O!Elems(c.fdq) = Elems(b.fdq)
    BY <1>10, SameElems
  <2>. QED BY <1>2, <1>8, <1>13, <2>1
<1>17. \A f \in Elems(k.fdq) : f \notin Elems(b.fdq) => k.grp[f] # <<>>
  BY <1>14
<1>18. CtxOK(r, F, W) /\ r.spare = k.spare /\ r.rec = k.rec
  BY <1>14, <1>15, <1>16, <1>17, DropProp
<1>19. Swept(r, c)
  <2>1. r.spare = c.spare /\ r.rec = q
    BY <1>10, <1>14, <1>18
  <2>2. \A j : j \in Held(r) <=> j \in Held(c)
    BY <1>9, <2>1 DEF Held
  <2>3. \A j \in Held(c) : j \in 1..Len(c.rec)
    BY DEF Held
  <2>. QED BY <1>4, <1>6, <2>1, <2>2, <2>3 DEF Swept
<1>. QED BY <1>1, <1>18, <1>19

(* Closing a descriptor nothing is registered on changes nothing: the       *)
(* kernel does not watch it any more.                                       *)
LEMMA CloseProp ==
  ASSUME NEW F, NEW W, NEW c, CtxOK(c, F, W), NEW f \in F \ {NoFd}, \A j \in Held(c) : c.rec[j].fd # f
  PROVE  O!CloseFd(c, f) = c
<1>1. c \in Context(F, W) /\ DOMAIN c.grp = F /\ c.kern \in [F -> SUBSET IoFlag]
  BY DEF CtxOK, Context
<1>2. Elems(c.grp[f]) = {}
  <2>1. \A j \in Elems(c.grp[f]) : j \in 1..Len(c.rec) /\ c.rec[j].fd = f /\ j \notin Elems(c.spare)
    BY <1>1 DEF CtxOK, Linked, Waits
  <2>. QED BY <2>1 DEF Held
<1>3. O!Elems(c.grp[f]) = {}
  BY <1>2, SameElems
<1>4. O!Mask(c, f) = {}
  BY <1>3 DEF O!Mask
<1>5. c.kern[f] = {}
  BY <1>1, <1>4 DEF CtxOK, Watching
<1>6. [c.kern EXCEPT ![f] = {}] = c.kern
  BY <1>1, <1>5
<1>7. PICK k : k = [c.kern EXCEPT ![f] = {}]
  OBVIOUS
<1>8. O!CloseFd(c, f) = [c EXCEPT !.kern = k]
  BY <1>7 DEF O!CloseFd
<1>. QED BY <1>1, <1>6, <1>7, <1>8 DEF Context

(* The loop starts with nothing registered.                                 *)
LEMMA InitProp ==
  ASSUME NEW F, NEW W
  PROVE  \A c : c = O!aloe_ev_init(F) => CtxOK(c, F, W) /\ Held(c) = {} /\ c.rec = <<>>
<1>. SUFFICES ASSUME NEW c, c = O!aloe_ev_init(F)
              PROVE  CtxOK(c, F, W) /\ Held(c) = {} /\ c.rec = <<>>
  OBVIOUS
<1>0. /\ <<>> \in Seq(F) /\ <<>> \in Seq(Nat) /\ <<>> \in Seq(Record(F, W)) /\ Len(<<>>) = 0
  OBVIOUS
<1>1. Elems(<<>>) = {} /\ NoDup(<<>>)
  BY <1>0 DEF Elems, NoDup
<1>2. /\ c.fdq = <<>> /\ c.grp = [f \in F |-> <<>>] /\ c.epw = [f \in F |-> {}]
      /\ c.kern = [f \in F |-> {}] /\ c.ready = <<>> /\ c.spare = <<>> /\ c.rec = <<>>
      /\ c \in Context(F, W)
  BY <1>0 DEF O!aloe_ev_init, Context
<1>3. \A j : j \notin 1..Len(c.rec)
  BY <1>0, <1>2
<1>4. DOMAIN c.grp = F /\ \A f \in F : c.grp[f] = <<>> /\ c.kern[f] = {}
  BY <1>2
<1>5. Linked(c, {})
  BY <1>1, <1>2, <1>3, <1>4 DEF Linked
<1>6. \A f \in F : O!Mask(c, f) = {}
  <2>1. \A f \in F : O!Elems(c.grp[f]) = {}
    BY <1>1, <1>4, SameElems
  <2>. QED BY <2>1 DEF O!Mask
<1>7. Watching(c, {})
  BY <1>1, <1>2, <1>4, <1>6 DEF Watching
<1>. QED BY <1>1, <1>2, <1>3, <1>5, <1>7 DEF CtxOK, Held

-----------------------------------------------------------------------------
(* Ev and Dummy1 use these operations.                                       *)
LEMMA E_Elems == ASSUME NEW s PROVE E!Elems(s) = O!Elems(s)
BY DEF E!Elems, O!Elems

LEMMA E_Remove == ASSUME NEW s, NEW e PROVE E!qent_remove(s, e) = O!qent_remove(s, e)
BY DEF E!qent_remove, O!qent_remove, E!qent_contains, O!qent_contains, E!FirstAt, O!FirstAt

LEMMA E_Kept == ASSUME NEW s, NEW T PROVE E!Kept(s, T) = O!Kept(s, T)
BY DEF E!Kept, O!Kept

LEMMA E_Mask == ASSUME NEW c, NEW f PROVE E!Mask(c, f) = O!Mask(c, f)
BY E_Elems DEF E!Mask, O!Mask

LEMMA E_Recycle == ASSUME NEW c, NEW i PROVE E!Recycle(c, i) = O!Recycle(c, i)
BY DEF E!Recycle, O!Recycle

LEMMA E_Refresh == ASSUME NEW c, NEW fs PROVE E!fd_ep_refresh(c, fs) = O!fd_ep_refresh(c, fs)
BY Zenon DEF E!fd_ep_refresh, E!Mask, E!Elems,
      O!fd_ep_refresh, O!Mask, O!Elems

LEMMA E_Drop == ASSUME NEW c, NEW fs PROVE E!DropEmptyGroups(c, fs) = O!DropEmptyGroups(c, fs)
BY E_Kept DEF E!DropEmptyGroups, O!DropEmptyGroups

LEMMA E_Init == ASSUME NEW fs PROVE E!aloe_ev_init(fs) = O!aloe_ev_init(fs)
BY DEF E!aloe_ev_init, O!aloe_ev_init

LEMMA E_Moved == ASSUME NEW c, NEW T PROVE E!MovedOut(c, T) = O!MovedOut(c, T)
BY E_Kept DEF E!MovedOut, O!MovedOut

LEMMA E_Notified == ASSUME NEW x, NEW t, NEW h PROVE E!Notified(x, t, h) = O!Notified(x, t, h)
BY DEF E!Notified, O!Notified

LEMMA E_Put ==
  ASSUME NEW c, NEW f, NEW o, NEW w, NEW d, NEW x
  PROVE  E!aloe_ev_put(c, f, o, w, d, x) = O!aloe_ev_put(c, f, o, w, d, x)
<1>. DEFINE new == c.spare = <<>>
            h == IF new THEN Len(c.rec) + 1 ELSE Head(c.spare)
            fresh == [fd |-> f, owner |-> o, wait |-> w, due |-> d, noti |-> {}]
            Filled(u) == [c EXCEPT !.spare = IF new THEN @ ELSE Tail(@),
                              !.rec = IF new THEN Append(@, fresh) ELSE [@ EXCEPT ![h] = fresh],
                              !.fdq = IF f \notin u THEN Append(@, f) ELSE @,
                              !.epw[f] = IF f \notin u THEN {} ELSE @,
                              !.grp[f] = Append(@, h)]
            Undone(u) == [Filled(u) EXCEPT !.grp[f] = c.grp[f]]
            Result(u, mask, back, dropped, done) ==
              CASE x = "malloc" /\ (new \/ f \notin u) -> [ctx |-> c, ev |-> NULL]
                [] f # NoFd /\ x = "epoll" /\ mask \notin {{}, Filled(u).epw[f]} ->
                     [ctx |-> IF f \notin u THEN dropped ELSE back, ev |-> NULL]
                [] OTHER -> [ctx |-> done, ev |-> h]
<1>1. E!aloe_ev_put(c, f, o, w, d, x) =
        Result(E!Elems(c.fdq), E!Mask(Filled(E!Elems(c.fdq)), f), E!Recycle(Undone(E!Elems(c.fdq)), h),
                E!DropEmptyGroups(E!Recycle(Undone(E!Elems(c.fdq)), h), {f}),
                E!fd_ep_refresh(Filled(E!Elems(c.fdq)), {f}))
  BY Zenon DEF E!aloe_ev_put
<1>2. O!aloe_ev_put(c, f, o, w, d, x) =
        Result(O!Elems(c.fdq), O!Mask(Filled(O!Elems(c.fdq)), f), O!Recycle(Undone(O!Elems(c.fdq)), h),
                O!DropEmptyGroups(O!Recycle(Undone(O!Elems(c.fdq)), h), {f}),
                O!fd_ep_refresh(Filled(O!Elems(c.fdq)), {f}))
  BY Zenon DEF O!aloe_ev_put
<1>3. E!Elems(c.fdq) = O!Elems(c.fdq)
  BY E_Elems
<1>. HIDE DEF Filled, Undone, Result, h
<1>4. PICK k, b : k = Filled(O!Elems(c.fdq)) /\ b = Undone(O!Elems(c.fdq))
  OBVIOUS
<1>5. /\ E!Mask(k, f) = O!Mask(k, f) /\ E!Recycle(b, h) = O!Recycle(b, h)
      /\ E!fd_ep_refresh(k, {f}) = O!fd_ep_refresh(k, {f})
  BY E_Mask, E_Recycle, E_Refresh
<1>6. E!DropEmptyGroups(E!Recycle(b, h), {f}) = O!DropEmptyGroups(O!Recycle(b, h), {f})
  BY <1>5, E_Drop
<1>. QED BY <1>1, <1>2, <1>3, <1>4, <1>5, <1>6

LEMMA E_Cancel == ASSUME NEW c, NEW i PROVE E!aloe_ev_cancel(c, i) = O!aloe_ev_cancel(c, i)
BY E_Elems, E_Remove, E_Recycle, E_Drop, E_Refresh DEF E!aloe_ev_cancel, O!aloe_ev_cancel

LEMMA E_Sweep == ASSUME NEW c, NEW t, NEW h PROVE E!Sweep(c, t, h) = O!Sweep(c, t, h)
BY E_Elems, E_Notified, E_Kept, E_Moved, E_Refresh, E_Drop DEF E!Sweep, O!Sweep

LEMMA E_Pop == ASSUME NEW c PROVE E!PopReady(c) = O!PopReady(c)
BY E_Recycle DEF E!PopReady, O!PopReady

-----------------------------------------------------------------------------
(* The same for Dummy1.                                                      *)
LEMMA D_Elems == ASSUME NEW s PROVE D!Elems(s) = O!Elems(s)
BY DEF D!Elems, O!Elems

LEMMA D_Remove == ASSUME NEW s, NEW e PROVE D!qent_remove(s, e) = O!qent_remove(s, e)
BY DEF D!qent_remove, O!qent_remove, D!qent_contains, O!qent_contains, D!FirstAt, O!FirstAt

LEMMA D_Kept == ASSUME NEW s, NEW T PROVE D!Kept(s, T) = O!Kept(s, T)
BY DEF D!Kept, O!Kept

LEMMA D_Mask == ASSUME NEW c, NEW f PROVE D!Mask(c, f) = O!Mask(c, f)
BY D_Elems DEF D!Mask, O!Mask

LEMMA D_Recycle == ASSUME NEW c, NEW i PROVE D!Recycle(c, i) = O!Recycle(c, i)
BY DEF D!Recycle, O!Recycle

LEMMA D_Refresh == ASSUME NEW c, NEW fs PROVE D!fd_ep_refresh(c, fs) = O!fd_ep_refresh(c, fs)
BY Zenon DEF D!fd_ep_refresh, D!Mask, D!Elems,
      O!fd_ep_refresh, O!Mask, O!Elems

LEMMA D_Drop == ASSUME NEW c, NEW fs PROVE D!DropEmptyGroups(c, fs) = O!DropEmptyGroups(c, fs)
BY D_Kept DEF D!DropEmptyGroups, O!DropEmptyGroups

LEMMA D_Init == ASSUME NEW fs PROVE D!aloe_ev_init(fs) = O!aloe_ev_init(fs)
BY DEF D!aloe_ev_init, O!aloe_ev_init

LEMMA D_Moved == ASSUME NEW c, NEW T PROVE D!MovedOut(c, T) = O!MovedOut(c, T)
BY D_Kept DEF D!MovedOut, O!MovedOut

LEMMA D_Notified == ASSUME NEW x, NEW t, NEW h PROVE D!Notified(x, t, h) = O!Notified(x, t, h)
BY DEF D!Notified, O!Notified

LEMMA D_Put ==
  ASSUME NEW c, NEW f, NEW o, NEW w, NEW d, NEW x
  PROVE  D!aloe_ev_put(c, f, o, w, d, x) = O!aloe_ev_put(c, f, o, w, d, x)
<1>. DEFINE new == c.spare = <<>>
            h == IF new THEN Len(c.rec) + 1 ELSE Head(c.spare)
            fresh == [fd |-> f, owner |-> o, wait |-> w, due |-> d, noti |-> {}]
            Filled(u) == [c EXCEPT !.spare = IF new THEN @ ELSE Tail(@),
                              !.rec = IF new THEN Append(@, fresh) ELSE [@ EXCEPT ![h] = fresh],
                              !.fdq = IF f \notin u THEN Append(@, f) ELSE @,
                              !.epw[f] = IF f \notin u THEN {} ELSE @,
                              !.grp[f] = Append(@, h)]
            Undone(u) == [Filled(u) EXCEPT !.grp[f] = c.grp[f]]
            Result(u, mask, back, dropped, done) ==
              CASE x = "malloc" /\ (new \/ f \notin u) -> [ctx |-> c, ev |-> NULL]
                [] f # NoFd /\ x = "epoll" /\ mask \notin {{}, Filled(u).epw[f]} ->
                     [ctx |-> IF f \notin u THEN dropped ELSE back, ev |-> NULL]
                [] OTHER -> [ctx |-> done, ev |-> h]
<1>1. D!aloe_ev_put(c, f, o, w, d, x) =
        Result(D!Elems(c.fdq), D!Mask(Filled(D!Elems(c.fdq)), f), D!Recycle(Undone(D!Elems(c.fdq)), h),
                D!DropEmptyGroups(D!Recycle(Undone(D!Elems(c.fdq)), h), {f}),
                D!fd_ep_refresh(Filled(D!Elems(c.fdq)), {f}))
  BY Zenon DEF D!aloe_ev_put
<1>2. O!aloe_ev_put(c, f, o, w, d, x) =
        Result(O!Elems(c.fdq), O!Mask(Filled(O!Elems(c.fdq)), f), O!Recycle(Undone(O!Elems(c.fdq)), h),
                O!DropEmptyGroups(O!Recycle(Undone(O!Elems(c.fdq)), h), {f}),
                O!fd_ep_refresh(Filled(O!Elems(c.fdq)), {f}))
  BY Zenon DEF O!aloe_ev_put
<1>3. D!Elems(c.fdq) = O!Elems(c.fdq)
  BY D_Elems
<1>. HIDE DEF Filled, Undone, Result, h
<1>4. PICK k, b : k = Filled(O!Elems(c.fdq)) /\ b = Undone(O!Elems(c.fdq))
  OBVIOUS
<1>5. /\ D!Mask(k, f) = O!Mask(k, f) /\ D!Recycle(b, h) = O!Recycle(b, h)
      /\ D!fd_ep_refresh(k, {f}) = O!fd_ep_refresh(k, {f})
  BY D_Mask, D_Recycle, D_Refresh
<1>6. D!DropEmptyGroups(D!Recycle(b, h), {f}) = O!DropEmptyGroups(O!Recycle(b, h), {f})
  BY <1>5, D_Drop
<1>. QED BY <1>1, <1>2, <1>3, <1>4, <1>5, <1>6

LEMMA D_Sweep == ASSUME NEW c, NEW t, NEW h PROVE D!Sweep(c, t, h) = O!Sweep(c, t, h)
BY D_Elems, D_Notified, D_Kept, D_Moved, D_Refresh, D_Drop DEF D!Sweep, O!Sweep

LEMMA D_Pop == ASSUME NEW c PROVE D!PopReady(c) = O!PopReady(c)
BY D_Recycle DEF D!PopReady, O!PopReady

LEMMA D_Close == ASSUME NEW c, NEW f PROVE D!CloseFd(c, f) = O!CloseFd(c, f)
BY DEF D!CloseFd, O!CloseFd

-----------------------------------------------------------------------------
(* The loop with any clients.  NULL is no record and NoFd no descriptor.    *)
EvNames == NULL \notin Nat /\ NoFd \notin EvFd

EvFds == EvFd \union {NoFd}

(* A client's handle is its registration, and the other way round.          *)
Owned(c, h) ==
  /\ h \in [EvOwner -> Nat \union {NULL}]
  /\ \A o \in EvOwner : h[o] # NULL => h[o] \in Held(c) /\ c.rec[h[o]].owner = o
  /\ \A i \in Held(c) : c.rec[i].owner \in EvOwner /\ h[c.rec[i].owner] = i

EvInv == CtxOK(ev_ctx, EvFds, EvOwner) /\ Owned(ev_ctx, ev_handle)

LEMMA OwnedPut ==
  ASSUME EvNames, NEW c, NEW h, Owned(c, h), NEW o \in EvOwner, h[o] = NULL, NEW p, NEW x, x.owner = o,
         Refused(p, c) \/ Registered(p, c, x), NEW g, g = [h EXCEPT ![o] = p.ev]
  PROVE  Owned(p.ctx, g)
<1>1. p.ev \in Nat \union {NULL}
  BY DEF Refused, Registered
<1>2. g \in [EvOwner -> Nat \union {NULL}] /\ \A a \in EvOwner : g[a] = IF a = o THEN p.ev ELSE h[a]
  BY <1>1 DEF Owned
<1>3. \A i \in Held(c) : i # NULL /\ c.rec[i].owner # o
  <2>1. \A i \in Held(c) : c.rec[i].owner \in EvOwner /\ h[c.rec[i].owner] = i
    BY DEF Owned
  <2>2. \A i \in Held(c) : i \in Nat
    BY DEF Held
  <2>. QED BY <2>1, <2>2 DEF EvNames
<1>4. CASE Refused(p, c)
  <2>1. ASSUME NEW a \in EvOwner, g[a] # NULL PROVE g[a] \in Held(p.ctx) /\ p.ctx.rec[g[a]].owner = a
    BY <1>2, <1>4, <2>1 DEF Refused, Owned
  <2>2. ASSUME NEW i \in Held(p.ctx) PROVE p.ctx.rec[i].owner \in EvOwner /\ g[p.ctx.rec[i].owner] = i
    BY <1>2, <1>3, <1>4 DEF Refused, Owned
  <2>. QED BY <1>2, <2>1, <2>2 DEF Owned
<1>5. CASE Registered(p, c, x)
  <2>1. ASSUME NEW a \in EvOwner, g[a] # NULL PROVE g[a] \in Held(p.ctx) /\ p.ctx.rec[g[a]].owner = a
    BY <1>2, <1>5, <2>1 DEF Registered, Owned
  <2>2. ASSUME NEW i \in Held(p.ctx) PROVE p.ctx.rec[i].owner \in EvOwner /\ g[p.ctx.rec[i].owner] = i
    BY <1>2, <1>3, <1>5 DEF Registered, Owned
  <2>. QED BY <1>2, <2>1, <2>2 DEF Owned
<1>. QED BY <1>4, <1>5

LEMMA OwnedFree ==
  ASSUME EvNames, NEW c, NEW h, Owned(c, h), NEW o \in EvOwner, NEW i \in Held(c), c.rec[i].owner = o,
         NEW r, Released(r, c, i), NEW g, g = [h EXCEPT ![o] = NULL]
  PROVE  Owned(r, g)
<1>1. g \in [EvOwner -> Nat \union {NULL}] /\ \A a \in EvOwner : g[a] = IF a = o THEN NULL ELSE h[a]
  BY DEF Owned
<1>2. h[o] = i
  BY DEF Owned
<1>3. ASSUME NEW a \in EvOwner, g[a] # NULL PROVE g[a] \in Held(r) /\ r.rec[g[a]].owner = a
  <2>1. a # o /\ g[a] = h[a]
    BY <1>1, <1>3
  <2>2. h[a] \in Held(c) /\ c.rec[h[a]].owner = a
    BY <1>3, <2>1 DEF Owned
  <2>3. h[a] # i
    BY <2>1, <2>2
  <2>. QED BY <2>1, <2>2, <2>3 DEF Released
<1>4. ASSUME NEW j \in Held(r) PROVE r.rec[j].owner \in EvOwner /\ g[r.rec[j].owner] = j
  <2>1. j \in Held(c) /\ j # i /\ r.rec[j] = c.rec[j]
    BY DEF Released
  <2>2. c.rec[j].owner \in EvOwner /\ h[c.rec[j].owner] = j
    BY <2>1 DEF Owned
  <2>. QED BY <1>1, <1>2, <2>1, <2>2
<1>. QED BY <1>1, <1>3, <1>4 DEF Owned

LEMMA OwnedSwept ==
  ASSUME NEW c, NEW h, Owned(c, h), NEW r, Swept(r, c)
  PROVE  Owned(r, h)
BY DEF Owned, Swept

LEMMA EvInit == ASSUME EvNames, E!Init PROVE EvInv
<1>1. ev_ctx = O!aloe_ev_init(EvFds)
  BY E_Init DEF E!Init, E!FdOrTimer, EvFds
<1>2. CtxOK(ev_ctx, EvFds, EvOwner) /\ Held(ev_ctx) = {}
  BY <1>1, InitProp
<1>3. Owned(ev_ctx, ev_handle)
  BY <1>2 DEF E!Init, Owned
<1>. QED BY <1>2, <1>3 DEF EvInv

LEMMA EvStep == ASSUME EvNames, EvInv, [E!Next]_(E!vars) PROVE EvInv'
<1>0. CtxOK(ev_ctx, EvFds, EvOwner) /\ Owned(ev_ctx, ev_handle)
  BY DEF EvInv
<1>1. ASSUME NEW o \in EvOwner, NEW f \in E!FdOrTimer, NEW w \in {{}, {"read"}, {"write"}},
             NEW d \in {"inf", "past"}, NEW x \in {"none", "malloc", "epoll"}, E!Put(o, f, w, d, x)
      PROVE  EvInv'
  <2>1. PICK p : p = O!aloe_ev_put(ev_ctx, f, o, w, d, x)
    OBVIOUS
  <2>2. ev_handle[o] = NULL /\ ev_ctx' = p.ctx /\ ev_handle' = [ev_handle EXCEPT ![o] = p.ev]
    BY <1>1, <2>1, E_Put DEF E!Put
  <2>3. f \in EvFds /\ w \in SUBSET IoFlag
    BY DEF E!FdOrTimer, EvFds, IoFlag
  <2>4. PICK y : y = [fd |-> f, owner |-> o, wait |-> w, due |-> d, noti |-> {}]
    OBVIOUS
  <2>5. CtxOK(p.ctx, EvFds, EvOwner) /\ (Refused(p, ev_ctx) \/ Registered(p, ev_ctx, y))
    BY <1>0, <2>1, <2>3, <2>4, PutProp
  <2>6. y.owner = o
    BY <2>4
  <2>7. Owned(p.ctx, ev_handle')
    BY <1>0, <2>2, <2>5, <2>6, OwnedPut
  <2>. QED BY <2>2, <2>5, <2>7 DEF EvInv
<1>2. ASSUME NEW o \in EvOwner, E!Cancel(o) PROVE EvInv'
  <2>1. PICK i : i = ev_handle[o]
    OBVIOUS
  <2>2. i \in Held(ev_ctx) /\ ev_ctx.rec[i].owner = o
    BY <1>0, <1>2, <2>1 DEF E!Cancel, Owned
  <2>3. ev_ctx' = O!aloe_ev_cancel(ev_ctx, i) /\ ev_handle' = [ev_handle EXCEPT ![o] = NULL]
    BY <1>2, <2>1, E_Cancel DEF E!Cancel
  <2>4. CtxOK(ev_ctx', EvFds, EvOwner) /\ Released(ev_ctx', ev_ctx, i)
    BY <1>0, <2>2, <2>3, CancelProp
  <2>5. Owned(ev_ctx', ev_handle')
    BY <1>0, <2>2, <2>3, <2>4, OwnedFree
  <2>. QED BY <2>4, <2>5 DEF EvInv
<1>3. ASSUME NEW e \in [EvFd -> SUBSET {"read", "write", "hup"}], E!aloe_ev_once(e) PROVE EvInv'
  <2>1. PICK t, h : ev_ctx' = E!Sweep(ev_ctx, t, h)
    BY <1>3 DEF E!aloe_ev_once
  <2>2. ev_ctx' = O!Sweep(ev_ctx, t, h) /\ ev_handle' = ev_handle
    BY <1>3, <2>1, E_Sweep DEF E!aloe_ev_once
  <2>3. CtxOK(ev_ctx', EvFds, EvOwner) /\ Swept(ev_ctx', ev_ctx)
    BY <1>0, <2>2, SweepProp
  <2>4. Owned(ev_ctx', ev_handle')
    BY <1>0, <2>2, <2>3, OwnedSwept
  <2>. QED BY <2>3, <2>4 DEF EvInv
<1>4. ASSUME NEW o \in EvOwner, E!Callback(o) PROVE EvInv'
  <2>1. PICK i : i = Head(ev_ctx.ready)
    OBVIOUS
  <2>2. /\ ev_ctx.ready # <<>> /\ ev_ctx.rec[i].owner = o
        /\ ev_ctx' = O!PopReady(ev_ctx) /\ ev_handle' = [ev_handle EXCEPT ![o] = NULL]
    BY <1>4, <2>1, E_Pop DEF E!Callback
  <2>3. CtxOK(ev_ctx', EvFds, EvOwner) /\ i \in Held(ev_ctx) /\ Released(ev_ctx', ev_ctx, i)
    BY <1>0, <2>1, <2>2, ReadyProp
  <2>4. Owned(ev_ctx', ev_handle')
    BY <1>0, <2>2, <2>3, OwnedFree
  <2>. QED BY <2>3, <2>4 DEF EvInv
<1>5. ASSUME UNCHANGED <<ev_ctx, ev_handle>> PROVE EvInv'
  BY <1>5 DEF EvInv
<1>6. CASE E!OnceReturns
  BY <1>5, <1>6 DEF E!OnceReturns
<1>7. CASE UNCHANGED E!vars
  BY <1>5, <1>7 DEF E!vars
<1>8. CASE E!aloe_ev_destroy
  <2>1. ev_ctx' = O!aloe_ev_init(EvFds) /\ ev_handle' = [o \in EvOwner |-> NULL]
    BY <1>8, E_Init DEF E!aloe_ev_destroy, E!FdOrTimer, EvFds
  <2>2. CtxOK(ev_ctx', EvFds, EvOwner) /\ Held(ev_ctx') = {}
    BY <2>1, InitProp
  <2>3. Owned(ev_ctx', ev_handle')
    BY <2>1, <2>2 DEF Owned
  <2>. QED BY <2>2, <2>3 DEF EvInv
<1>. QED BY <1>1, <1>2, <1>3, <1>4, <1>6, <1>7, <1>8 DEF E!Next

(* What the invariant says of the lists.                                    *)
LEMMA EvHolds == ASSUME EvNames, EvInv PROVE HandleExact
<1>0. CtxOK(ev_ctx, EvFds, EvOwner) /\ Owned(ev_ctx, ev_handle)
  BY DEF EvInv
<1>1. PICK c : c = ev_ctx
  OBVIOUS
<1>2. CtxOK(c, EvFds, EvOwner) /\ Owned(c, ev_handle)
  BY <1>0, <1>1
<1>3. /\ c \in Context(EvFds, EvOwner) /\ DOMAIN c.grp = EvFds /\ DOMAIN c.rec = 1..Len(c.rec)
      /\ c.spare \in Seq(Nat) /\ c.ready \in Seq(Nat) /\ c.grp \in [EvFds -> Seq(Nat)]
      /\ c.fdq \in Seq(EvFds)
  BY <1>2 DEF CtxOK, Context
<1>4. \A s : E!Elems(s) = Elems(s)
  BY E_Elems, SameElems
<1>5. \A i : i \in E!Waiting \union E!Elems(c.ready) <=> i \in Held(c)
  <2>1. ASSUME NEW i, i \in E!Waiting PROVE i \in Held(c)
    <3>1. PICK f \in EvFds : i \in Elems(c.grp[f])
      BY <1>1, <1>4, <2>1 DEF E!Waiting, E!FdOrTimer, EvFds
    <3>. QED BY <1>2, <3>1, HeldIs
  <2>2. ASSUME NEW i, i \in Elems(c.ready) PROVE i \in Held(c)
    BY <1>2, <2>2, HeldIs
  <2>3. ASSUME NEW i \in Held(c), i \notin Elems(c.ready) PROVE i \in E!Waiting
    <3>1. Waits(c, i) /\ c.rec[i].fd \in EvFds
      BY <1>2, <2>3, HeldIs
    <3>2. PICK f \in EvFds : i \in Elems(c.grp[f])
      BY <3>1 DEF Waits
    <3>. QED BY <1>1, <1>4, <3>2 DEF E!Waiting, E!FdOrTimer, EvFds
  <2>. QED BY <1>4, <2>1, <2>2, <2>3
<1>6. E!Waiting \intersect E!Elems(c.ready) = {}
  <2>1. ASSUME NEW i, i \in E!Waiting PROVE i \notin Elems(c.ready)
    <3>1. PICK f \in EvFds : i \in Elems(c.grp[f])
      BY <1>1, <1>4, <2>1 DEF E!Waiting, E!FdOrTimer, EvFds
    <3>2. i \in 1..Len(c.rec) /\ Waits(c, i)
      BY <1>2, <1>3, <3>1 DEF CtxOK, Linked, Waits
    <3>. QED BY <1>2, <3>2 DEF CtxOK, Linked
  <2>. QED BY <1>4, <2>1
<1>7. E!Elems(c.spare) = DOMAIN c.rec \ (E!Waiting \union E!Elems(c.ready))
  <2>1. \A i : i \in Elems(c.spare) => i \in 1..Len(c.rec)
    BY <1>2 DEF CtxOK, Linked
  <2>2. \A i : i \in Held(c) <=> i \in 1..Len(c.rec) /\ i \notin Elems(c.spare)
    BY DEF Held
  <2>3. \A i : i \in E!Elems(c.spare) <=> i \in DOMAIN c.rec /\ i \notin E!Waiting \union E!Elems(c.ready)
    BY <1>3, <1>4, <1>5, <2>1, <2>2
  <2>. QED BY <2>3
<1>8. E!NoDup(c.spare \o c.ready)
  <2>1. NoDup(c.spare) /\ NoDup(c.ready) /\ \A i \in Elems(c.spare) : i \notin Elems(c.ready)
    BY <1>2 DEF CtxOK, Linked
  <2>2. NoDup(c.spare \o c.ready)
    BY <1>3, <2>1, ConcatProp
  <2>. QED BY <2>2 DEF NoDup, E!NoDup
<1>9. E!HandleExact
  <2>1. \A o \in EvOwner : ev_handle[o] # NULL =>
          /\ ev_handle[o] \in E!Waiting \union E!Elems(c.ready)
          /\ c.rec[ev_handle[o]].owner = o
    BY <1>2, <1>5 DEF Owned
  <2>2. \A i \in E!Waiting \union E!Elems(c.ready) : ev_handle[c.rec[i].owner] = i
    BY <1>2, <1>5 DEF Owned
  <2>. QED BY <1>1, <1>6, <1>7, <1>8, <2>1, <2>2 DEF E!HandleExact
<1>10. ASSUME NEW f \in EvFd
       PROVE  c.kern[f] = E!Mask(c, f) /\ (f \in E!Elems(c.fdq) => c.epw[f] = c.kern[f])
  <2>1. f \in EvFds \ {NoFd}
    BY DEF EvFds, EvNames
  <2>2. E!Mask(c, f) = O!Mask(c, f)
    BY E_Mask
  <2>. QED BY <1>2, <1>3, <1>4, <2>1, <2>2 DEF CtxOK, Watching
<1>11. ASSUME NEW f \in EvFds PROVE f \in E!Elems(c.fdq) <=> c.grp[f] # <<>>
  BY <1>2, <1>3, <1>4 DEF CtxOK, Linked
<1>12. E!WatchesWaiting
  BY <1>1, <1>10, <1>11 DEF E!WatchesWaiting, E!FdOrTimer, EvFds
<1>. QED BY <1>9, <1>12 DEF HandleExact

(* ev.c, for any clients and descriptors: the handle a client holds is its   *)
(* own registration, the only one it has, never a recycled one, and the     *)
(* kernel watches exactly what is registered.                               *)
THEOREM HandlesSafe == ASSUME EvNames PROVE E!Spec => []HandleExact
<1>1. E!Init => EvInv
  BY EvInit
<1>2. EvInv /\ [E!Next]_(E!vars) => EvInv'
  BY EvStep
<1>3. EvInv => HandleExact
  BY EvHolds
<1>. QED BY <1>1, <1>2, <1>3, PTL DEF E!Spec

-----------------------------------------------------------------------------
(* dummy1.  The services are told apart from each other and from the        *)
(* connections; descriptors are numbers.                                    *)
DummyNames ==
  /\ Service = Conn \union {"cycle", "mgmt", "cli", "ipc"}
  /\ Conn \intersect {"cycle", "mgmt", "cli", "ipc"} = {}
  /\ DummyFd \subseteq Nat /\ NoFd \notin DummyFd /\ NULL \notin Nat

DFds == DummyFd \union {NoFd}

(* With u the descriptors and l the services that are up: each has its own  *)
(* descriptor, and what is registered is registered once, for a service     *)
(* that is up, on its descriptor.                                           *)
Served(c, u, l) ==
  /\ CtxOK(c, DFds, Service) /\ l \subseteq Service /\ u \in [Service -> DFds]
  /\ \A o \in Service : IF o \in l /\ o # "cycle" THEN u[o] \in DummyFd ELSE u[o] = NoFd
  /\ \A o, q \in l \ {"cycle"} : u[o] = u[q] => o = q
  /\ \A i \in Held(c) : /\ c.rec[i].owner \in l /\ c.rec[i].fd = u[c.rec[i].owner]
                        /\ c.rec[i].owner # "cycle" => c.rec[i].wait = {"read"}
  /\ \A i, j \in Held(c) : c.rec[i].owner = c.rec[j].owner => i = j

(* The handles of h are registered, each for its service.                   *)
Known(c, h) ==
  /\ h \in [Service -> Nat \union {NULL}]
  /\ \A o \in Service : h[o] # NULL => h[o] \in Held(c) /\ c.rec[h[o]].owner = o

Free(c, o) == \A i \in Held(c) : c.rec[i].owner # o

(* The services other than o are registered as before.                      *)
Others(r, c, o) == \A a : a # o => (Free(r, a) <=> Free(c, a))

(* Entering the callback of o.                                              *)
LEMMA EnterProp ==
  ASSUME DummyNames, NEW c, NEW u, NEW l, NEW h, Served(c, u, l), Known(c, h), c.ready # <<>>, NEW o,
         c.rec[Head(c.ready)].owner = o, NEW r, r = O!PopReady(c)
  PROVE  /\ o \in l /\ Served(r, u, l) /\ Free(r, o) /\ Known(r, [h EXCEPT ![o] = NULL])
         /\ Others(r, c, o)
<1>1. CtxOK(c, DFds, Service)
  BY DEF Served
<1>2. PICK i : i = Head(c.ready)
  OBVIOUS
<1>3. CtxOK(r, DFds, Service) /\ i \in Held(c) /\ Released(r, c, i)
  BY <1>1, <1>2, ReadyProp
<1>4. o \in l /\ l \subseteq Service /\ c.rec[i].owner = o
  BY <1>2, <1>3 DEF Served
<1>5. \A j \in Held(r) : j \in Held(c) /\ j # i /\ r.rec[j] = c.rec[j]
  BY <1>3 DEF Released
<1>6. Free(r, o)
  BY <1>3, <1>4, <1>5 DEF Free, Served
<1>7. Served(r, u, l)
  <2>1. \A j \in Held(r) : /\ r.rec[j].owner \in l /\ r.rec[j].fd = u[r.rec[j].owner]
                           /\ r.rec[j].owner # "cycle" => r.rec[j].wait = {"read"}
    BY <1>5 DEF Served
  <2>2. \A j, k \in Held(r) : r.rec[j].owner = r.rec[k].owner => j = k
    BY <1>5 DEF Served
  <2>. QED BY <1>3, <2>1, <2>2 DEF Served
<1>8. PICK g : g = [h EXCEPT ![o] = NULL]
  OBVIOUS
<1>9. g \in [Service -> Nat \union {NULL}] /\ \A a \in Service : g[a] = IF a = o THEN NULL ELSE h[a]
  BY <1>8 DEF Known
<1>10. ASSUME NEW a \in Service, g[a] # NULL PROVE g[a] \in Held(r) /\ r.rec[g[a]].owner = a
  <2>1. a # o /\ g[a] = h[a] /\ h[a] \in Held(c) /\ c.rec[h[a]].owner = a
    BY <1>9, <1>10 DEF Known
  <2>2. h[a] # i
    BY <1>4, <2>1
  <2>. QED BY <1>3, <2>1, <2>2 DEF Released
<1>11. Known(r, g)
  BY <1>9, <1>10 DEF Known
<1>12. Others(r, c, o)
  <2>1. \A j \in Held(c) : j # i => j \in Held(r) /\ r.rec[j] = c.rec[j]
    BY <1>3 DEF Released
  <2>2. ASSUME NEW a, a # o PROVE Free(r, a) <=> Free(c, a)
    BY <1>4, <1>5, <2>1, <2>2 DEF Free
  <2>. QED BY <2>2 DEF Others
<1>. QED BY <1>4, <1>6, <1>7, <1>8, <1>11, <1>12

(* A service that is up and not registered registers.                       *)
Registers(p, c, u, o, w, d, fails) ==
  /\ p = O!aloe_ev_put(c, u[o], o, w, d, fails)
  /\ w \in SUBSET IoFlag /\ (o # "cycle" => w = {"read"}) /\ d \in {"inf", "past"}

(* It stays as it was, or has the handle it was given.                      *)
Rearmed(p, c, u, l, h, o) ==
  /\ Served(p.ctx, u, l) /\ Known(p.ctx, [h EXCEPT ![o] = p.ev])
  /\ p.ev = NULL <=> Free(p.ctx, o)
  /\ Others(p.ctx, c, o)

LEMMA RegisterProp ==
  ASSUME DummyNames, NEW c, NEW u, NEW l, NEW h, Served(c, u, l), Known(c, h), NEW o \in l, Free(c, o),
         NEW w, NEW d, NEW fails, NEW p, Registers(p, c, u, o, w, d, fails)
  PROVE  Rearmed(p, c, u, l, h, o)
<1>0. /\ p = O!aloe_ev_put(c, u[o], o, w, d, fails)
      /\ w \in SUBSET IoFlag /\ (o # "cycle" => w = {"read"}) /\ d \in {"inf", "past"}
  BY DEF Registers
<1>1. CtxOK(c, DFds, Service) /\ o \in Service /\ u[o] \in DFds
  BY DEF Served
<1>2. PICK x : x = [fd |-> u[o], owner |-> o, wait |-> w, due |-> d, noti |-> {}]
  OBVIOUS
<1>3. CtxOK(p.ctx, DFds, Service) /\ (Refused(p, c) \/ Registered(p, c, x))
  BY <1>0, <1>1, <1>2, PutProp
<1>4. x.owner = o /\ x.fd = u[o] /\ x.wait = w
  BY <1>2
<1>5. PICK r, e : r = p.ctx /\ e = p.ev
  OBVIOUS
<1>6. /\ \A j \in Held(c) : j \in Held(r) /\ r.rec[j] = c.rec[j]
      /\ \A j \in Held(r) : j \in Held(c) \/ (j = e /\ e # NULL /\ r.rec[e] = x)
      /\ e \in Nat \union {NULL} /\ (e # NULL => e \in Held(r) /\ r.rec[e] = x)
  BY <1>3, <1>5 DEF Refused, Registered, DummyNames
<1>7. Served(r, u, l)
  <2>1. ASSUME NEW j \in Held(r)
        PROVE  /\ r.rec[j].owner \in l /\ r.rec[j].fd = u[r.rec[j].owner]
               /\ r.rec[j].owner # "cycle" => r.rec[j].wait = {"read"}
    <3>1. CASE j \in Held(c)
      BY <1>6, <3>1 DEF Served
    <3>2. CASE j = e /\ r.rec[e] = x
      BY <1>0, <1>4, <3>2
    <3>. QED BY <1>6, <3>1, <3>2
  <2>2. ASSUME NEW j \in Held(r), NEW k \in Held(r), r.rec[j].owner = r.rec[k].owner PROVE j = k
    <3>1. CASE j \in Held(c) /\ k \in Held(c)
      BY <1>6, <2>2, <3>1 DEF Served
    <3>2. \A n \in Held(c) : r.rec[n].owner # o
      BY <1>6 DEF Free
    <3>. QED BY <1>4, <1>6, <2>2, <3>1, <3>2
  <2>. QED BY <1>3, <1>5, <2>1, <2>2 DEF Served
<1>8. PICK g : g = [h EXCEPT ![o] = e]
  OBVIOUS
<1>9. g \in [Service -> Nat \union {NULL}] /\ \A a \in Service : g[a] = IF a = o THEN e ELSE h[a]
  BY <1>1, <1>6, <1>8 DEF Known
<1>10. ASSUME NEW a \in Service, g[a] # NULL PROVE g[a] \in Held(r) /\ r.rec[g[a]].owner = a
  <2>1. CASE a = o
    BY <1>4, <1>6, <1>9, <1>10, <2>1
  <2>2. CASE a # o
    BY <1>6, <1>9, <1>10, <2>2 DEF Known
  <2>. QED BY <2>1, <2>2
<1>11. Known(r, g)
  BY <1>9, <1>10 DEF Known
<1>12. e = NULL <=> Free(r, o)
  BY <1>4, <1>6 DEF Free
<1>13. Others(r, c, o)
  <2>1. ASSUME NEW a, a # o, Free(c, a) PROVE Free(r, a)
    <3>1. ASSUME NEW j \in Held(r) PROVE r.rec[j].owner # a
      BY <1>4, <1>6, <2>1 DEF Free
    <3>. QED BY <3>1 DEF Free
  <2>2. ASSUME NEW a, Free(r, a) PROVE Free(c, a)
    BY <1>6, <2>2 DEF Free
  <2>. QED BY <2>1, <2>2 DEF Others
<1>. QED BY <1>5, <1>7, <1>8, <1>11, <1>12, <1>13 DEF Rearmed

(* A service comes up: it gets a descriptor nobody has.                     *)
Opens(v, u, l, o, f) ==
  /\ o \in Service \ l /\ o # "cycle" /\ f \in DummyFd /\ (\A q \in l : u[q] # f)
  /\ v = [u EXCEPT ![o] = f]

LEMMA OpenProp ==
  ASSUME DummyNames, NEW c, NEW u, NEW l, Served(c, u, l), NEW o, NEW f, NEW v, Opens(v, u, l, o, f)
  PROVE  Served(c, v, l \union {o}) /\ Free(c, o) /\ v[o] = f
<1>0. /\ o \in Service /\ o \notin l /\ o # "cycle" /\ f \in DummyFd /\ (\A q \in l : u[q] # f)
      /\ v = [u EXCEPT ![o] = f]
  BY DEF Opens
<1>1. CtxOK(c, DFds, Service) /\ l \subseteq Service /\ u \in [Service -> DFds]
  BY DEF Served
<1>2. v \in [Service -> DFds] /\ \A a \in Service : v[a] = IF a = o THEN f ELSE u[a]
  BY <1>0, <1>1 DEF DFds
<1>3. \A i \in Held(c) : /\ c.rec[i].owner \in l /\ c.rec[i].owner # o /\ c.rec[i].owner \in Service
                         /\ c.rec[i].fd = u[c.rec[i].owner]
                         /\ c.rec[i].owner # "cycle" => c.rec[i].wait = {"read"}
  BY <1>0, <1>1 DEF Served
<1>4. \A a \in Service : IF a \in l \union {o} /\ a # "cycle" THEN v[a] \in DummyFd ELSE v[a] = NoFd
  BY <1>0, <1>2 DEF Served
<1>5. ASSUME NEW a \in (l \union {o}) \ {"cycle"}, NEW q \in (l \union {o}) \ {"cycle"}, v[a] = v[q]
      PROVE  a = q
  <2>1. CASE a = o
    BY <1>0, <1>1, <1>2, <1>5, <2>1
  <2>2. CASE q = o
    BY <1>0, <1>1, <1>2, <1>5, <2>2
  <2>3. CASE a # o /\ q # o
    BY <1>0, <1>1, <1>2, <1>5, <2>3 DEF Served
  <2>. QED BY <2>1, <2>2, <2>3
<1>6. \A i \in Held(c) : /\ c.rec[i].owner \in l \union {o} /\ c.rec[i].fd = v[c.rec[i].owner]
                         /\ c.rec[i].owner # "cycle" => c.rec[i].wait = {"read"}
  BY <1>2, <1>3
<1>7. \A i, j \in Held(c) : c.rec[i].owner = c.rec[j].owner => i = j
  BY DEF Served
<1>8. Served(c, v, l \union {o})
  BY <1>0, <1>1, <1>2, <1>4, <1>5, <1>6, <1>7 DEF Served
<1>. QED BY <1>0, <1>2, <1>3, <1>8 DEF Free

(* A service goes down: its descriptor is closed, the kernel has forgotten  *)
(* it already.                                                              *)
LEMMA ReleaseProp ==
  ASSUME DummyNames, NEW c, NEW u, NEW l, Served(c, u, l), NEW o \in l, o # "cycle", Free(c, o),
         NEW v, v = [u EXCEPT ![o] = NoFd]
  PROVE  O!CloseFd(c, u[o]) = c /\ Served(c, v, l \ {o})
<1>1. /\ CtxOK(c, DFds, Service) /\ l \subseteq Service /\ u \in [Service -> DFds] /\ u[o] \in DummyFd
      /\ o \in Service
  BY DEF Served
<1>2. v \in [Service -> DFds] /\ \A a \in Service : v[a] = IF a = o THEN NoFd ELSE u[a]
  BY <1>1 DEF DFds
<1>3. ASSUME NEW i \in Held(c) PROVE c.rec[i].owner \in l \ {o} /\ c.rec[i].fd = u[c.rec[i].owner]
  BY DEF Served, Free
<1>4. \A i \in Held(c) : c.rec[i].fd # u[o]
  <2>1. ASSUME NEW i \in Held(c) PROVE c.rec[i].fd # u[o]
    <3>1. PICK a : a = c.rec[i].owner
      OBVIOUS
    <3>2. a \in l /\ a # o /\ c.rec[i].fd = u[a] /\ a \in Service
      BY <1>1, <1>3, <3>1
    <3>3. CASE a = "cycle"
      BY <1>1, <3>2, <3>3 DEF Served, DummyNames
    <3>4. CASE a # "cycle"
      BY <1>1, <3>2, <3>4 DEF Served
    <3>. QED BY <3>3, <3>4
  <2>. QED BY <2>1
<1>5. u[o] \in DFds \ {NoFd}
  BY <1>1 DEF DFds, DummyNames
<1>6. O!CloseFd(c, u[o]) = c
  BY <1>1, <1>4, <1>5, CloseProp
<1>7. \A a \in Service : IF a \in l \ {o} /\ a # "cycle" THEN v[a] \in DummyFd ELSE v[a] = NoFd
  BY <1>2 DEF Served
<1>8. \A a, q \in (l \ {o}) \ {"cycle"} : v[a] = v[q] => a = q
  <2>. SUFFICES ASSUME NEW a \in l, a # o, a # "cycle", NEW q \in l, q # o, q # "cycle", v[a] = v[q]
                PROVE  a = q
    OBVIOUS
  <2>1. u[a] = u[q]
    BY <1>1, <1>2
  <2>. QED BY <2>1 DEF Served
<1>9. ASSUME NEW i \in Held(c)
      PROVE  /\ c.rec[i].owner \in l \ {o} /\ c.rec[i].fd = v[c.rec[i].owner]
             /\ c.rec[i].owner # "cycle" => c.rec[i].wait = {"read"}
  BY <1>1, <1>2, <1>3 DEF Served
<1>10. \A i, j \in Held(c) : c.rec[i].owner = c.rec[j].owner => i = j
  BY DEF Served
<1>11. Served(c, v, l \ {o})
  BY <1>1, <1>2, <1>7, <1>8, <1>9, <1>10 DEF Served
<1>. QED BY <1>6, <1>11

(* Fewer handles are known as well.                                         *)
LEMMA KnownLess ==
  ASSUME NEW c, NEW g, Known(c, g), NEW h, h \in [Service -> Nat \union {NULL}],
         \A a \in Service : h[a] = g[a] \/ h[a] = NULL
  PROVE  Known(c, h)
BY DEF Known

(* The start of a service: it is up under the new descriptor, or nothing    *)
(* has changed.                                                             *)
LEMMA StartProp ==
  ASSUME DummyNames, NEW c, NEW u, NEW l, NEW h, Served(c, u, l), Known(c, h),
         NEW o \in Service, o \notin l, o # "cycle", NEW f \in DummyFd, \A q \in l : u[q] # f, NEW fails,
         NEW p, p = O!aloe_ev_put(c, f, o, {"read"}, "inf", fails)
  PROVE  \A r, v, m : /\ r = (IF p.ev # NULL THEN p.ctx ELSE O!CloseFd(p.ctx, f))
                      /\ v = (IF p.ev # NULL THEN [u EXCEPT ![o] = f] ELSE u)
                      /\ m = (IF p.ev # NULL THEN l \union {o} ELSE l)
           => Served(r, v, m) /\ Known(r, [h EXCEPT ![o] = p.ev]) /\ Others(r, c, o)
<1>1. PICK t, k : t = [u EXCEPT ![o] = f] /\ k = l \union {o}
  OBVIOUS
<1>2. Served(c, t, k) /\ Free(c, o) /\ t[o] = f /\ o \in k
  <2>1. Opens(t, u, l, o, f)
    BY <1>1 DEF Opens
  <2>2. Served(c, t, l \union {o}) /\ Free(c, o) /\ t[o] = f
    BY <2>1, OpenProp
  <2>. QED BY <1>1, <2>2
<1>3. Registers(p, c, t, o, {"read"}, "inf", fails)
  BY <1>2 DEF IoFlag, Registers
<1>4. /\ Served(p.ctx, t, k) /\ Known(p.ctx, [h EXCEPT ![o] = p.ev])
      /\ p.ev = NULL => Free(p.ctx, o)
      /\ Others(p.ctx, c, o)
  <2>1. Rearmed(p, c, t, k, h, o)
    BY <1>2, <1>3, RegisterProp
  <2>. QED BY <2>1 DEF Rearmed
<1>5. CASE p.ev # NULL
  BY <1>1, <1>4, <1>5
<1>6. CASE p.ev = NULL
  <2>1. [t EXCEPT ![o] = NoFd] = u
    <3>1. u \in [Service -> DFds] /\ u[o] = NoFd
      BY DEF Served
    <3>. QED BY <1>1, <3>1
  <2>2. k \ {o} = l
    BY <1>1
  <2>3. O!CloseFd(p.ctx, t[o]) = p.ctx /\ Served(p.ctx, u, k \ {o})
    BY <1>2, <1>4, <1>6, <2>1, ReleaseProp
  <2>4. O!CloseFd(p.ctx, f) = p.ctx /\ Served(p.ctx, u, l)
    BY <1>2, <2>2, <2>3
  <2>. QED BY <1>4, <1>6, <2>4
<1>. QED BY <1>5, <1>6

(* Nothing happens to a service when others' events are swept up.           *)
LEMMA ServedSwept ==
  ASSUME NEW c, NEW u, NEW l, NEW h, Served(c, u, l), Known(c, h), NEW r, CtxOK(r, DFds, Service), Swept(r, c)
  PROVE  Served(r, u, l) /\ Known(r, h) /\ \A a : Free(r, a) <=> Free(c, a)
<1>1. \A j : j \in Held(r) <=> j \in Held(c)
  BY DEF Swept
<1>2. \A j \in Held(c) : /\ r.rec[j].fd = c.rec[j].fd /\ r.rec[j].owner = c.rec[j].owner
                         /\ r.rec[j].wait = c.rec[j].wait
  BY DEF Swept
<1>3. \A i \in Held(r) : /\ r.rec[i].owner \in l /\ r.rec[i].fd = u[r.rec[i].owner]
                         /\ r.rec[i].owner # "cycle" => r.rec[i].wait = {"read"}
  BY <1>1, <1>2 DEF Served
<1>4. \A i, j \in Held(r) : r.rec[i].owner = r.rec[j].owner => i = j
  BY <1>1, <1>2 DEF Served
<1>5. Served(r, u, l)
  BY <1>3, <1>4 DEF Served
<1>6. Known(r, h)
  BY <1>1, <1>2 DEF Known
<1>7. \A a : Free(r, a) <=> Free(c, a)
  BY <1>1, <1>2 DEF Free
<1>. QED BY <1>5, <1>6, <1>7

(* A socket gets the lowest free descriptor.                                *)
LEMMA LowestIn ==
  ASSUME DummyNames, NEW used, DummyFd \ used # {}
  PROVE  D!Lowest(used) \in DummyFd \ used
<1>1. PICK T : T = DummyFd \ used
  OBVIOUS
<1>2. \E m \in T : \A n \in T : m <= n
  <2>1. T \subseteq Nat /\ T # {}
    BY <1>1 DEF DummyNames
  <2>. QED BY <2>1, LeastNat
<1>3. D!Lowest(used) = CHOOSE m \in T : \A n \in T : m <= n
  BY <1>1 DEF D!Lowest
<1>. QED BY <1>1, <1>2, <1>3

LEMMA LowestFree ==
  ASSUME DummyNames, DummyFd \ D!OpenFds # {}
  PROVE  D!Lowest(D!OpenFds) \in DummyFd /\ \A q \in d_live : d_fd[q] # D!Lowest(D!OpenFds)
<1>1. D!Lowest(D!OpenFds) \in DummyFd \ D!OpenFds
  BY LowestIn
<1>2. \A q \in d_live : d_fd[q] \in D!OpenFds \/ d_fd[q] = NoFd
  BY DEF D!OpenFds
<1>. QED BY <1>1, <1>2 DEF DummyNames

-----------------------------------------------------------------------------
(* The invariant of dummy1: the state above, in the order of main.          *)
Ups(h, l, x) == h["cycle"] = NULL /\ \A o \in l \ x : o # "cycle" => h[o] # NULL

(* The timer runs unless it was refused.                                    *)
Ticks(c, l, x) == "cycle" \in l /\ "cycle" \notin x => ~Free(c, "cycle")

Boots(at, l) ==
  /\ at = "cycle" => l = {}
  /\ at = "mgmt" => "mgmt" \notin l /\ "cli" \notin l /\ "ipc" \notin l
  /\ at = "cli" => "cli" \notin l /\ "ipc" \notin l
  /\ at = "ipc" => "ipc" \notin l

DInv ==
  /\ Served(d_ctx, d_fd, d_live) /\ Known(d_ctx, d_ev) /\ Boots(d_step, d_live)
  /\ Ups(d_ev, d_live, d_failed) /\ Ticks(d_ctx, d_live, d_failed)
  /\ d_failed \subseteq {"mgmt", "cycle"} /\ pair \in DFds
  /\ peer \in [Service -> {"quiet", "data", "eof"}]
  /\ waiting \in {"poll", "call"} /\ d_step \in {"cycle", "mgmt", "cli", "ipc", "loop", "exit"}

(* The other end of ipc's pair has a free descriptor of its own.            *)
LEMMA PairFree ==
  ASSUME DummyNames, pair \in DFds, "ipc" \notin d_live, NEW sys \in BOOLEAN, NEW x, D!ipc1_init(sys, x)
  PROVE  pair' \in DFds
<1>1. PICK used : used = D!OpenFds \union {D!Lowest(D!OpenFds)}
  OBVIOUS
<1>2. /\ sys => DummyFd \ used # {}
      /\ pair' = IF "ipc" \in d_live' THEN D!Lowest(used) ELSE pair
  BY <1>1 DEF D!ipc1_init
<1>3. "ipc" \in d_live' => sys
  BY DEF D!ipc1_init, D!ServiceInit
<1>4. sys => D!Lowest(used) \in DummyFd
  BY <1>2, LowestIn
<1>. QED BY <1>2, <1>3, <1>4 DEF DFds

LEMMA DummyInit == ASSUME DummyNames, D!Init PROVE DInv
<1>1. d_ctx = O!aloe_ev_init(DFds)
  BY D_Init DEF D!Init, D!FdOrTimer, DFds
<1>2. CtxOK(d_ctx, DFds, Service) /\ Held(d_ctx) = {}
  BY <1>1, InitProp
<1>3. Served(d_ctx, d_fd, d_live)
  BY <1>2 DEF D!Init, Served, DFds
<1>4. Known(d_ctx, d_ev)
  BY <1>2 DEF D!Init, Known
<1>5. Ups(d_ev, d_live, d_failed) /\ Ticks(d_ctx, d_live, d_failed) /\ Boots(d_step, d_live)
  BY DEF D!Init, Ups, Ticks, Boots, DummyNames
<1>6. /\ d_failed \subseteq {"mgmt", "cycle"} /\ pair \in DFds
      /\ peer \in [Service -> {"quiet", "data", "eof"}]
      /\ waiting \in {"poll", "call"} /\ d_step \in {"cycle", "mgmt", "cli", "ipc", "loop", "exit"}
  BY DEF D!Init, DFds
<1>. QED BY <1>3, <1>4, <1>5, <1>6 DEF DInv

(* main registers the timer.                                                *)
LEMMA MainStep == ASSUME DummyNames, DInv, NEW x, D!MainCycle(x) PROVE DInv'
<1>0. Served(d_ctx, d_fd, d_live) /\ Known(d_ctx, d_ev) /\ d_live = {} /\ "cycle" \in Service
  BY DEF DInv, Boots, D!MainCycle, DummyNames
<1>1. \A i : i \notin Held(d_ctx)
  BY <1>0 DEF Served
<1>2. /\ CtxOK(d_ctx, DFds, Service) /\ d_fd \in [Service -> DFds]
      /\ \A o \in Service : d_fd[o] = NoFd
  BY <1>0 DEF Served
<1>3. Served(d_ctx, d_fd, {"cycle"}) /\ Free(d_ctx, "cycle")
  BY <1>0, <1>1, <1>2 DEF Served, Free
<1>4. d_ev \in [Service -> Nat \union {NULL}] /\ \A o \in Service : d_ev[o] = NULL
  BY <1>0, <1>1 DEF Known
<1>5. PICK p : p = O!aloe_ev_put(d_ctx, d_fd["cycle"], "cycle", {}, "past", x)
  OBVIOUS
<1>6. /\ d_ctx' = p.ctx /\ d_step' = (IF p.ev = NULL THEN "exit" ELSE "mgmt")
      /\ d_live' = (IF p.ev = NULL THEN {} ELSE {"cycle"})
      /\ UNCHANGED <<d_fd, d_ev, peer, waiting, d_failed, pair>>
  BY <1>0, <1>2, <1>5, D_Put DEF D!MainCycle
<1>7. Served(p.ctx, d_fd, {"cycle"}) /\ (p.ev = NULL <=> Free(p.ctx, "cycle"))
  <2>1. Registers(p, d_ctx, d_fd, "cycle", {}, "past", x) /\ "cycle" \in {"cycle"}
    BY <1>5 DEF Registers
  <2>2. Rearmed(p, d_ctx, d_fd, {"cycle"}, d_ev, "cycle")
    BY <1>0, <1>3, <2>1, RegisterProp
  <2>. QED BY <2>2 DEF Rearmed
<1>8. Served(d_ctx', d_fd', d_live')
  <2>1. CASE p.ev = NULL
    <3>1. \A i : i \notin Held(p.ctx)
      BY <1>7, <2>1 DEF Served, Free
    <3>2. Served(p.ctx, d_fd, {})
      BY <1>2, <1>7, <3>1 DEF Served
    <3>. QED BY <1>6, <2>1, <3>2
  <2>2. CASE p.ev # NULL
    BY <1>6, <1>7, <2>2
  <2>. QED BY <2>1, <2>2
<1>9. Known(d_ctx', d_ev')
  BY <1>4, <1>6 DEF Known
<1>10. Ups(d_ev', d_live', d_failed') /\ Ticks(d_ctx', d_live', d_failed')
  BY <1>0, <1>4, <1>6, <1>7 DEF Ups, Ticks
<1>11. Boots(d_step', d_live')
  BY <1>6 DEF Boots
<1>. QED BY <1>6, <1>8, <1>9, <1>10, <1>11 DEF DInv

(* mgmt1_init, cli1_init and ipc1_init.                                     *)
LEMMA ServiceStep ==
  ASSUME DummyNames, DInv, NEW o \in {"mgmt", "cli", "ipc"}, NEW next, NEW sys \in BOOLEAN, NEW x,
         o = "mgmt" => next = "cli", o = "cli" => next = "ipc", o = "ipc" => next = "loop",
         D!ServiceInit(o, next, sys, x), pair' \in DFds
  PROVE  DInv'
<1>0. /\ Served(d_ctx, d_fd, d_live) /\ Known(d_ctx, d_ev) /\ Ups(d_ev, d_live, d_failed)
      /\ o \in Service /\ o \notin d_live /\ o # "cycle" /\ d_step = o
  BY DEF DInv, Boots, D!ServiceInit, DummyNames
<1>1. d_ev[o] = NULL /\ d_ev \in [Service -> Nat \union {NULL}]
  BY <1>0 DEF Known, Served
<1>2. d_step' = next /\ UNCHANGED <<peer, waiting, d_failed>>
  BY DEF D!ServiceInit
<1>3. Boots(next, d_live \union {o}) /\ Boots(next, d_live) /\ next \in {"cli", "ipc", "loop"}
  BY <1>0 DEF Boots, DInv
<1>4. CASE ~sys
  <2>1. UNCHANGED <<d_ctx, d_fd, d_ev, d_live>>
    BY <1>4 DEF D!ServiceInit
  <2>. QED BY <1>0, <1>2, <1>3, <2>1 DEF DInv
<1>5. CASE sys
  <2>1. PICK f : f = D!Lowest(D!OpenFds)
    OBVIOUS
  <2>2. f \in DummyFd /\ \A q \in d_live : d_fd[q] # f
    BY <1>5, <2>1, LowestFree DEF D!ServiceInit
  <2>3. PICK p : p = O!aloe_ev_put(d_ctx, f, o, {"read"}, "inf", x)
    OBVIOUS
  <2>4. /\ d_ctx' = (IF p.ev # NULL THEN p.ctx ELSE O!CloseFd(p.ctx, f))
        /\ d_fd' = (IF p.ev # NULL THEN [d_fd EXCEPT ![o] = f] ELSE d_fd)
        /\ d_ev' = (IF p.ev # NULL THEN [d_ev EXCEPT ![o] = p.ev] ELSE d_ev)
        /\ d_live' = (IF p.ev # NULL THEN d_live \union {o} ELSE d_live)
    BY <1>5, <2>1, <2>3, D_Put, D_Close DEF D!ServiceInit
  <2>5. Served(d_ctx', d_fd', d_live') /\ Known(d_ctx', [d_ev EXCEPT ![o] = p.ev]) /\ Others(d_ctx', d_ctx, o)
    BY <1>0, <2>2, <2>3, <2>4, StartProp
  <2>6. d_ev' = [d_ev EXCEPT ![o] = p.ev]
    BY <1>1, <2>4
  <2>7. Ups(d_ev', d_live', d_failed')
    BY <1>0, <1>1, <1>2, <2>4 DEF Ups, Served
  <2>9. Ticks(d_ctx', d_live', d_failed')
    BY <1>0, <1>2, <2>4, <2>5 DEF Ticks, Others, DInv
  <2>8. Boots(d_step', d_live')
    BY <1>2, <1>3, <2>4
  <2>. QED BY <1>2, <1>3, <2>5, <2>6, <2>7, <2>8, <2>9 DEF DInv
<1>. QED BY <1>4, <1>5

(* What happens once the program runs does not touch the order of main.     *)
LEMMA BootsOn ==
  ASSUME DummyNames, NEW at, NEW l, Boots(at, l), l # {}, NEW m, m \subseteq l \union Conn
  PROVE  Boots(at, m)
BY DEF Boots, DummyNames

Enters(r, c, o) == c.ready # <<>> /\ c.rec[Head(c.ready)].owner = o /\ r = O!PopReady(c)

(* On entry the service is up and not registered, and its handle void.      *)
Entered(r, u, l, h, o) ==
  /\ o \in l /\ Served(r, u, l) /\ Free(r, o) /\ Known(r, [h EXCEPT ![o] = NULL])
  /\ Others(r, d_ctx, o)

LEMMA CalledProp ==
  ASSUME DummyNames, DInv, NEW r, NEW o, Enters(r, d_ctx, o)
  PROVE  Entered(r, d_fd, d_live, d_ev, o)
<1>1. Served(d_ctx, d_fd, d_live) /\ Known(d_ctx, d_ev)
  BY DEF DInv
<1>2. d_ctx.ready # <<>> /\ d_ctx.rec[Head(d_ctx.ready)].owner = o /\ r = O!PopReady(d_ctx)
  BY DEF Enters
<1>. QED BY <1>1, <1>2, EnterProp DEF Entered

(* cycletime_cb.                                                            *)
LEMMA CycleStep == ASSUME DummyNames, DInv, NEW x, D!cycletime_cb(x) PROVE DInv'
<1>1. PICK r : r = O!PopReady(d_ctx)
  OBVIOUS
<1>2. Entered(r, d_fd, d_live, d_ev, "cycle")
  <2>1. Enters(r, d_ctx, "cycle")
    BY <1>1 DEF Enters, D!cycletime_cb, D!Called
  <2>. QED BY <2>1, CalledProp
<1>3. PICK p : p = O!aloe_ev_put(r, d_fd["cycle"], "cycle", {}, "past", x)
  OBVIOUS
<1>4. d_fd["cycle"] = NoFd /\ "cycle" \in Service
  BY DEF DInv, Served, DummyNames
<1>5. /\ d_ctx' = p.ctx /\ UNCHANGED <<d_step, d_fd, d_ev, d_live, peer, waiting, pair>>
      /\ d_failed' = (IF p.ev = NULL THEN d_failed \union {"cycle"} ELSE d_failed)
  BY <1>1, <1>3, <1>4, D_Put, D_Pop DEF D!cycletime_cb
<1>6. PICK h : h = [d_ev EXCEPT !["cycle"] = NULL]
  OBVIOUS
<1>7. Rearmed(p, r, d_fd, d_live, h, "cycle")
  <2>1. Registers(p, r, d_fd, "cycle", {}, "past", x)
    BY <1>3 DEF Registers
  <2>2. "cycle" \in d_live /\ Served(r, d_fd, d_live) /\ Free(r, "cycle") /\ Known(r, h)
    BY <1>2, <1>6 DEF Entered
  <2>. QED BY <2>1, <2>2, RegisterProp
<1>8. Served(p.ctx, d_fd, d_live)
  BY <1>7 DEF Rearmed
<1>9. Known(p.ctx, d_ev)
  <2>1. PICK g : g = [h EXCEPT !["cycle"] = p.ev]
    OBVIOUS
  <2>2. Known(p.ctx, g)
    BY <1>7, <2>1 DEF Rearmed
  <2>3. d_ev \in [Service -> Nat \union {NULL}] /\ d_ev["cycle"] = NULL
    BY DEF DInv, Known, Ups
  <2>4. \A a \in Service : d_ev[a] = g[a] \/ d_ev[a] = NULL
    BY <1>6, <2>1, <2>3
  <2>. QED BY <2>2, <2>3, <2>4, KnownLess
<1>10. Ticks(d_ctx', d_live', d_failed') /\ Ups(d_ev', d_live', d_failed')
  <2>1. p.ev = NULL <=> Free(p.ctx, "cycle")
    BY <1>7 DEF Rearmed
  <2>. QED BY <1>5, <2>1 DEF Ticks, Ups, DInv
<1>. QED BY <1>5, <1>8, <1>9, <1>10 DEF DInv

(* cli1_cb and mgmt1_client_cb.                                             *)
LEMMA ReadStep == ASSUME DummyNames, DInv, NEW o, NEW io, NEW x, D!read_cb(o, io, x) PROVE DInv'
<1>0. o \in Service /\ o # "cycle" /\ o # "mgmt"
  BY DEF D!read_cb, D!Reader, DummyNames
<1>1. PICK r : r = O!PopReady(d_ctx)
  OBVIOUS
<1>2. Entered(r, d_fd, d_live, d_ev, o)
  <2>1. Enters(r, d_ctx, o)
    BY <1>1 DEF Enters, D!read_cb, D!Called
  <2>. QED BY <2>1, CalledProp
<1>3. PICK h : h = [d_ev EXCEPT ![o] = NULL]
  OBVIOUS
<1>4. o \in d_live /\ Served(r, d_fd, d_live) /\ Free(r, o) /\ Known(r, h)
  BY <1>2, <1>3 DEF Entered
<1>5. PICK p : p = O!aloe_ev_put(r, d_fd[o], o, {"read"}, "inf", x)
  OBVIOUS
<1>6. Rearmed(p, r, d_fd, d_live, h, o)
  <2>1. Registers(p, r, d_fd, o, {"read"}, "inf", x)
    BY <1>5 DEF Registers, IoFlag
  <2>. QED BY <1>4, <2>1, RegisterProp
<1>7. PICK v : v = [d_fd EXCEPT ![o] = NoFd]
  OBVIOUS
<1>8. \E failed \in BOOLEAN :
        /\ d_ev' = [d_ev EXCEPT ![o] = IF failed \/ p.ev = NULL THEN NULL ELSE p.ev]
        /\ d_ctx' = (IF failed THEN O!CloseFd(r, d_fd[o])
                     ELSE IF p.ev = NULL THEN O!CloseFd(p.ctx, d_fd[o]) ELSE p.ctx)
        /\ d_fd' = (IF failed \/ p.ev = NULL THEN v ELSE d_fd)
        /\ d_live' = (IF failed \/ p.ev = NULL THEN d_live \ {o} ELSE d_live)
  <2>. DEFINE failed == "read" \in d_ctx.rec[Head(d_ctx.ready)].noti /\ (peer[o] = "eof" \/ io = "error")
  <2>1. /\ d_ev' = [d_ev EXCEPT ![o] = IF failed \/ p.ev = NULL THEN NULL ELSE p.ev]
        /\ d_ctx' = (IF failed THEN O!CloseFd(r, d_fd[o])
                     ELSE IF failed \/ p.ev = NULL THEN O!CloseFd(p.ctx, d_fd[o]) ELSE p.ctx)
        /\ d_fd' = (IF failed \/ p.ev = NULL THEN v ELSE d_fd)
        /\ d_live' = (IF failed \/ p.ev = NULL THEN d_live \ {o} ELSE d_live)
    BY <1>1, <1>5, <1>7, D_Pop, D_Put, D_Close DEF D!read_cb
  <2>2. failed \in BOOLEAN
    OBVIOUS
  <2>. HIDE DEF failed
  <2>. QED BY <2>1, <2>2
<1>9. PICK failed \in BOOLEAN :
        /\ d_ev' = [d_ev EXCEPT ![o] = IF failed \/ p.ev = NULL THEN NULL ELSE p.ev]
        /\ d_ctx' = (IF failed THEN O!CloseFd(r, d_fd[o])
                     ELSE IF p.ev = NULL THEN O!CloseFd(p.ctx, d_fd[o]) ELSE p.ctx)
        /\ d_fd' = (IF failed \/ p.ev = NULL THEN v ELSE d_fd)
        /\ d_live' = (IF failed \/ p.ev = NULL THEN d_live \ {o} ELSE d_live)
  BY <1>8
<1>10. /\ peer' \in [Service -> {"quiet", "data", "eof"}] /\ UNCHANGED <<d_step, waiting, d_failed, pair>>
  <2>1. peer' = [peer EXCEPT ![o] = "quiet"] \/ peer' = peer
    BY DEF D!read_cb
  <2>. QED BY <2>1 DEF DInv, D!read_cb
<1>11. d_ev \in [Service -> Nat \union {NULL}] /\ Ups(d_ev, d_live, d_failed) /\ Boots(d_step, d_live)
  BY DEF DInv, Known
<1>12. Boots(d_step', d_live')
  <2>1. d_live # {} /\ d_live' \subseteq d_live \union Conn
    BY <1>4, <1>9
  <2>. QED BY <1>10, <1>11, <2>1, BootsOn
<1>13. CASE failed \/ p.ev = NULL
  <2>1. d_ev' = h /\ d_fd' = v /\ d_live' = d_live \ {o}
    BY <1>3, <1>9, <1>13
  <2>2. Served(d_ctx', v, d_live \ {o}) /\ Known(d_ctx', h)
    <3>1. CASE failed
      <4>1. d_ctx' = O!CloseFd(r, d_fd[o])
        BY <1>9, <3>1
      <4>2. O!CloseFd(r, d_fd[o]) = r /\ Served(r, v, d_live \ {o})
        BY <1>0, <1>4, <1>7, ReleaseProp
      <4>. QED BY <1>4, <4>1, <4>2
    <3>2. CASE ~failed
      <4>1. d_ctx' = O!CloseFd(p.ctx, d_fd[o]) /\ p.ev = NULL
        BY <1>9, <1>13, <3>2
      <4>2. Served(p.ctx, d_fd, d_live) /\ Free(p.ctx, o)
        BY <1>6, <4>1 DEF Rearmed
      <4>3. O!CloseFd(p.ctx, d_fd[o]) = p.ctx /\ Served(p.ctx, v, d_live \ {o})
        BY <1>0, <1>4, <1>7, <4>2, ReleaseProp
      <4>4. Known(p.ctx, [h EXCEPT ![o] = p.ev])
        BY <1>6 DEF Rearmed
      <4>5. [h EXCEPT ![o] = p.ev] = h
        BY <1>3, <1>11, <4>1
      <4>. QED BY <4>1, <4>3, <4>4, <4>5
    <3>. QED BY <3>1, <3>2
  <2>3. Ups(h, d_live \ {o}, d_failed)
    BY <1>0, <1>3, <1>11 DEF Ups, DInv, Served, DummyNames
  <2>4. Others(d_ctx', d_ctx, o)
    <3>1. d_ctx' = r \/ d_ctx' = p.ctx
      BY <1>0, <1>4, <1>6, <1>7, <1>9, <1>13, ReleaseProp DEF Rearmed
    <3>2. Others(r, d_ctx, o) /\ Others(p.ctx, r, o)
      BY <1>2, <1>6 DEF Entered, Rearmed
    <3>. QED BY <3>1, <3>2 DEF Others
  <2>5. Ticks(d_ctx', d_live', d_failed')
    BY <1>0, <1>10, <2>1, <2>4 DEF Others, Ticks, DInv
  <2>. QED BY <1>10, <1>12, <2>1, <2>2, <2>3, <2>5 DEF DInv
<1>14. CASE ~failed /\ p.ev # NULL
  <2>1. d_ev' = [d_ev EXCEPT ![o] = p.ev] /\ d_fd' = d_fd /\ d_live' = d_live /\ d_ctx' = p.ctx
    BY <1>9, <1>14
  <2>2. Served(p.ctx, d_fd, d_live) /\ Known(p.ctx, [h EXCEPT ![o] = p.ev])
    BY <1>6 DEF Rearmed
  <2>3. [h EXCEPT ![o] = p.ev] = d_ev'
    BY <1>3, <1>11, <2>1
  <2>4. Ups(d_ev', d_live, d_failed)
    BY <1>0, <1>11, <1>14, <2>1 DEF Ups, DInv, Served, DummyNames
  <2>5. Others(d_ctx', d_ctx, o)
    BY <1>2, <1>6, <2>1 DEF Entered, Rearmed, Others
  <2>6. Ticks(d_ctx', d_live', d_failed')
    BY <1>0, <1>10, <2>1, <2>5 DEF Others, Ticks, DInv
  <2>. QED BY <1>10, <1>12, <2>1, <2>2, <2>3, <2>4, <2>6 DEF DInv
<1>. QED BY <1>13, <1>14

(* mgmt1_accept_cb: with or without a new connection the listener registers *)
(* again.                                                                   *)
LEMMA AcceptStep ==
  ASSUME DummyNames, DInv, NEW o \in Conn, NEW sys \in BOOLEAN, NEW x, NEW y, D!mgmt1_accept_cb(o, sys, x, y)
  PROVE  DInv'
<1>0. o \in Service /\ o # "cycle" /\ o # "mgmt" /\ o \notin d_live /\ "mgmt" \in Service
  BY DEF D!mgmt1_accept_cb, DummyNames
<1>1. PICK r : r = O!PopReady(d_ctx)
  OBVIOUS
<1>2. Entered(r, d_fd, d_live, d_ev, "mgmt")
  <2>1. Enters(r, d_ctx, "mgmt")
    BY <1>1 DEF Enters, D!mgmt1_accept_cb, D!Called
  <2>. QED BY <2>1, CalledProp
<1>3. PICK h : h = [d_ev EXCEPT !["mgmt"] = NULL]
  OBVIOUS
<1>4. "mgmt" \in d_live /\ Served(r, d_fd, d_live) /\ Free(r, "mgmt") /\ Known(r, h)
  BY <1>2, <1>3 DEF Entered
<1>5. PICK f, p : f = D!Lowest(D!OpenFds) /\ p = O!aloe_ev_put(r, f, o, {"read"}, "inf", x)
  OBVIOUS
<1>6. PICK c, e : /\ c = (IF ~sys THEN r ELSE IF p.ev # NULL THEN p.ctx ELSE O!CloseFd(p.ctx, f))
                  /\ e = (IF sys THEN p.ev ELSE NULL)
  OBVIOUS
<1>7. PICK q : q = O!aloe_ev_put(c, d_fd["mgmt"], "mgmt", {"read"}, "inf", y)
  OBVIOUS
<1>8. /\ d_ctx' = q.ctx
      /\ d_ev' = [d_ev EXCEPT !["mgmt"] = q.ev, ![o] = e]
      /\ d_fd' = (IF e # NULL THEN [d_fd EXCEPT ![o] = f] ELSE d_fd)
      /\ d_live' = (IF e # NULL THEN d_live \union {o} ELSE d_live)
      /\ peer' \in {peer, [peer EXCEPT !["mgmt"] = "quiet"]} /\ UNCHANGED <<d_step, waiting, pair>>
      /\ d_failed' = (IF q.ev = NULL THEN d_failed \union {"mgmt"} ELSE d_failed)
  <2>. DEFINE cc == IF ~sys THEN r ELSE IF sys /\ p.ev # NULL THEN p.ctx ELSE O!CloseFd(p.ctx, f)
              qq == O!aloe_ev_put(cc, d_fd["mgmt"], "mgmt", {"read"}, "inf", y)
  <2>1. /\ d_ctx' = qq.ctx
        /\ d_ev' = [d_ev EXCEPT !["mgmt"] = qq.ev, ![o] = IF sys /\ p.ev # NULL THEN p.ev ELSE NULL]
        /\ d_fd' = (IF sys /\ p.ev # NULL THEN [d_fd EXCEPT ![o] = f] ELSE d_fd)
        /\ d_live' = (IF sys /\ p.ev # NULL THEN d_live \union {o} ELSE d_live)
        /\ peer' \in {peer, [peer EXCEPT !["mgmt"] = "quiet"]} /\ UNCHANGED <<d_step, waiting, pair>>
        /\ d_failed' = (IF qq.ev = NULL THEN d_failed \union {"mgmt"} ELSE d_failed)
    BY <1>1, <1>5, D_Pop, D_Put, D_Close DEF D!mgmt1_accept_cb
  <2>2. cc = c
    BY <1>6
  <2>3. qq = q
    BY <1>7, <2>2
  <2>4. e = (IF sys /\ p.ev # NULL THEN p.ev ELSE NULL) /\ (e # NULL <=> sys /\ p.ev # NULL)
    BY <1>6
  <2>. HIDE DEF cc, qq
  <2>. QED BY <2>1, <2>3, <2>4
<1>9. PICK g : g = [h EXCEPT ![o] = e]
  OBVIOUS
<1>10. d_ev \in [Service -> Nat \union {NULL}] /\ Ups(d_ev, d_live, d_failed) /\ Boots(d_step, d_live)
  BY DEF DInv, Known
<1>11. Served(c, d_fd', d_live') /\ Known(c, g) /\ Free(c, "mgmt") /\ (Free(c, "cycle") <=> Free(r, "cycle"))
  <2>1. CASE ~sys
    <3>1. c = r /\ e = NULL
      BY <1>6, <2>1
    <3>2. Known(r, g)
      <4>1. h \in [Service -> Nat \union {NULL}]
        BY <1>4 DEF Known
      <4>2. g \in [Service -> Nat \union {NULL}] /\ \A a \in Service : g[a] = h[a] \/ g[a] = NULL
        BY <1>9, <3>1, <4>1
      <4>. QED BY <1>4, <4>2, KnownLess
    <3>. QED BY <1>4, <1>8, <3>1, <3>2
  <2>2. CASE sys
    <3>1. f \in DummyFd /\ \A a \in d_live : d_fd[a] # f
      BY <1>5, <2>2, LowestFree DEF D!mgmt1_accept_cb
    <3>2. e = p.ev /\ c = (IF p.ev # NULL THEN p.ctx ELSE O!CloseFd(p.ctx, f))
      BY <1>6, <2>2
    <3>3. /\ d_fd' = (IF p.ev # NULL THEN [d_fd EXCEPT ![o] = f] ELSE d_fd)
          /\ d_live' = (IF p.ev # NULL THEN d_live \union {o} ELSE d_live)
      BY <1>8, <3>2
    <3>4. Served(c, d_fd', d_live') /\ Known(c, [h EXCEPT ![o] = p.ev]) /\ Others(c, r, o)
      BY <1>0, <1>4, <1>5, <3>1, <3>2, <3>3, StartProp, SMTT(40)
    <3>. QED BY <1>0, <1>4, <1>9, <3>2, <3>4 DEF Others
  <2>. QED BY <2>1, <2>2
<1>12. d_fd'["mgmt"] = d_fd["mgmt"] /\ "mgmt" \in d_live' /\ d_live' \subseteq d_live \union Conn
  BY <1>0, <1>4, <1>8 DEF DInv, Served
<1>13. Rearmed(q, c, d_fd', d_live', g, "mgmt")
  <2>1. Registers(q, c, d_fd', "mgmt", {"read"}, "inf", y)
    BY <1>7, <1>12 DEF Registers, IoFlag
  <2>. QED BY <1>11, <1>12, <2>1, RegisterProp
<1>14. [g EXCEPT !["mgmt"] = q.ev] = d_ev'
  BY <1>0, <1>3, <1>8, <1>9, <1>10
<1>15. Served(d_ctx', d_fd', d_live') /\ Known(d_ctx', d_ev')
  BY <1>8, <1>13, <1>14 DEF Rearmed
<1>16. Ups(d_ev', d_live', d_failed')
  BY <1>0, <1>8, <1>10 DEF Ups, DInv, Served, DummyNames
<1>19. Ticks(d_ctx', d_live', d_failed')
  <2>1. Free(d_ctx', "cycle") <=> Free(c, "cycle")
    BY <1>8, <1>13 DEF Rearmed, Others
  <2>2. Free(r, "cycle") <=> Free(d_ctx, "cycle")
    BY <1>2 DEF Entered, Others
  <2>3. "cycle" \in d_live' /\ "cycle" \notin d_failed' => "cycle" \in d_live /\ "cycle" \notin d_failed
    BY <1>0, <1>8
  <2>. QED BY <1>11, <2>1, <2>2, <2>3 DEF Ticks, DInv
<1>17. Boots(d_step', d_live')
  <2>1. d_live # {}
    BY <1>4
  <2>. QED BY <1>8, <1>10, <1>12, <2>1, BootsOn
<1>18. peer' \in [Service -> {"quiet", "data", "eof"}]
  BY <1>8 DEF DInv
<1>. QED BY <1>8, <1>15, <1>16, <1>17, <1>18, <1>19 DEF DInv

LEMMA DummyStep == ASSUME DummyNames, DInv, [D!Next]_(D!vars) PROVE DInv'
<1>1. CASE D!Boot
  <2>1. ASSUME NEW x, D!MainCycle(x) PROVE DInv'
    BY <2>1, MainStep
  <2>2. ASSUME NEW sys \in BOOLEAN, NEW x, D!mgmt1_init(sys, x) PROVE DInv'
    BY <2>2, ServiceStep DEF D!mgmt1_init, DInv
  <2>3. ASSUME NEW sys \in BOOLEAN, NEW x, D!cli1_init(sys, x) PROVE DInv'
    BY <2>3, ServiceStep DEF D!cli1_init, DInv
  <2>4. ASSUME NEW sys \in BOOLEAN, NEW x, D!ipc1_init(sys, x) PROVE DInv'
    <3>1. D!ServiceInit("ipc", "loop", sys, x)
      BY <2>4 DEF D!ipc1_init
    <3>2. pair' \in DFds
      <4>1. pair \in DFds /\ "ipc" \notin d_live
        BY <3>1 DEF DInv, Boots, D!ServiceInit
      <4>. QED BY <2>4, <4>1, PairFree
    <3>. QED BY <3>1, <3>2, ServiceStep
  <2>. QED BY <1>1, <2>1, <2>2, <2>3, <2>4 DEF D!Boot
<1>2. CASE D!Peers
  <2>1. PICK o \in Service, w \in {"data", "eof"} : D!PeerActs(o, w)
    BY <1>2 DEF D!Peers
  <2>. QED BY <2>1 DEF D!PeerActs, DInv
<1>3. CASE D!aloe_ev_once
  <2>1. PICK t, h : d_ctx' = D!Sweep(d_ctx, t, h)
    BY <1>3 DEF D!aloe_ev_once
  <2>2. /\ d_ctx' = O!Sweep(d_ctx, t, h) /\ waiting' = "call"
        /\ UNCHANGED <<d_step, d_fd, d_ev, d_live, peer, d_failed, pair>>
    BY <1>3, <2>1, D_Sweep DEF D!aloe_ev_once
  <2>3. Served(d_ctx, d_fd, d_live) /\ Known(d_ctx, d_ev) /\ CtxOK(d_ctx, DFds, Service)
    BY DEF DInv, Served
  <2>4. CtxOK(d_ctx', DFds, Service) /\ Swept(d_ctx', d_ctx)
    BY <2>2, <2>3, SweepProp
  <2>5. Served(d_ctx', d_fd, d_live) /\ Known(d_ctx', d_ev) /\ (Free(d_ctx', "cycle") <=> Free(d_ctx, "cycle"))
    BY <2>3, <2>4, ServedSwept
  <2>. QED BY <2>2, <2>5 DEF DInv, Ticks
<1>4. CASE D!OnceReturns
  BY <1>4 DEF D!OnceReturns, DInv
<1>5. CASE D!Callback
  <2>1. ASSUME NEW x, D!cycletime_cb(x) PROVE DInv'
    BY <2>1, CycleStep
  <2>2. ASSUME NEW io, NEW x, D!cli1_cb(io, x) PROVE DInv'
    BY <2>2, ReadStep DEF D!cli1_cb
  <2>3. ASSUME NEW o, NEW io, NEW x, D!mgmt1_client_cb(o, io, x) PROVE DInv'
    BY <2>3, ReadStep DEF D!mgmt1_client_cb
  <2>4. ASSUME NEW o \in Conn, NEW sys \in BOOLEAN, NEW x, NEW y, D!mgmt1_accept_cb(o, sys, x, y) PROVE DInv'
    BY <2>4, AcceptStep
  <2>. QED BY <1>5, <2>1, <2>2, <2>3, <2>4 DEF D!Callback
<1>6. CASE UNCHANGED D!vars
  BY <1>6 DEF D!vars, DInv
<1>. QED BY <1>1, <1>2, <1>3, <1>4, <1>5, <1>6 DEF D!Next

(* What the invariant says of the services.                                 *)
LEMMA DummyHolds == ASSUME DummyNames, DInv PROVE OnePerService
<1>1. PICK c : c = d_ctx
  OBVIOUS
<1>2. /\ Served(c, d_fd, d_live) /\ Known(c, d_ev) /\ CtxOK(c, DFds, Service)
      /\ Ups(d_ev, d_live, d_failed) /\ Ticks(c, d_live, d_failed)
  BY <1>1 DEF DInv, Served
<1>3. /\ DOMAIN c.grp = DFds /\ DOMAIN c.rec = 1..Len(c.rec) /\ c.grp \in [DFds -> Seq(Nat)]
      /\ c.fdq \in Seq(DFds)
  BY <1>2 DEF CtxOK, Context
<1>4. \A s : D!Elems(s) = Elems(s)
  BY D_Elems, SameElems
<1>5. PICK waits, held : /\ waits = UNION {D!Elems(d_ctx.grp[f]) : f \in D!FdOrTimer}
                         /\ held = waits \union D!Elems(d_ctx.ready)
  OBVIOUS
<1>6. \A i : i \in held <=> i \in Held(c)
  <2>0. \A i : i \in held <=> (\E f \in DFds : i \in Elems(c.grp[f])) \/ i \in Elems(c.ready)
    <3>1. D!FdOrTimer = DFds
      BY DEF D!FdOrTimer, DFds
    <3>2. \A i : i \in waits <=> \E f \in D!FdOrTimer : i \in D!Elems(d_ctx.grp[f])
      BY <1>5
    <3>3. \A i : i \in held <=> i \in waits \/ i \in D!Elems(d_ctx.ready)
      BY <1>5
    <3>. QED BY <1>1, <1>4, <3>1, <3>2, <3>3
  <2>1. ASSUME NEW i, NEW f \in DFds, i \in Elems(c.grp[f]) PROVE i \in Held(c)
    BY <1>2, <2>1, HeldIs
  <2>2. ASSUME NEW i, i \in Elems(c.ready) PROVE i \in Held(c)
    BY <1>2, <2>2, HeldIs
  <2>3. ASSUME NEW i \in Held(c), i \notin Elems(c.ready) PROVE \E f \in DFds : i \in Elems(c.grp[f])
    <3>1. Waits(c, i) /\ c.rec[i].fd \in DFds
      BY <1>2, <2>3, HeldIs
    <3>. QED BY <3>1 DEF Waits
  <2>. QED BY <2>0, <2>1, <2>2, <2>3
<1>7. ASSUME NEW o \in d_live \ d_failed, o # "cycle"
      PROVE  /\ d_ev[o] \in held /\ c.rec[d_ev[o]].owner = o
             /\ d_ev[o] \in D!Elems(c.ready) \/ "read" \in c.kern[d_fd[o]]
  <2>1. PICK i : i = d_ev[o]
    OBVIOUS
  <2>2. i \in Held(c) /\ c.rec[i].owner = o
    BY <1>2, <1>7, <2>1 DEF Known, Ups, Served
  <2>3. c.rec[i].fd = d_fd[o] /\ c.rec[i].wait = {"read"} /\ d_fd[o] \in DummyFd
    BY <1>2, <1>7, <2>2 DEF Served
  <2>4. ASSUME i \notin Elems(c.ready) PROVE "read" \in c.kern[d_fd[o]]
    <3>1. Waits(c, i)
      BY <1>2, <2>2, <2>4, HeldIs
    <3>2. i \in O!Elems(c.grp[d_fd[o]])
      BY <2>3, <3>1, SameElems DEF Waits
    <3>3. "read" \in O!Mask(c, d_fd[o])
      BY <2>3, <3>2 DEF O!Mask
    <3>4. d_fd[o] \in DFds \ {NoFd}
      BY <2>3 DEF DFds, DummyNames
    <3>. QED BY <1>2, <1>3, <3>3, <3>4 DEF CtxOK, Watching
  <2>. QED BY <1>4, <1>6, <2>1, <2>2, <2>4
<1>8. D!OnePerService
  <2>1. \A i \in held : c.rec[i].owner \in d_live /\ c.rec[i].fd = d_fd[c.rec[i].owner]
    BY <1>2, <1>6 DEF Served
  <2>2. \A i, j \in held : c.rec[i].owner = c.rec[j].owner => i = j
    BY <1>2, <1>6 DEF Served
  <2>3. held = (UNION {D!Elems(d_ctx.grp[f]) : f \in D!FdOrTimer}) \union D!Elems(d_ctx.ready)
    BY <1>5
  <2>4. ASSUME NEW o \in d_live \ d_failed
        PROVE  \E i \in held :
                 /\ d_ctx.rec[i].owner = o
                 /\ o # "cycle" => /\ d_ev[o] = i
                                   /\ i \in D!Elems(d_ctx.ready) \/ "read" \in d_ctx.kern[d_fd[o]]
    <3>1. CASE o = "cycle"
      <4>1. \E i \in Held(c) : c.rec[i].owner = "cycle"
        BY <1>2, <3>1 DEF Ticks, Free
      <4>. QED BY <1>1, <1>6, <3>1, <4>1
    <3>2. CASE o # "cycle"
      BY <1>1, <1>7, <3>2
    <3>. QED BY <3>1, <3>2
  <2>5. /\ \A i \in held : d_ctx.rec[i].owner \in d_live /\ d_ctx.rec[i].fd = d_fd[d_ctx.rec[i].owner]
        /\ \A i, j \in held : d_ctx.rec[i].owner = d_ctx.rec[j].owner => i = j
    BY <1>1, <2>1, <2>2
  <2>. QED BY <2>3, <2>4, <2>5, Zenon DEF D!OnePerService
<1>9. D!TypeOK
  <2>1. \A o \in Service : d_ev[o] \in DOMAIN c.rec \union {NULL}
    BY <1>2, <1>3 DEF Known, Held
  <2>2. D!Elems(c.fdq) \subseteq DFds
    BY <1>3, <1>4, ElemsType
  <2>3. D!NoDup(c.fdq)
    <3>1. NoDup(c.fdq)
      BY <1>2 DEF CtxOK, Linked
    <3>. QED BY <3>1 DEF NoDup, D!NoDup
  <2>4. /\ d_step \in {"cycle", "mgmt", "cli", "ipc", "loop", "exit"} /\ waiting \in {"poll", "call"}
        /\ peer \in [Service -> {"quiet", "data", "eof"}]
        /\ d_fd \in [Service -> DFds] /\ d_live \subseteq Service
        /\ d_failed \subseteq {"mgmt", "cycle"} /\ pair \in DFds
    BY DEF DInv, Served
  <2>. QED BY <1>1, <2>1, <2>2, <2>3, <2>4 DEF D!TypeOK, D!FdOrTimer, DFds
<1>. QED BY <1>8, <1>9 DEF OnePerService

(* dummy1, for any number of connections and any failures: a service that   *)
(* is up is registered once, on its own descriptor, and watched there, and  *)
(* nothing that was freed is registered; only a listener or a timer whose   *)
(* new registration was refused goes on without one.                        *)
THEOREM ServicesSafe == ASSUME DummyNames PROVE D!Spec => []OnePerService
<1>1. D!Init => DInv
  BY DummyInit
<1>2. DInv /\ [D!Next]_(D!vars) => DInv'
  BY DummyStep
<1>3. DInv => OnePerService
  BY DummyHolds
<1>. QED BY <1>1, <1>2, <1>3, PTL DEF D!Spec
=============================================================================

----------------------------- MODULE QentProofs -----------------------------
(***************************************************************************)
(* What the list operators of Qent return, for lists over any set S and    *)
(* any deadlines: they keep lists over S, link and unlink exactly the      *)
(* entry they are given, never duplicate an entry, and timer_insert keeps  *)
(* the deadlines ordered.                                                  *)
(***************************************************************************)
EXTENDS Qent, SequenceTheorems, WellFoundedInduction, TLAPS

(* A non-empty set of naturals has a least element: the walks of           *)
(* qent_remove and timer_insert stop at the first match.                   *)
LEMMA LeastNat ==
  ASSUME NEW T, T \subseteq Nat, T # {}
  PROVE  \E m \in T : \A n \in T : m <= n
<1>. DEFINE R == {ss \in Nat \X Nat : ss[1] < ss[2]}
<1>1. IsWellFoundedOn(R, Nat)
  BY NatLessThanWellFounded DEF OpToRel
<1>. HIDE DEF R
<1>2. PICK m \in T : \A y \in T : ~(<<y, m>> \in R)
  BY <1>1, WFMin
<1>3. \A y \in T : ~(y < m)
  BY <1>2 DEF R
<1>. QED BY <1>3

(* Induction over the naturals, as a fact about the set of numbers for     *)
(* which a formula holds.                                                  *)
LEMMA Induction ==
  ASSUME NEW T, 0 \in T, \A n \in Nat : n \in T => n + 1 \in T
  PROVE  \A n \in Nat : n \in T
<1>. SUFFICES ASSUME Nat \ T # {} PROVE FALSE
  OBVIOUS
<1>1. PICK m \in Nat \ T : \A k \in Nat \ T : m <= k
  BY LeastNat
<1>2. m - 1 \in Nat /\ ~(m <= m - 1) /\ (m - 1) + 1 = m
  BY <1>1
<1>3. m - 1 \in T
  BY <1>1, <1>2
<1>. QED BY <1>1, <1>2, <1>3

(* The walk of qent_remove stops at a position that holds e. *)
LEMMA FirstAtProp ==
  ASSUME NEW S, NEW s \in Seq(S), NEW e, qent_contains(s, e)
  PROVE  /\ FirstAt(s, e) \in 1..Len(s)
         /\ s[FirstAt(s, e)] = e
<1>. DEFINE T == {n \in 1..Len(s) : s[n] = e}
<1>1. T # {} /\ T \subseteq Nat
  BY DEF qent_contains
<1>2. PICK m \in T : \A n \in T : m <= n
  BY <1>1, LeastNat
<1>3. m \in 1..Len(s) /\ s[m] = e /\ \A j \in 1..(m-1) : s[j] # e
  BY <1>2
<1>. QED BY <1>3 DEF FirstAt

(* Membership by qent_contains is membership in the set of linked handles. *)
LEMMA ContainsElems ==
  ASSUME NEW s, NEW e
  PROVE  qent_contains(s, e) <=> e \in Elems(s)
BY DEF qent_contains, Elems

(* The entries of a list over S are members of S. *)
LEMMA ElemsType ==
  ASSUME NEW S, NEW s \in Seq(S)
  PROVE  /\ Elems(s) \subseteq S
         /\ s # <<>> => Elems(s) # {}
         /\ s = <<>> => Elems(s) = {}
<1>1. Len(s) \in Nat /\ \A i \in 1..Len(s) : s[i] \in S
  BY ElementOfSeq, LenProperties
<1>2. s # <<>> => Len(s) # 0
  BY EmptySeq
<1>3. s = <<>> => Len(s) = 0
  BY EmptySeq
<1>. QED BY <1>1, <1>2, <1>3 DEF Elems

(* qent_remove on a list without duplicates unlinks exactly e. *)
LEMMA RemoveProp ==
  ASSUME NEW S, NEW s \in Seq(S), NEW e, NoDup(s)
  PROVE  /\ qent_remove(s, e) \in Seq(S)
         /\ NoDup(qent_remove(s, e))
         /\ Elems(qent_remove(s, e)) = Elems(s) \ {e}
<1>. DEFINE r == qent_remove(s, e)
<1>1. CASE ~qent_contains(s, e)
  BY <1>1, ContainsElems DEF qent_remove
<1>2. CASE qent_contains(s, e)
  <2>. DEFINE k == FirstAt(s, e)
              n == Len(s) - 1
  <2>1. k \in 1..Len(s) /\ s[k] = e /\ Len(s) \in Nat
    BY <1>2, FirstAtProp, LenProperties
  <2>2. \A i \in 1..Len(s) : s[i] \in S
    BY ElementOfSeq
  <2>3. r = [j \in 1..n |-> IF j < k THEN s[j] ELSE s[j+1]]
    BY <1>2 DEF qent_remove
  <2>. HIDE DEF r, k
  <2>4. n \in Nat /\ \A j \in 1..n : r[j] = (IF j < k THEN s[j] ELSE s[j+1])
    BY <2>1, <2>3
  <2>5. r \in Seq(S) /\ Len(r) = n
    <3>1. \A j \in 1..n : r[j] \in S
      BY <2>1, <2>2, <2>4
    <3>2. r \in [1..n -> S]
      BY <2>3, <3>1
    <3>. QED BY <3>2, <2>4
  <2>6. NoDup(r)
    <3>1. SUFFICES ASSUME NEW i \in 1..n, NEW j \in 1..n, r[i] = r[j]
                   PROVE  i = j
      BY <2>5 DEF NoDup
    <3>. DEFINE f(x) == IF x < k THEN x ELSE x + 1
    <3>2. r[i] = s[f(i)] /\ r[j] = s[f(j)]
      BY <2>4
    <3>3. f(i) \in 1..Len(s) /\ f(j) \in 1..Len(s)
      BY <2>1
    <3>4. f(i) = f(j)
      BY <3>1, <3>2, <3>3 DEF NoDup
    <3>. QED BY <3>4, <2>1
  <2>7. Elems(r) = Elems(s) \ {e}
    <3>1. ASSUME NEW x \in Elems(r) PROVE x \in Elems(s) \ {e}
      <4>1. PICK j \in 1..n : x = r[j]
        BY <2>5 DEF Elems
      <4>. DEFINE i == IF j < k THEN j ELSE j + 1
      <4>2. i \in 1..Len(s) /\ i # k
        BY <2>1
      <4>3. x = s[i]
        BY <4>1, <2>4
      <4>. HIDE DEF i
      <4>4. x # e
        BY <4>2, <4>3, <2>1 DEF NoDup
      <4>. QED BY <4>2, <4>3, <4>4 DEF Elems
    <3>2. ASSUME NEW x \in Elems(s), x # e PROVE x \in Elems(r)
      <4>1. PICK i \in 1..Len(s) : x = s[i]
        BY DEF Elems
      <4>2. i # k
        BY <4>1, <2>1, <3>2
      <4>3. CASE i < k
        <5>1. i \in 1..n /\ r[i] = x
          BY <4>1, <4>3, <2>1, <2>4
        <5>. QED BY <5>1, <2>5 DEF Elems
      <4>4. CASE i > k
        <5>1. i-1 \in 1..n /\ r[i-1] = x
          BY <4>1, <4>4, <2>1, <2>4
        <5>. QED BY <5>1, <2>5 DEF Elems
      <4>. QED BY <4>2, <4>3, <4>4, <2>1
    <3>. QED BY <3>1, <3>2
  <2>. QED BY <2>5, <2>6, <2>7 DEF r
<1>. QED BY <1>1, <1>2

(* Unlinking an entry keeps the deadlines of the others in order. *)
LEMMA RemoveSorted ==
  ASSUME NEW S, NEW s \in Seq(S), NEW e, NEW at \in [S -> Int],
         SortedBy(s, at)
  PROVE  SortedBy(qent_remove(s, e), at)
<1>1. CASE ~qent_contains(s, e)
  BY <1>1 DEF qent_remove
<1>2. CASE qent_contains(s, e)
  <2>. DEFINE k == FirstAt(s, e)
              n == Len(s) - 1
              r == [j \in 1..n |-> IF j < k THEN s[j] ELSE s[j+1]]
  <2>1. k \in 1..Len(s) /\ Len(s) \in Nat
    BY <1>2, FirstAtProp, LenProperties
  <2>2. qent_remove(s, e) = r
    BY <1>2 DEF qent_remove
  <2>. HIDE DEF k
  <2>3. \A i \in 1..Len(s) : s[i] \in S
    BY ElementOfSeq
  <2>4. r \in Seq(S) /\ Len(r) = n
    <3>1. r \in [1..n -> S] /\ n \in Nat
      BY <2>1, <2>3
    <3>. QED BY <3>1
  <2>5. SortedBy(r, at)
    <3>1. SUFFICES ASSUME NEW i \in 1..n, NEW j \in 1..n, i < j
                   PROVE  at[r[i]] <= at[r[j]]
      BY <2>4 DEF SortedBy
    <3>. DEFINE f(x) == IF x < k THEN x ELSE x + 1
    <3>2. r[i] = s[f(i)] /\ r[j] = s[f(j)]
      BY <2>1
    <3>3. f(i) \in 1..Len(s) /\ f(j) \in 1..Len(s) /\ f(i) < f(j)
      BY <2>1, <3>1
    <3>. HIDE DEF r, f
    <3>. QED BY <3>2, <3>3 DEF SortedBy
  <2>. QED BY <2>2, <2>5
<1>. QED BY <1>1, <1>2

(* The walk of timer_insert stops somewhere on the list or at its end. *)
LEMMA InsertPosProp ==
  ASSUME NEW S, NEW s \in Seq(S), NEW at, NEW h
  PROVE  /\ InsertPos(s, at, h) \in 1..(Len(s) + 1)
         /\ \/ InsertPos(s, at, h) = Len(s) + 1
            \/ at[h] < at[s[InsertPos(s, at, h)]]
         /\ \A j \in 1..(InsertPos(s, at, h) - 1) : ~(at[h] < at[s[j]])
<1>. DEFINE T == {p \in 1..(Len(s) + 1) : p = Len(s) + 1 \/ at[h] < at[s[p]]}
<1>1. Len(s) \in Nat
  BY LenProperties
<1>2. Len(s) + 1 \in T /\ T \subseteq Nat
  BY <1>1
<1>3. PICK m \in T : \A n \in T : m <= n
  BY <1>2, LeastNat
<1>4. /\ m \in 1..(Len(s) + 1)
      /\ m = Len(s) + 1 \/ at[h] < at[s[m]]
      /\ \A j \in 1..(m-1) : ~(at[h] < at[s[j]])
  BY <1>1, <1>3
<1>. QED BY <1>4 DEF InsertPos

(* timer_insert links exactly h, once. *)
LEMMA InsertProp ==
  ASSUME NEW S, NEW s \in Seq(S), NEW at, NEW h \in S
  PROVE  /\ timer_insert(s, at, h) \in Seq(S)
         /\ Elems(timer_insert(s, at, h)) = Elems(s) \cup {h}
         /\ NoDup(s) /\ h \notin Elems(s) => NoDup(timer_insert(s, at, h))
<1>. DEFINE p == InsertPos(s, at, h)
            n == Len(s) + 1
            r == timer_insert(s, at, h)
<1>1. p \in 1..n /\ Len(s) \in Nat
  BY InsertPosProp, LenProperties
<1>2. \A i \in 1..Len(s) : s[i] \in S
  BY ElementOfSeq
<1>3. r = [j \in 1..n |-> IF j < p THEN s[j] ELSE IF j = p THEN h ELSE s[j-1]]
  BY DEF timer_insert
<1>. HIDE DEF p, r
<1>4. \A j \in 1..n : r[j] = IF j < p THEN s[j] ELSE IF j = p THEN h ELSE s[j-1]
  BY <1>3
<1>5. r \in Seq(S) /\ Len(r) = n
  <2>1. \A j \in 1..n : r[j] \in S
    BY <1>1, <1>2, <1>4
  <2>2. r \in [1..n -> S] /\ n \in Nat
    BY <1>1, <1>3, <2>1
  <2>. QED BY <2>2
<1>6. Elems(r) = Elems(s) \cup {h}
  <2>1. ASSUME NEW x \in Elems(r) PROVE x \in Elems(s) \cup {h}
    <3>1. PICK j \in 1..n : x = r[j]
      BY <1>5 DEF Elems
    <3>. QED BY <3>1, <1>1, <1>4 DEF Elems
  <2>2. ASSUME NEW x \in Elems(s) PROVE x \in Elems(r)
    <3>1. PICK i \in 1..Len(s) : x = s[i]
      BY DEF Elems
    <3>2. CASE i < p
      <4>1. i \in 1..n /\ r[i] = x
        BY <3>1, <3>2, <1>1, <1>4
      <4>. QED BY <4>1, <1>5 DEF Elems
    <3>3. CASE ~(i < p)
      <4>1. i+1 \in 1..n /\ r[i+1] = x
        BY <3>1, <3>3, <1>1, <1>4
      <4>. QED BY <4>1, <1>5 DEF Elems
    <3>. QED BY <3>2, <3>3
  <2>3. h \in Elems(r)
    <3>1. p \in 1..n /\ r[p] = h
      BY <1>1, <1>4
    <3>. QED BY <3>1, <1>5 DEF Elems
  <2>. QED BY <2>1, <2>2, <2>3
<1>7. ASSUME NoDup(s), h \notin Elems(s) PROVE NoDup(r)
  <2>1. SUFFICES ASSUME NEW i \in 1..n, NEW j \in 1..n, r[i] = r[j]
                 PROVE  i = j
    BY <1>5 DEF NoDup
  <2>. DEFINE f(x) == IF x < p THEN x ELSE x - 1
  <2>2. \A x \in 1..n : x # p => f(x) \in 1..Len(s) /\ r[x] = s[f(x)]
    BY <1>1, <1>4
  <2>3. \A x \in 1..n : x # p => r[x] # h
    BY <1>7, <2>2 DEF Elems
  <2>4. r[p] = h
    BY <1>1, <1>4
  <2>5. CASE i = p \/ j = p
    BY <2>1, <2>3, <2>4, <2>5
  <2>6. CASE i # p /\ j # p
    <3>1. f(i) = f(j)
      BY <1>7, <2>1, <2>2, <2>6 DEF NoDup
    <3>. QED BY <3>1, <2>6, <1>1
  <2>. QED BY <2>5, <2>6
<1>. QED BY <1>5, <1>6, <1>7 DEF r

(* timer_insert keeps the deadlines in order. *)
LEMMA InsertSorted ==
  ASSUME NEW S, NEW s \in Seq(S), NEW at \in [S -> Int], NEW h \in S,
         SortedBy(s, at)
  PROVE  SortedBy(timer_insert(s, at, h), at)
<1>. DEFINE p == InsertPos(s, at, h)
            n == Len(s) + 1
            r == timer_insert(s, at, h)
<1>1. /\ p \in 1..n /\ Len(s) \in Nat
      /\ p = n \/ at[h] < at[s[p]]
      /\ \A j \in 1..(p-1) : ~(at[h] < at[s[j]])
  BY InsertPosProp, LenProperties
<1>2. \A i \in 1..Len(s) : s[i] \in S /\ at[s[i]] \in Int
  BY ElementOfSeq
<1>3. r = [j \in 1..n |-> IF j < p THEN s[j] ELSE IF j = p THEN h ELSE s[j-1]]
  BY DEF timer_insert
<1>. HIDE DEF p
<1>4. Len(r) = n
  BY <1>1, <1>3, InsertProp
<1>5. SUFFICES ASSUME NEW i \in 1..n, NEW j \in 1..n, i < j
               PROVE  at[r[i]] <= at[r[j]]
  BY <1>4 DEF SortedBy
<1>. HIDE DEF r
<1>6. \A x \in 1..n : r[x] = IF x < p THEN s[x] ELSE IF x = p THEN h ELSE s[x-1]
  BY <1>3
<1>7. at[h] \in Int
  OBVIOUS
<1>0. \A x, y \in 1..Len(s) : x <= y => at[s[x]] <= at[s[y]]
  BY <1>1, <1>2 DEF SortedBy
<1>8. CASE i < p /\ j < p
  <2>1. i \in 1..Len(s) /\ j \in 1..Len(s) /\ r[i] = s[i] /\ r[j] = s[j]
    BY <1>1, <1>5, <1>6, <1>8
  <2>. QED BY <2>1, <1>5, <1>0
<1>9. CASE i < p /\ j = p
  BY <1>1, <1>2, <1>5, <1>6, <1>7, <1>9
<1>10. CASE i < p /\ j > p
  <2>1. i \in 1..Len(s) /\ j-1 \in 1..Len(s) /\ i <= j-1
    BY <1>1, <1>5, <1>10
  <2>2. r[i] = s[i] /\ r[j] = s[j-1]
    BY <1>1, <1>6, <1>10, SMTT(30)
  <2>. QED BY <2>1, <2>2, <1>0
<1>11. CASE i = p /\ j > p
  <2>1. p \in 1..Len(s) /\ j-1 \in 1..Len(s) /\ (p < j-1 \/ p = j-1)
    BY <1>1, <1>5, <1>11
  <2>2. r[i] = h /\ r[j] = s[j-1]
    BY <1>1, <1>6, <1>11
  <2>3. at[h] < at[s[p]]
    BY <2>1, <1>1
  <2>4. at[s[p]] <= at[s[j-1]]
    BY <2>1, <1>2 DEF SortedBy
  <2>. QED BY <2>1, <2>2, <2>3, <2>4, <1>2, <1>7
<1>12. CASE i > p /\ j > p
  <2>1. i-1 \in 1..Len(s) /\ j-1 \in 1..Len(s) /\ i-1 < j-1
    BY <1>1, <1>5, <1>12
  <2>2. r[i] = s[i-1] /\ r[j] = s[j-1]
    BY <1>1, <1>6, <1>12
  <2>. QED BY <2>1, <2>2 DEF SortedBy
<1>. QED BY <1>1, <1>5, <1>8, <1>9, <1>10, <1>11, <1>12

(* qent_insert_tail links exactly h, once. *)
LEMMA AppendProp ==
  ASSUME NEW S, NEW s \in Seq(S), NEW h \in S
  PROVE  /\ Append(s, h) \in Seq(S)
         /\ Elems(Append(s, h)) = Elems(s) \cup {h}
         /\ NoDup(s) /\ h \notin Elems(s) => NoDup(Append(s, h))
<1>1. /\ Len(s) \in Nat /\ Append(s, h) \in Seq(S)
      /\ Len(Append(s, h)) = Len(s) + 1
      /\ \A i \in 1..Len(s) : Append(s, h)[i] = s[i]
      /\ Append(s, h)[Len(s) + 1] = h
  BY AppendProperties, LenProperties
<1>2. Elems(Append(s, h)) = Elems(s) \cup {h}
  BY <1>1 DEF Elems
<1>3. NoDup(s) /\ h \notin Elems(s) => NoDup(Append(s, h))
  BY <1>1 DEF Elems, NoDup
<1>. QED BY <1>1, <1>2, <1>3

(* qent_pop unlinks exactly the head. *)
LEMMA PopProp ==
  ASSUME NEW S, NEW s \in Seq(S), s # <<>>, NoDup(s)
  PROVE  /\ Head(s) \in S /\ Head(s) \in Elems(s)
         /\ Tail(s) \in Seq(S)
         /\ NoDup(Tail(s))
         /\ Elems(Tail(s)) = Elems(s) \ {Head(s)}
<1>1. /\ Head(s) \in S /\ Head(s) = s[1] /\ Tail(s) \in Seq(S)
      /\ Len(s) \in Nat \ {0} /\ Len(Tail(s)) = Len(s) - 1
      /\ \A i \in 1..Len(Tail(s)) : Tail(s)[i] = s[i+1]
  BY HeadTailProperties, EmptySeq
<1>2. NoDup(Tail(s))
  BY <1>1 DEF NoDup
<1>3. Elems(Tail(s)) = Elems(s) \ {Head(s)}
  <2>1. ASSUME NEW x \in Elems(Tail(s)) PROVE x \in Elems(s) \ {Head(s)}
    BY <1>1 DEF Elems, NoDup
  <2>2. ASSUME NEW x \in Elems(s), x # Head(s) PROVE x \in Elems(Tail(s))
    <3>1. PICK i \in 1..Len(s) : x = s[i]
      BY DEF Elems
    <3>2. i # 1 /\ i-1 \in 1..Len(Tail(s)) /\ Tail(s)[i-1] = x
      BY <3>1, <2>2, <1>1
    <3>. QED BY <3>2 DEF Elems
  <2>. QED BY <2>1, <2>2
<1>4. Head(s) \in Elems(s)
  <2>1. 1 \in 1..Len(s)
    BY <1>1
  <2>. QED BY <2>1, <1>1 DEF Elems
<1>. QED BY <1>1, <1>2, <1>3, <1>4
=============================================================================

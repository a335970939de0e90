---------------------------- MODULE PickingProofs ----------------------------
(***************************************************************************)
(* What Picked and SetToSeq give, for any sequence and any finite set.     *)
(***************************************************************************)
EXTENDS Picking, SequencesExt, FiniteSetTheorems, FunctionTheorems, TLAPS

\* The i-th of n places is the only one with i places up to it.
LEMMA Ranks ==
  ASSUME NEW P, P \subseteq Nat, IsFiniteSet(P), NEW j \in 1 .. Cardinality(P)
  PROVE  \E i \in P : Cardinality({h \in P : h <= i}) = j
<1> DEFINE upTo(i) == {h \in P : h <= i}
           n == Cardinality(P)
           rank == [i \in P |-> Cardinality(upTo(i))]
<1>1. n \in Nat /\ Cardinality(1 .. n) = n /\ IsFiniteSet(1 .. n)
  <2>1. n \in Nat
    BY FS_CardinalityType
  <2> QED
    BY <2>1, FS_Interval
<1>2. \A i \in P : IsFiniteSet(upTo(i)) /\ Cardinality(upTo(i)) \in 1 .. n
  <2> SUFFICES ASSUME NEW i \in P
               PROVE  IsFiniteSet(upTo(i)) /\ Cardinality(upTo(i)) \in 1 .. n
    OBVIOUS
  <2>1. upTo(i) \in SUBSET P /\ i \in upTo(i)
    OBVIOUS
  <2>2. IsFiniteSet(upTo(i)) /\ Cardinality(upTo(i)) <= n
    BY <2>1, FS_Subset
  <2>3. Cardinality(upTo(i)) \in Nat /\ Cardinality(upTo(i)) # 0
    BY <2>1, <2>2, FS_CardinalityType, FS_EmptySet
  <2> HIDE DEF upTo, n
  <2> QED
    BY <1>1, <2>2, <2>3
<1>3. ASSUME NEW i \in P, NEW k \in P, i < k
      PROVE  Cardinality(upTo(i)) # Cardinality(upTo(k))
  <2>1. i \in Nat /\ k \in Nat /\ \A h \in Nat : h <= i => h <= k
    BY <1>3
  <2>2. k \in upTo(k) /\ k \notin upTo(i)
    BY <1>3, <2>1
  <2>3. \A h \in upTo(i) : h \in upTo(k)
    BY <2>1
  <2> HIDE DEF upTo
  <2> QED
    BY <1>2, <2>2, <2>3, FS_Subset
<1>4. rank \in Injection(P, 1 .. n)
  <2>1. rank \in [P -> 1 .. n]
    BY <1>2
  <2>2. \A i, k \in P : rank[i] = rank[k] => i = k
    <3> SUFFICES ASSUME NEW i \in P, NEW k \in P, i # k PROVE rank[i] # rank[k]
      OBVIOUS
    <3>1. i < k \/ k < i
      OBVIOUS
    <3> QED
      BY <1>3, <3>1
  <2> HIDE DEF rank
  <2> QED
    BY <2>1, <2>2, Fun_IsInj
<1>5. rank \in Surjection(P, 1 .. n)
  BY <1>1, <1>4, FS_Injection
<1>6. \E i \in P : rank[i] = j
  <2> HIDE DEF rank
  <2>1. \A t \in 1 .. n : \E i \in P : rank[i] = t
    BY <1>5, Fun_SurjectionProperties
  <2> QED
    BY <2>1
<1> QED
  BY <1>6

\* What is picked comes from its places, from each of them, once.
LEMMA PickedFrom ==
  ASSUME NEW T, NEW s \in Seq(T), NEW P \in SUBSET DOMAIN s
  PROVE  /\ IsFiniteSet(P) /\ Picked(s, P) \in Seq(T) /\ Len(Picked(s, P)) = Cardinality(P)
         /\ \E f \in Bijection(1 .. Cardinality(P), P) :
              \A j \in 1 .. Cardinality(P) : Picked(s, P)[j] = s[f[j]]
<1> DEFINE n == Cardinality(P)
           at(j) == CHOOSE i \in P : Cardinality({h \in P : h <= i}) = j
           f == [j \in 1 .. n |-> at(j)]
<1>1. P \subseteq Nat /\ IsFiniteSet(P)
  <2>1. Len(s) \in Nat /\ DOMAIN s = 1 .. Len(s)
    OBVIOUS
  <2>2. IsFiniteSet(1 .. Len(s))
    BY <2>1, FS_Interval
  <2> QED
    BY <2>1, <2>2, FS_Subset
<1>2. n \in Nat /\ Cardinality(1 .. n) = n /\ IsFiniteSet(1 .. n)
  <2>1. n \in Nat
    BY <1>1, FS_CardinalityType
  <2> QED
    BY <2>1, FS_Interval
<1>3. \A j \in 1 .. n : at(j) \in P /\ Cardinality({h \in P : h <= at(j)}) = j
  <2> SUFFICES ASSUME NEW j \in 1 .. n
               PROVE  at(j) \in P /\ Cardinality({h \in P : h <= at(j)}) = j
    OBVIOUS
  <2>1. \E i \in P : Cardinality({h \in P : h <= i}) = j
    BY <1>1, Ranks
  <2> QED
    BY <2>1, Zenon
<1> HIDE DEF at, n
<1>4. f \in [1 .. n -> P] /\ \A i, j \in 1 .. n : f[i] = f[j] => i = j
  BY <1>3
<1>5. f \in Injection(1 .. n, P)
  BY <1>4, Fun_IsInj
<1>6. f \in Surjection(1 .. n, P)
  BY <1>1, <1>2, <1>5, FS_Injection DEF n
<1>7. f \in Bijection(1 .. n, P)
  BY <1>5, <1>6, Fun_IsBij
<1>8. Picked(s, P) = [j \in 1 .. n |-> s[f[j]]]
  BY DEF Picked, at, n
<1>9. \A i \in P : s[i] \in T
  OBVIOUS
<1>10. Picked(s, P) \in [1 .. n -> T]
  BY <1>4, <1>8, <1>9
<1>11. Picked(s, P) \in Seq(T) /\ Len(Picked(s, P)) = n
  BY <1>2, <1>10
<1> QED
  BY <1>1, <1>7, <1>8, <1>11 DEF n

\* The elements of what is picked.
LEMMA PickedElements ==
  ASSUME NEW T, NEW s \in Seq(T), NEW P \in SUBSET DOMAIN s
  PROVE  /\ ToSet(Picked(s, P)) = {s[i] : i \in P}
         /\ Len(Picked(s, P)) <= Len(s)
         /\ (\A i, j \in P : s[i] = s[j] => i = j) => IsInjective(Picked(s, P))
<1> DEFINE n == Cardinality(P)
           q == Picked(s, P)
<1>1. PICK f \in Bijection(1 .. n, P) : \A j \in 1 .. n : q[j] = s[f[j]]
  BY PickedFrom
<1> HIDE DEF n, q
<1>2. /\ f \in [1 .. n -> P] /\ \A i \in P : \E j \in 1 .. n : f[j] = i
      /\ \A i, j \in 1 .. n : f[i] = f[j] => i = j
  <2>1. f \in Bijection(1 .. n, P)
    BY <1>1
  <2>2. f \in [1 .. n -> P]
    BY <2>1, Fun_BijectionProperties
  <2>3. \A i \in P : \E j \in 1 .. n : f[j] = i
    <3>1. f \in Surjection(1 .. n, P)
      BY <2>1, Fun_BijectionProperties
    <3> QED
      BY <3>1 DEF Surjection
  <2>4. \A i, j \in 1 .. n : f[i] = f[j] => i = j
    BY <2>1, Fun_BijectionProperties
  <2> QED
    BY <2>2, <2>3, <2>4
<1>3. DOMAIN q = 1 .. n
  BY DEF Picked, n, q
<1>4. n <= Len(s)
  <2>1. Len(s) \in Nat /\ DOMAIN s = 1 .. Len(s)
    OBVIOUS
  <2>2. IsFiniteSet(1 .. Len(s)) /\ Cardinality(1 .. Len(s)) = Len(s)
    <3>1. 1 \in Int /\ Len(s) \in Int /\ (1 > Len(s) => Len(s) = 0)
      BY <2>1
    <3>2. Cardinality(1 .. Len(s)) = IF 1 > Len(s) THEN 0 ELSE Len(s) - 1 + 1
      BY <3>1, FS_Interval
    <3> QED
      BY <2>1, <3>1, <3>2, FS_Interval
  <2> QED
    BY <2>1, <2>2, FS_Subset DEF n
<1>5. Len(q) = n
  BY PickedFrom DEF n, q
<1>6. ToSet(q) = {s[i] : i \in P}
  BY <1>1, <1>2, <1>3 DEF ToSet
<1>7. (\A i, j \in P : s[i] = s[j] => i = j) => IsInjective(q)
  BY <1>1, <1>2, <1>3 DEF IsInjective
<1> QED
  BY <1>4, <1>5, <1>6, <1>7 DEF q, n

LEMMA IntervalSize ==
  ASSUME NEW m \in Nat, NEW n \in Nat, m <= n
  PROVE  IsFiniteSet((m + 1) .. n) /\ Cardinality((m + 1) .. n) = n - m
<1> DEFINE l == m + 1
<1>1. l \in Int /\ n \in Int /\ n - l + 1 = n - m /\ (l > n => n - m = 0)
  OBVIOUS
<1> HIDE DEF l
<1>2. IsFiniteSet(l .. n) /\ Cardinality(l .. n) = IF l > n THEN 0 ELSE n - l + 1
  BY <1>1, FS_Interval
<1>3. IsFiniteSet(l .. n) /\ Cardinality(l .. n) = n - m
  BY <1>1, <1>2
<1> QED
  BY <1>3 DEF l

\* What is picked keeps its order: behind each place there are at least as
\* many as behind the place in what was picked.
LEMMA PickedPlaces ==
  ASSUME NEW T, NEW s \in Seq(T), NEW P \in SUBSET DOMAIN s, NEW j \in 1 .. Cardinality(P)
  PROVE  \E i \in P : Picked(s, P)[j] = s[i] /\ Cardinality(P) - j <= Len(s) - i
<1> DEFINE n == Cardinality(P)
           upTo(i) == {h \in P : h <= i}
           at == CHOOSE i \in P : Cardinality(upTo(i)) = j
<1>1. Len(s) \in Nat /\ DOMAIN s = 1 .. Len(s) /\ P \subseteq 1 .. Len(s)
  OBVIOUS
<1>2. IsFiniteSet(P) /\ n \in Nat
  BY PickedFrom, FS_CardinalityType
<1>3. at \in P /\ Cardinality(upTo(at)) = j
  <2>1. P \subseteq Nat
    BY <1>1
  <2>2. \E i \in P : Cardinality({h \in P : h <= i}) = j
    BY <1>2, <2>1, Ranks
  <2> QED
    BY <2>2, Zenon
<1>4. Picked(s, P)[j] = s[at]
  BY DEF Picked
<1> HIDE DEF at
<1>5. at \in 1 .. Len(s)
  BY <1>1, <1>3
<1> DEFINE rest == (at + 1) .. Len(s)
<1>6. IsFiniteSet(rest) /\ Cardinality(rest) = Len(s) - at
  BY <1>1, <1>5, IntervalSize
<1>7. P \subseteq upTo(at) \cup rest
  BY <1>1, <1>5
<1>8. IsFiniteSet(upTo(at))
  BY <1>2, FS_Subset
<1> HIDE DEF upTo, rest
<1>9. /\ IsFiniteSet(upTo(at) \cup rest)
      /\ Cardinality(upTo(at) \cup rest) =
           Cardinality(upTo(at)) + Cardinality(rest) - Cardinality(upTo(at) \cap rest)
  BY <1>6, <1>8, FS_Union
<1>10. /\ Cardinality(upTo(at) \cap rest) \in Nat
       /\ Cardinality(P) <= Cardinality(upTo(at) \cup rest)
  BY <1>6, <1>7, <1>8, <1>9, FS_Subset, FS_Intersection, FS_CardinalityType
<1>11. n <= j + (Len(s) - at)
  BY <1>1, <1>2, <1>3, <1>5, <1>6, <1>9, <1>10
<1> QED
  BY <1>1, <1>2, <1>3, <1>4, <1>5, <1>11

\* SetToSeq lists the members of a finite set, each once.
LEMMA Listed ==
  ASSUME NEW S, IsFiniteSet(S)
  PROVE  /\ SetToSeq(S) \in Seq(S) /\ Len(SetToSeq(S)) = Cardinality(S)
         /\ IsInjective(SetToSeq(S)) /\ ToSet(SetToSeq(S)) = S
<1> DEFINE n == Cardinality(S)
<1>1. n \in Nat /\ ExistsBijection(1 .. n, S)
  BY FS_CardinalityType
<1>2. PICK f : f \in Bijection(1 .. n, S)
  BY <1>1, Fun_ExistsBij
<1>3. f \in [1 .. n -> S] /\ IsInjective(f)
  <2>1. f \in [1 .. n -> S] /\ \A i, j \in 1 .. n : f[i] = f[j] => i = j
    BY <1>2, Fun_BijectionProperties
  <2> QED
    BY <2>1 DEF IsInjective
<1>4. SetToSeq(S) \in [1 .. n -> S] /\ IsInjective(SetToSeq(S))
  BY <1>3 DEF SetToSeq
<1>5. ToSet(SetToSeq(S)) = S
  <2> DEFINE q == SetToSeq(S)
  <2>1. IsFiniteSet(1 .. n) /\ Cardinality(1 .. n) = n
    BY <1>1, FS_Interval
  <2>2. q \in Injection(1 .. n, S)
    BY <1>4, Fun_IsInj DEF IsInjective
  <2>3. q \in Surjection(1 .. n, S)
    BY <2>1, <2>2, FS_Injection
  <2> HIDE DEF q, n
  <2>4. q \in [1 .. n -> S] /\ \A t \in S : \E j \in 1 .. n : q[j] = t
    BY <2>3 DEF Surjection
  <2>5. ToSet(q) = S
    BY <2>4 DEF ToSet
  <2> QED
    BY <2>5 DEF q
<1> QED
  BY <1>1, <1>4, <1>5
=============================================================================

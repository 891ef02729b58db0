---------------------------- MODULE SequenceFacts ----------------------------
(***************************************************************************)
(* Facts about finite sequences that the proofs of this project share, and *)
(* the one operator on sequences they need of their own.                   *)
(***************************************************************************)
EXTENDS Subsequences, FiniteSets, FiniteSetTheorems, SequenceTheorems,
        WellFoundedInduction, FunctionTheorems, TLAPS

(* Every set of naturals has a least element: induction, for a property     *)
(* given as the set of numbers that have it.                                *)
LEMMA LeastNumber ==
  ASSUME NEW T, T \subseteq Nat, T # {}
  PROVE  \E n \in T : \A m \in T : n <= m
  <1>1. PICK n \in T : \A m \in T : ~ (<<m, n>> \in OpToRel(<, Nat))
    BY NatLessThanWellFounded, WFMin
  <1>2. ASSUME NEW m \in T PROVE n <= m
    <2>1. m \in Nat /\ n \in Nat
      OBVIOUS
    <2>2. ~(m < n)
      BY <1>1, <2>1 DEF OpToRel
    <2> QED BY <2>1, <2>2
  <1> QED BY <1>2

LEMMA InductionOnSets ==
  ASSUME NEW T, 0 \in T, \A n \in Nat : n \in T => n + 1 \in T
  PROVE  \A n \in Nat : n \in T
  <1> SUFFICES ASSUME Nat \ T # {} PROVE FALSE
    OBVIOUS
  <1>1. PICK n \in Nat \ T : \A m \in Nat \ T : n <= m
    <2> Nat \ T \subseteq Nat
      OBVIOUS
    <2> QED BY LeastNumber
  <1>2. n # 0 /\ n - 1 \in Nat /\ n = (n - 1) + 1
    BY <1>1
  <1>3. n - 1 \in T
    BY <1>1, <1>2
  <1> QED BY <1>1, <1>2, <1>3

----------------------------------------------------------------------------
(* Where the elements of a set stand in a sequence, and how many they are.   *)
Places(s, T) == {k \in DOMAIN s : s[k] \in T}
Count(s, T) == Cardinality(Places(s, T))

LEMMA PlacesFinite ==
  ASSUME NEW S, NEW s \in Seq(S), NEW T
  PROVE  IsFiniteSet(Places(s, T)) /\ Count(s, T) \in Nat
  <1>1. Len(s) \in Nat /\ DOMAIN s = 1..Len(s)
    BY LenProperties
  <1>. IsFiniteSet(1..Len(s))
    BY <1>1, FS_Interval
  <1>2. IsFiniteSet(Places(s, T))
    BY <1>1, FS_Subset DEF Places
  <1> QED BY <1>2, FS_CardinalityType DEF Count

LEMMA CountEmpty == \A T : Count(<<>>, T) = 0
  BY FS_EmptySet DEF Count, Places

LEMMA CountNone ==
  ASSUME NEW S, NEW s \in Seq(S), NEW T
  PROVE  Count(s, T) = 0 <=> \A k \in DOMAIN s : s[k] \notin T
  <1>1. Count(s, T) = 0 <=> Places(s, T) = {}
    BY PlacesFinite, FS_EmptySet DEF Count
  <1> QED BY <1>1 DEF Places

LEMMA CountAppend ==
  ASSUME NEW S, NEW s \in Seq(S), NEW e \in S, NEW T
  PROVE  Count(Append(s, e), T) = Count(s, T) + (IF e \in T THEN 1 ELSE 0)
  <1> DEFINE n == Len(s) + 1
  <1>1. /\ DOMAIN s = 1..Len(s) /\ DOMAIN Append(s, e) = 1..n /\ Len(s) \in Nat
        /\ Append(s, e)[n] = e /\ \A k \in 1..Len(s) : Append(s, e)[k] = s[k]
    BY LenProperties, AppendProperties
  <1>2. CASE e \in T
    <2>1. Places(Append(s, e), T) = Places(s, T) \cup {n} /\ n \notin Places(s, T)
      BY <1>1, <1>2 DEF Places
    <2> QED BY <2>1, <1>2, PlacesFinite, FS_AddElement DEF Count
  <1>3. CASE e \notin T
    <2>1. Places(Append(s, e), T) = Places(s, T)
      BY <1>1, <1>3 DEF Places
    <2> QED BY <2>1, <1>3, PlacesFinite DEF Count
  <1> QED BY <1>2, <1>3

LEMMA CountTail ==
  ASSUME NEW S, NEW s \in Seq(S), s # <<>>, NEW T
  PROVE  Count(s, T) = Count(Tail(s), T) + (IF Head(s) \in T THEN 1 ELSE 0)
  <1> DEFINE later == Places(s, T) \ {1}
             f == [k \in later |-> k - 1]
  <1>1. /\ DOMAIN s = 1..Len(s) /\ Len(s) \in Nat \ {0} /\ Head(s) = s[1]
        /\ DOMAIN Tail(s) = 1..(Len(s) - 1) /\ \A k \in 1..(Len(s) - 1) : Tail(s)[k] = s[k + 1]
    BY LenProperties, HeadTailProperties, EmptySeq
  <1>2. f \in Bijection(later, Places(Tail(s), T))
    <2>1. f \in [later -> Places(Tail(s), T)]
      BY <1>1 DEF Places
    <2>2. \A a, b \in later : f[a] = f[b] => a = b
      BY <1>1 DEF Places
    <2>3. \A k \in Places(Tail(s), T) : k + 1 \in later /\ f[k + 1] = k
      BY <1>1 DEF Places
    <2> QED BY <2>1, <2>2, <2>3, Fun_IsBij
  <1>3. IsFiniteSet(later) /\ Cardinality(later) = Count(s, T) - (IF Head(s) \in T THEN 1 ELSE 0)
    <2>1. 1 \in Places(s, T) <=> Head(s) \in T
      BY <1>1 DEF Places
    <2> QED BY <2>1, PlacesFinite, FS_RemoveElement DEF Count
  <1>4. Count(Tail(s), T) = Cardinality(later)
    BY <1>2, <1>3, FS_Bijection DEF ExistsBijection, Count
  <1> QED BY <1>3, <1>4, PlacesFinite

LEMMA CountConcat ==
  ASSUME NEW S, NEW s \in Seq(S), NEW t \in Seq(S), NEW T
  PROVE  Count(s \o t, T) = Count(s, T) + Count(t, T)
  <1> DEFINE n == Len(s)
             late == {k \in Places(s \o t, T) : n < k}
             f == [k \in Places(t, T) |-> k + n]
  <1>1. /\ n \in Nat /\ Len(t) \in Nat /\ DOMAIN s = 1..n /\ DOMAIN t = 1..Len(t)
        /\ DOMAIN (s \o t) = 1..(n + Len(t))
        /\ \A k \in 1..(n + Len(t)) : (s \o t)[k] = IF k <= n THEN s[k] ELSE t[k - n]
    <2>1. s \o t \in Seq(S) /\ Len(s \o t) = n + Len(t)
      BY ConcatProperties
    <2> QED BY <2>1, LenProperties, ConcatProperties
  <1> HIDE DEF n
  <1>2. Places(s \o t, T) = Places(s, T) \union late /\ Places(s, T) \intersect late = {}
    BY <1>1 DEF Places
  <1>3. f \in Bijection(Places(t, T), late)
    <2>1. \A k \in Places(t, T) : k \in 1..Len(t) /\ k + n \in late
      <3> SUFFICES ASSUME NEW k \in 1..Len(t), t[k] \in T PROVE k + n \in late
        BY <1>1 DEF Places
      <3>1. k + n \in 1..(n + Len(t)) /\ ~(k + n <= n) /\ (k + n) - n = k
        BY <1>1
      <3>2. (s \o t)[k + n] = t[k]
        BY <1>1, <3>1
      <3> QED BY <1>1, <3>1, <3>2 DEF Places
    <2>2. f \in [Places(t, T) -> late]
      BY <2>1
    <2>3. \A a, b \in Places(t, T) : f[a] = f[b] => a = b
      BY <1>1, <2>1
    <2>4. \A k \in late : k - n \in Places(t, T) /\ f[k - n] = k
      <3> SUFFICES ASSUME NEW k \in 1..(n + Len(t)), n < k, (s \o t)[k] \in T
                   PROVE  k - n \in Places(t, T) /\ f[k - n] = k
        BY <1>1 DEF Places
      <3>1. k - n \in 1..Len(t) /\ ~(k <= n) /\ (k - n) + n = k
        BY <1>1
      <3>2. t[k - n] \in T
        BY <1>1, <3>1
      <3> QED BY <1>1, <3>1, <3>2 DEF Places
    <2> QED BY <2>2, <2>3, <2>4, Fun_IsBij
  <1>4. IsFiniteSet(late) /\ Cardinality(late) = Count(t, T)
    BY <1>3, PlacesFinite, FS_Bijection DEF ExistsBijection, Count
  <1>5. /\ IsFiniteSet(Places(s, T)) /\ Count(s, T) \in Nat /\ Count(t, T) \in Nat
        /\ Cardinality(Places(s, T) \intersect late) = 0
    BY <1>2, PlacesFinite, FS_EmptySet
  <1> HIDE DEF late
  <1>6. Cardinality(Places(s \o t, T)) = Cardinality(Places(s, T)) + Cardinality(late) - 0
    BY <1>2, <1>4, <1>5, FS_Union
  <1> QED BY <1>4, <1>5, <1>6 DEF Count

LEMMA CountSingle ==
  ASSUME NEW s, NEW T, NEW n \in DOMAIN s, \A k \in DOMAIN s : s[k] \in T <=> k = n
  PROVE  Count(s, T) = 1
  <1>1. Places(s, T) = {n}
    BY DEF Places
  <1> QED BY <1>1, FS_Singleton DEF Count

----------------------------------------------------------------------------
(* What Only keeps of the first n elements, as the recursion defines it.     *)
IsUpto(f, s, T, n) ==
  f = [k \in 0..n |-> IF k = 0 THEN <<>>
                      ELSE IF s[k] \in T THEN Append(f[k - 1], s[k]) ELSE f[k - 1]]

LEMMA UptoExists ==
  ASSUME NEW s, NEW T
  PROVE  \A n \in Nat : \E f : IsUpto(f, s, T, n)
  <1> DEFINE P == {n \in Nat : \E f : IsUpto(f, s, T, n)}
  <1>1. 0 \in P
    <2>1. IsUpto([k \in 0..0 |-> <<>>], s, T, 0)
      BY DEF IsUpto
    <2> QED BY <2>1
  <1>2. ASSUME NEW n \in Nat, n \in P PROVE n + 1 \in P
    <2>1. PICK f : IsUpto(f, s, T, n)
      BY <1>2
    <2> DEFINE last == IF s[n + 1] \in T THEN Append(f[n], s[n + 1]) ELSE f[n]
               g == [k \in 0..(n + 1) |-> IF k = n + 1 THEN last ELSE f[k]]
               h == [k \in 0..(n + 1) |-> IF k = 0 THEN <<>>
                       ELSE IF s[k] \in T THEN Append(g[k - 1], s[k]) ELSE g[k - 1]]
    <2>2. ASSUME NEW k \in 0..(n + 1) PROVE g[k] = h[k]
      <3>1. CASE k = n + 1
        BY <3>1
      <3>2. CASE k \in 0..n
        <4>1. f[k] = IF k = 0 THEN <<>>
                     ELSE IF s[k] \in T THEN Append(f[k - 1], s[k]) ELSE f[k - 1]
          BY <2>1, <3>2 DEF IsUpto
        <4>2. g[k] = f[k] /\ (k # 0 => g[k - 1] = f[k - 1])
          BY <3>2
        <4> QED BY <4>1, <4>2
      <3> QED BY <3>1, <3>2
    <2>3. g = h
      BY <2>2
    <2>4. IsUpto(g, s, T, n + 1)
      BY <2>3 DEF IsUpto
    <2> QED BY <2>4
  <1> HIDE DEF P
  <1>3. \A n \in Nat : n \in P
    BY <1>1, <1>2, InductionOnSets
  <1> QED BY <1>3 DEF P

LEMMA UptoStep ==
  ASSUME NEW f, NEW s, NEW T, NEW n \in Nat, IsUpto(f, s, T, n), NEW k \in 0..n
  PROVE  f[k] = IF k = 0 THEN <<>>
                ELSE IF s[k] \in T THEN Append(f[k - 1], s[k]) ELSE f[k - 1]
  BY DEF IsUpto

(* A sequence q that holds the elements of s in T, where they stand in s in  *)
(* that order.                                                              *)
Picks(q, s, T, n) ==
  \E p \in [1..Len(q) -> 1..n] :
    /\ \A i \in 1..Len(q) : q[i] = s[p[i]] /\ s[p[i]] \in T
    /\ \A i, j \in 1..Len(q) : i < j => p[i] < p[j]
    /\ \A k \in 1..n : s[k] \in T => \E i \in 1..Len(q) : p[i] = k

LEMMA OnlyPicks ==
  ASSUME NEW S, NEW s \in Seq(S), NEW T
  PROVE  Only(s, T) \in Seq(S) /\ Picks(Only(s, T), s, T, Len(s))
  <1> DEFINE f == CHOOSE g : IsUpto(g, s, T, Len(s))
             P == {n \in Nat : n <= Len(s) => f[n] \in Seq(S) /\ Picks(f[n], s, T, n)}
  <1>1. Len(s) \in Nat /\ DOMAIN s = 1..Len(s) /\ \A k \in 1..Len(s) : s[k] \in S
    BY LenProperties
  <1>2. IsUpto(f, s, T, Len(s))
    BY <1>1, UptoExists
  <1>3. Only(s, T) = f[Len(s)]
    BY DEF Only, IsUpto
  <1> HIDE DEF f
  <1>4. 0 \in P
    <2>1. f[0] = <<>>
      BY <1>1, <1>2, UptoStep
    <2>2. [i \in {} |-> 0] \in [1..Len(<<>>) -> 1..0]
      OBVIOUS
    <2>3. Picks(<<>>, s, T, 0)
      BY <2>2 DEF Picks
    <2>4. f[0] \in Seq(S) /\ Picks(f[0], s, T, 0)
      BY <2>1, <2>3
    <2> QED BY <2>4
  <1>5. ASSUME NEW n \in Nat, n \in P PROVE n + 1 \in P
    <2> SUFFICES ASSUME n + 1 <= Len(s)
                 PROVE  f[n + 1] \in Seq(S) /\ Picks(f[n + 1], s, T, n + 1)
      OBVIOUS
    <2>1. f[n] \in Seq(S) /\ Picks(f[n], s, T, n)
      BY <1>1, <1>5
    <2>2. n + 1 \in 0..Len(s) /\ n + 1 # 0 /\ s[n + 1] \in S
      BY <1>1
    <2>3. f[n + 1] = IF s[n + 1] \in T THEN Append(f[n], s[n + 1]) ELSE f[n]
      <3>1. (n + 1) - 1 = n
        OBVIOUS
      <3> QED BY <1>1, <1>2, <2>2, <3>1, UptoStep
    <2>4. PICK p \in [1..Len(f[n]) -> 1..n] :
            /\ \A i \in 1..Len(f[n]) : f[n][i] = s[p[i]] /\ s[p[i]] \in T
            /\ \A i, j \in 1..Len(f[n]) : i < j => p[i] < p[j]
            /\ \A k \in 1..n : s[k] \in T => \E i \in 1..Len(f[n]) : p[i] = k
      BY <2>1 DEF Picks
    <2>5. CASE s[n + 1] \notin T
      <3>1. p \in [1..Len(f[n]) -> 1..(n + 1)]
        BY <2>4
      <3>2. \A k \in 1..(n + 1) : s[k] \in T => \E i \in 1..Len(f[n]) : p[i] = k
        BY <2>4, <2>5
      <3>3. Picks(f[n], s, T, n + 1)
        BY <2>4, <3>1, <3>2 DEF Picks
      <3> QED BY <2>1, <2>3, <2>5, <3>3
    <2>6. CASE s[n + 1] \in T
      <3> DEFINE q == Append(f[n], s[n + 1])
                 L == Len(f[n])
                 r == [i \in 1..(L + 1) |-> IF i = L + 1 THEN n + 1 ELSE p[i]]
      <3>1. /\ q \in Seq(S) /\ Len(q) = L + 1 /\ L \in Nat
            /\ q[L + 1] = s[n + 1] /\ \A i \in 1..L : q[i] = f[n][i]
        BY <2>1, <2>2, AppendProperties, LenProperties
      <3>2. \A i \in 1..L : p[i] \in 1..n
        BY <2>4
      <3> HIDE DEF q, L
      <3>3. r \in [1..Len(q) -> 1..(n + 1)]
        BY <3>1, <3>2
      <3>4. \A i \in 1..Len(q) : q[i] = s[r[i]] /\ s[r[i]] \in T
        BY <2>4, <2>6, <3>1 DEF L
      <3>5. \A i, j \in 1..Len(q) : i < j => r[i] < r[j]
        <4> SUFFICES ASSUME NEW i \in 1..Len(q), NEW j \in 1..Len(q), i < j PROVE r[i] < r[j]
          OBVIOUS
        <4>1. i \in 1..L /\ p[i] \in 1..n /\ r[i] = p[i]
          BY <3>1, <3>2
        <4>2. CASE j = L + 1
          BY <4>1, <4>2, <3>1
        <4>3. CASE j \in 1..L
          BY <4>1, <4>3, <2>4, <3>1, <3>2 DEF L
        <4> QED BY <4>2, <4>3, <3>1
      <3>6. \A k \in 1..(n + 1) : s[k] \in T => \E i \in 1..Len(q) : r[i] = k
        <4> SUFFICES ASSUME NEW k \in 1..(n + 1), s[k] \in T PROVE \E i \in 1..Len(q) : r[i] = k
          OBVIOUS
        <4>1. CASE k = n + 1
          BY <3>1, <4>1
        <4>2. CASE k \in 1..n
          <5>1. PICK i \in 1..L : p[i] = k
            BY <2>4, <4>2 DEF L
          <5>2. i \in 1..Len(q) /\ r[i] = k
            BY <5>1, <3>1
          <5> QED BY <5>2
        <4> QED BY <4>1, <4>2
      <3>7. Picks(q, s, T, n + 1)
        BY <3>3, <3>4, <3>5, <3>6 DEF Picks
      <3> QED BY <2>3, <2>6, <3>1, <3>7 DEF q
    <2> QED BY <2>5, <2>6
  <1> HIDE DEF P
  <1>6. Len(s) \in P
    BY <1>1, <1>4, <1>5, InductionOnSets
  <1> QED BY <1>1, <1>3, <1>6 DEF P

(* A filter keeps each element where it was, once.                           *)
LEMMA OnlyKeeps ==
  ASSUME NEW S, NEW s \in Seq(S), NEW T
  PROVE  \E p \in [DOMAIN Only(s, T) -> DOMAIN s] :
           /\ \A i \in DOMAIN Only(s, T) : Only(s, T)[i] = s[p[i]] /\ s[p[i]] \in T
           /\ \A i, j \in DOMAIN Only(s, T) : p[i] = p[j] => i = j
           /\ \A k \in DOMAIN s : s[k] \in T => \E i \in DOMAIN Only(s, T) : p[i] = k
  <1> DEFINE q == Only(s, T)
  <1>1. q \in Seq(S) /\ Picks(q, s, T, Len(s))
    BY OnlyPicks
  <1>2. DOMAIN s = 1..Len(s) /\ DOMAIN q = 1..Len(q) /\ Len(q) \in Nat /\ Len(s) \in Nat
    BY <1>1, LenProperties
  <1> HIDE DEF q
  <1>3. PICK p \in [1..Len(q) -> 1..Len(s)] :
          /\ \A i \in 1..Len(q) : q[i] = s[p[i]] /\ s[p[i]] \in T
          /\ \A i, j \in 1..Len(q) : i < j => p[i] < p[j]
          /\ \A k \in 1..Len(s) : s[k] \in T => \E i \in 1..Len(q) : p[i] = k
    BY <1>1 DEF Picks
  <1>4. \A i, j \in DOMAIN q : p[i] = p[j] => i = j
    <2> SUFFICES ASSUME NEW i \in 1..Len(q), NEW j \in 1..Len(q), p[i] = p[j] PROVE i = j
      BY <1>2
    <2>1. p[i] \in Nat /\ p[j] \in Nat /\ i \in Nat /\ j \in Nat
      BY <1>2, <1>3
    <2> QED BY <2>1, <1>3
  <1>5. p \in [DOMAIN q -> DOMAIN s]
    BY <1>2, <1>3
  <1> QED BY SMTT(30), <1>2, <1>3, <1>4, <1>5 DEF q

(* The numbers up to some number are all those up to their count.            *)
LEMMA InitialSegment ==
  ASSUME NEW L \in Nat, NEW D, D \subseteq 1..L, \A i \in D : \A j \in 1..i : j \in D
  PROVE  Cardinality(D) \in 0..L /\ D = 1..Cardinality(D)
  <1>1. \E m \in 0..L : D = 1..m
    <2>1. CASE D = 1..L
      BY <2>1
    <2>2. CASE D # 1..L
      <3> DEFINE rest == (1..L) \ D
      <3>1. rest \subseteq Nat /\ rest # {}
        <4>1. \E i \in 1..L : i \notin D
          BY <2>2
        <4> QED BY <4>1
      <3>2. PICK m \in rest : \A k \in rest : m <= k
        BY <3>1, LeastNumber
      <3>3. D = 1..(m - 1)
        <4>1. ASSUME NEW i \in D PROVE i \in 1..(m - 1)
          <5>1. ~(m <= i)
            BY <3>2, <4>1
          <5> QED BY <3>2, <4>1, <5>1
        <4>2. ASSUME NEW i \in 1..(m - 1) PROVE i \in D
          BY <3>2, <4>2
        <4> QED BY <4>1, <4>2
      <3> QED BY <3>2, <3>3
    <2> QED BY <2>1, <2>2
  <1>2. PICK m \in 0..L : D = 1..m
    BY <1>1
  <1>3. Cardinality(1..m) = m
    BY FS_Interval
  <1> QED BY <1>2, <1>3

(* Of the places up to n that are picked, the count tells which picks they   *)
(* are.                                                                      *)
LEMMA PicksUpTo ==
  ASSUME NEW L \in Nat, NEW N \in Nat, NEW p \in [1..L -> 1..N],
         \A i, j \in 1..L : i < j => p[i] < p[j],
         NEW n \in 0..N, NEW K, K \subseteq 1..n, \A k \in 1..n : k \in K <=> \E i \in 1..L : p[i] = k
  PROVE  Cardinality(K) \in 0..L /\ \A i \in 1..L : i <= Cardinality(K) <=> p[i] <= n
  <1> DEFINE D == {i \in 1..L : p[i] <= n}
             f == [i \in D |-> p[i]]
  <1>1. D = 1..Cardinality(D) /\ Cardinality(D) \in 0..L
    <2>1. \A i \in D : \A j \in 1..i : j \in D
      <3> SUFFICES ASSUME NEW i \in D, NEW j \in 1..i PROVE j \in D
        OBVIOUS
      <3>1. j \in 1..L /\ p[j] \in 1..N /\ p[i] \in 1..N
        OBVIOUS
      <3>2. j = i \/ j < i
        OBVIOUS
      <3>3. p[j] <= p[i]
        BY <3>1, <3>2
      <3>4. p[i] <= n
        OBVIOUS
      <3> QED BY <3>1, <3>3, <3>4
    <2>2. D \subseteq 1..L
      OBVIOUS
    <2> QED BY <2>1, <2>2, InitialSegment
  <1>2. f \in Bijection(D, K)
    <2>1. ASSUME NEW i \in D PROVE f[i] \in K
      <3>1. i \in 1..L /\ p[i] <= n /\ f[i] = p[i] /\ p[i] \in 1..N
        OBVIOUS
      <3>2. p[i] \in 1..n /\ n \in Nat
        BY <3>1
      <3> QED BY <3>1, <3>2
    <2>2. ASSUME NEW i \in D, NEW j \in D, f[i] = f[j] PROVE i = j
      <3>1. p[i] = p[j] /\ p[i] \in 1..N
        BY <2>2
      <3>2. i \in 1..L /\ j \in 1..L
        OBVIOUS
      <3>3. ~(i < j) /\ ~(j < i)
        BY <3>1, <3>2
      <3> QED BY <3>2, <3>3
    <2>3. ASSUME NEW k \in K PROVE \E i \in D : f[i] = k
      <3>1. PICK i \in 1..L : p[i] = k
        BY <2>3
      <3>2. i \in D
        BY <3>1
      <3> QED BY <3>1, <3>2
    <2> QED BY <2>1, <2>2, <2>3 DEF Bijection, Injection, Surjection, IsInjective
  <1>3. IsFiniteSet(D)
    <2>1. IsFiniteSet(1..L)
      BY FS_Interval
    <2> QED BY <2>1, FS_Subset
  <1>4. Cardinality(K) = Cardinality(D)
    BY <1>2, <1>3, FS_Bijection DEF ExistsBijection
  <1>5. \A i \in 1..L : i \in D <=> p[i] <= n
    OBVIOUS
  <1> HIDE DEF D
  <1>6. \A i \in 1..L : i \in 1..Cardinality(D) <=> i <= Cardinality(D)
    BY <1>1
  <1> QED BY <1>1, <1>4, <1>5, <1>6
=============================================================================

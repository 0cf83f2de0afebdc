---------------------------- MODULE OperatorProofs ----------------------------
(***************************************************************************)
(* What the operators of Subsequences return, for every sequence and every *)
(* set of its positions, and those of Patterns, for every two texts.       *)
(***************************************************************************)
EXTENDS Subsequences, Patterns, SequencesExt, FiniteSetTheorems,
        SequenceTheorems, WellFoundedInduction, TLAPS
------------------------------------------------------------------------------
(***************************************************************************)
(* The positions a subsequence keeps                                       *)
(***************************************************************************)

LEMMA PositionsFinite ==
    ASSUME NEW size \in Nat, NEW D \in SUBSET (1..size)
    PROVE  /\ IsFiniteSet(D) /\ Cardinality(D) \in Nat
           /\ \A n : /\ IsFiniteSet({i \in D : i <= n})
                     /\ Rank(D, n) \in Nat /\ Rank(D, n) <= Cardinality(D)
<1>1. IsFiniteSet(1..size)
  <2>1. 1 \in Int /\ size \in Int
    OBVIOUS
  <2>. QED
    BY <2>1, FS_Interval
<1>2. IsFiniteSet(D) /\ Cardinality(D) \in Nat
  BY <1>1, FS_Subset, FS_CardinalityType
<1>3. ASSUME NEW n
      PROVE  /\ IsFiniteSet({i \in D : i <= n})
             /\ Rank(D, n) \in Nat /\ Rank(D, n) <= Cardinality(D)
  <2>1. {i \in D : i <= n} \in SUBSET D
    OBVIOUS
  <2>. QED
    BY <1>2, <2>1, FS_Subset, FS_CardinalityType DEF Rank
<1>. QED
  BY <1>2, <1>3

\* Ranks grow by one at the positions, and only there.
LEMMA RankGrows ==
    ASSUME NEW size \in Nat, NEW D \in SUBSET (1..size)
    PROVE  /\ Rank(D, 0) = 0 /\ Rank(D, size) = Cardinality(D)
           /\ \A n \in Nat : Rank(D, n + 1) = Rank(D, n) + (IF n + 1 \in D THEN 1 ELSE 0)
<1>0. \A i \in D : i \in Nat /\ 1 <= i /\ i <= size
  OBVIOUS
<1>1. Rank(D, 0) = 0
  <2>0. \A i \in D : ~ (i <= 0)
    BY <1>0
  <2>1. {i \in D : i <= 0} = {}
    BY <2>0
  <2>. QED
    BY <2>1, FS_EmptySet DEF Rank
<1>2. Rank(D, size) = Cardinality(D)
  <2>1. {i \in D : i <= size} = D
    BY <1>0
  <2>. QED
    BY <2>1 DEF Rank
<1>3. ASSUME NEW n \in Nat
      PROVE  Rank(D, n + 1) = Rank(D, n) + (IF n + 1 \in D THEN 1 ELSE 0)
  <2> DEFINE below == {i \in D : i <= n}
  <2>0. \A i \in D : i <= n + 1 <=> i <= n \/ i = n + 1
    BY <1>0
  <2>1. IsFiniteSet(below) /\ Rank(D, n) = Cardinality(below) /\ n + 1 \notin below
    <3>1. n + 1 \notin below
      OBVIOUS
    <3>2. IsFiniteSet(below)
      BY PositionsFinite
    <3>. QED
      BY <3>1, <3>2 DEF Rank
  <2>2. CASE n + 1 \in D
    <3>1. {i \in D : i <= n + 1} = below \cup {n + 1}
      BY <2>0, <2>2
    <3>2. Cardinality(below \cup {n + 1}) = Cardinality(below) + 1
      <4>. HIDE DEF below
      <4>. QED
        BY <2>1, FS_AddElement
    <3>3. Rank(D, n + 1) = Cardinality(below \cup {n + 1})
      BY <3>1 DEF Rank
    <3>. QED
      BY <2>1, <2>2, <3>2, <3>3
  <2>3. CASE n + 1 \notin D
    <3>1. {i \in D : i <= n + 1} = below
      BY <2>0, <2>3
    <3>2. Rank(D, n) \in Nat
      BY PositionsFinite
    <3>3. Rank(D, n + 1) = Cardinality(below)
      BY <3>1 DEF Rank
    <3>. QED
      BY <2>1, <2>3, <3>2, <3>3
  <2>. QED
    BY <2>2, <2>3
<1>. QED
  BY <1>1, <1>2, <1>3

\* A later position has a greater rank.
LEMMA RankOrders ==
    ASSUME NEW size \in Nat, NEW D \in SUBSET (1..size), NEW i \in D, NEW j \in D, i < j
    PROVE  Rank(D, i) < Rank(D, j)
<1> DEFINE atI == {k \in D : k <= i}
           atJ == {k \in D : k <= j}
<1>1. atI \in SUBSET atJ /\ atI # atJ
  <2>1. \A k \in D : k <= i => k <= j
    OBVIOUS
  <2>2. j \in atJ /\ j \notin atI
    OBVIOUS
  <2>. QED
    BY <2>1, <2>2
<1>2. IsFiniteSet(atJ) /\ Rank(D, i) \in Nat /\ Rank(D, j) \in Nat
  BY PositionsFinite
<1>3. Rank(D, i) = Cardinality(atI) /\ Rank(D, j) = Cardinality(atJ)
  BY DEF Rank
<1>4. Cardinality(atI) <= Cardinality(atJ) /\ Cardinality(atI) # Cardinality(atJ)
  <2>. HIDE DEF atI, atJ
  <2>. QED
    BY <1>1, <1>2, FS_Subset
<1>. QED
  BY <1>2, <1>3, <1>4

\* The n-th position is there, and it is the n-th.
LEMMA NthIs ==
    ASSUME NEW size \in Nat, NEW D \in SUBSET (1..size), NEW n \in 1..Cardinality(D)
    PROVE  Nth(D, n) \in D /\ Rank(D, Nth(D, n)) = n
<1> DEFINE reach == {k \in Nat : Rank(D, k) >= n}
<1>1. Cardinality(D) \in Nat
  BY PositionsFinite
<1>2. size \in reach
  BY <1>1, RankGrows
<1>3. PICK k \in reach : \A l \in reach : ~ (<<l, k>> \in OpToRel(<, Nat))
  <2>1. reach \subseteq Nat /\ reach # {}
    BY <1>2
  <2>. HIDE DEF reach
  <2>. QED
    BY <2>1, NatLessThanWellFounded, WFMin, Zenon
<1>4. k \in Nat /\ Rank(D, k) >= n /\ \A l \in Nat : l < k => ~ (Rank(D, l) >= n)
  BY <1>3 DEF OpToRel
<1>5. k # 0
  BY <1>4, RankGrows
<1>6. k - 1 \in Nat /\ (k - 1) + 1 = k /\ k - 1 < k
  BY <1>4, <1>5
<1>7. Rank(D, k) = Rank(D, k - 1) + (IF k \in D THEN 1 ELSE 0)
  <2>1. \A m \in Nat : Rank(D, m + 1) = Rank(D, m) + (IF m + 1 \in D THEN 1 ELSE 0)
    BY RankGrows
  <2>. QED
    BY <1>6, <2>1
<1>8. Rank(D, k) \in Nat /\ Rank(D, k - 1) \in Nat
  BY PositionsFinite
<1>9. k \in D /\ Rank(D, k) = n
  BY <1>4, <1>6, <1>7, <1>8
<1>. QED
  BY <1>9 DEF Nth

\* Different positions have different ranks, so that each is the n-th for one n.
LEMMA NthOfRank ==
    ASSUME NEW size \in Nat, NEW D \in SUBSET (1..size), NEW i \in D
    PROVE  Rank(D, i) \in 1..Cardinality(D) /\ Nth(D, Rank(D, i)) = i
<1>1. Rank(D, i) \in Nat /\ Rank(D, i) <= Cardinality(D) /\ Cardinality(D) \in Nat
  BY PositionsFinite
<1>2. Rank(D, i) # 0
  <2>1. i \in {k \in D : k <= i}
    OBVIOUS
  <2>2. IsFiniteSet({k \in D : k <= i})
    BY PositionsFinite
  <2>. QED
    BY <2>1, <2>2, FS_EmptySet DEF Rank
<1>3. Rank(D, i) \in 1..Cardinality(D)
  BY <1>1, <1>2
<1>4. Nth(D, Rank(D, i)) \in D /\ Rank(D, Nth(D, Rank(D, i))) = Rank(D, i)
  BY <1>3, NthIs
<1>5. ASSUME NEW j \in D, Rank(D, j) = Rank(D, i) PROVE j = i
  <2>1. i \in Nat /\ j \in Nat
    OBVIOUS
  <2>2. i < j => Rank(D, i) < Rank(D, j)
    BY RankOrders
  <2>3. j < i => Rank(D, j) < Rank(D, i)
    BY RankOrders
  <2>. QED
    BY <2>1, <2>2, <2>3, <1>5, <1>1
<1>. QED
  BY <1>3, <1>4, <1>5

LEMMA NthOrders ==
    ASSUME NEW size \in Nat, NEW D \in SUBSET (1..size),
           NEW m \in 1..Cardinality(D), NEW n \in 1..Cardinality(D), m < n
    PROVE  Nth(D, m) < Nth(D, n)
<1>1. /\ Nth(D, m) \in D /\ Rank(D, Nth(D, m)) = m
      /\ Nth(D, n) \in D /\ Rank(D, Nth(D, n)) = n
  BY NthIs
<1>2. Cardinality(D) \in Nat
  BY PositionsFinite
<1>3. \A d \in D : d \in Nat
  OBVIOUS
<1>4. Nth(D, m) \in Nat /\ Nth(D, n) \in Nat /\ m \in Nat /\ n \in Nat
  <2>1. \A k \in 1..Cardinality(D) : k \in Nat
    BY <1>2
  <2>. QED
    BY <1>1, <1>3, <2>1
<1>5. \A i, j \in D : i < j => Rank(D, i) < Rank(D, j)
  BY RankOrders
<1>6. Nth(D, n) < Nth(D, m) => n < m
  BY <1>1, <1>5
<1>7. Nth(D, n) # Nth(D, m)
  BY <1>1, <1>4
<1>. QED
  BY <1>4, <1>6, <1>7

\* Whatever lists the positions in order lists them as Nth does.
Lists(f, m, D) ==
    /\ f \in [1..m -> D]
    /\ \A i, j \in 1..m : i < j => f[i] < f[j]
    /\ \A d \in D : \E i \in 1..m : f[i] = d

LEMMA OneList ==
    ASSUME NEW size \in Nat, NEW D \in SUBSET (1..size), NEW m \in Nat, NEW f, Lists(f, m, D)
    PROVE  Cardinality(D) = m /\ \A n \in 1..m : Nth(D, n) = f[n]
<1>1. /\ f \in [1..m -> D]
      /\ \A i, j \in 1..m : i < j => f[i] < f[j]
      /\ \A d \in D : \E i \in 1..m : f[i] = d
  BY DEF Lists
<1>2. ASSUME NEW n \in 1..m PROVE Rank(D, f[n]) = n
  <2> DEFINE below == {d \in D : d <= f[n]}
             g == [i \in 1..n |-> f[i]]
  <2>1. n \in Nat /\ \A i \in 1..n : i \in 1..m
    OBVIOUS
  <2>2. \A i \in 1..m : f[i] \in D /\ f[i] \in Nat
    <3>1. \A d \in D : d \in Nat
      OBVIOUS
    <3>. QED
      BY <1>1, <3>1
  <2>3. \A i \in 1..n : f[i] \in below
    <3>. TAKE i \in 1..n
    <3>1. i = n \/ i < n
      BY <2>1
    <3>. QED
      BY <3>1, <2>1, <2>2, <1>1
  <2>4. \A d \in below : \E i \in 1..n : f[i] = d
    <3>. TAKE d \in below
    <3>1. PICK i \in 1..m : f[i] = d
      BY <1>1
    <3>2. ~ (n < i)
      BY <1>1, <2>2, <3>1
    <3>3. i \in 1..n
      BY <2>1, <3>2
    <3>. QED
      BY <3>1, <3>3
  <2>5. \A i, j \in 1..n : f[i] = f[j] => i = j
    <3>. TAKE i, j \in 1..n
    <3>1. i \in 1..m /\ j \in 1..m /\ i \in Nat /\ j \in Nat
      BY <2>1
    <3>2. i < j => f[i] < f[j]
      BY <3>1, <1>1
    <3>3. j < i => f[j] < f[i]
      BY <3>1, <1>1
    <3>4. f[i] \in Nat /\ f[j] \in Nat
      BY <3>1, <2>2
    <3>. QED
      BY <3>1, <3>2, <3>3, <3>4
  <2>6. g \in [1..n -> below] /\ \A i \in 1..n : g[i] = f[i]
    BY <2>3
  <2>7. g \in Bijection(1..n, below)
    <3>. HIDE DEF g, below
    <3>. QED
      BY <2>4, <2>5, <2>6 DEF Bijection, Injection, Surjection, IsInjective
  <2>8. ExistsBijection(1..n, below)
    BY <2>7 DEF ExistsBijection
  <2>9. Cardinality(below) = n
    <3>. HIDE DEF below
    <3>. QED
      BY <2>1, <2>8, FS_CountingElements
  <2>. QED
    BY <2>9 DEF Rank
<1>3. f \in Bijection(1..m, D)
  <2>1. \A i, j \in 1..m : f[i] = f[j] => i = j
    BY <1>2, Zenon
  <2>. QED
    BY <1>1, <2>1 DEF Bijection, Injection, Surjection, IsInjective
<1>4. Cardinality(D) = m
  BY <1>3, FS_CountingElements DEF ExistsBijection
<1>5. ASSUME NEW n \in 1..m PROVE Nth(D, n) = f[n]
  <2>1. f[n] \in D
    BY <1>1
  <2>2. Nth(D, Rank(D, f[n])) = f[n]
    BY <2>1, NthOfRank
  <2>. QED
    BY <2>2, <1>2
<1>. QED
  BY <1>4, <1>5

LEMMA InOrderTyped ==
    ASSUME NEW size \in Nat, NEW D \in SUBSET (1..size)
    PROVE  /\ \A S : D \subseteq S => InOrder(D) \in Seq(S)
           /\ Cardinality(D) \in Nat /\ Len(InOrder(D)) = Cardinality(D)
           /\ \A n \in 1..Cardinality(D) : InOrder(D)[n] = Nth(D, n)
<1>1. Cardinality(D) \in Nat
  BY PositionsFinite
<1>2. \A n \in 1..Cardinality(D) : Nth(D, n) \in D
  BY NthIs
<1>3. InOrder(D) \in [1..Cardinality(D) -> D]
  BY <1>2 DEF InOrder
<1>4. Len(InOrder(D)) = Cardinality(D)
  BY <1>1, <1>3
<1>5. ASSUME NEW S, D \subseteq S PROVE InOrder(D) \in Seq(S)
  <2>1. InOrder(D) \in [1..Cardinality(D) -> S]
    BY <1>3, <1>5
  <2>. QED
    BY <1>1, <2>1
<1>. QED
  BY <1>1, <1>4, <1>5 DEF InOrder

LEMMA InOrderNone == InOrder({}) = <<>>
<1>1. Cardinality({}) = 0
  BY FS_EmptySet
<1>. QED
  BY <1>1 DEF InOrder

LEMMA InOrderAll ==
    ASSUME NEW size \in Nat, NEW D \in SUBSET (1..size)
    PROVE  {InOrder(D)[n] : n \in DOMAIN InOrder(D)} = D
<1>1. DOMAIN InOrder(D) = 1..Cardinality(D)
  BY DEF InOrder
<1>2. \A n \in 1..Cardinality(D) : InOrder(D)[n] = Nth(D, n) /\ Nth(D, n) \in D
  BY InOrderTyped, NthIs
<1>3. \A d \in D : Rank(D, d) \in 1..Cardinality(D) /\ Nth(D, Rank(D, d)) = d
  BY NthOfRank
<1>. QED
  BY <1>1, <1>2, <1>3

\* The positions up to h come before the others.
UpTo(D, h) == {i \in D : i <= h}
After(D, h, q) == {k \in 1..q : h + k \in D}
Shifted(D, h) == [n \in 1..Cardinality(D) |-> h + Nth(D, n)]

LEMMA InOrderSplit ==
    ASSUME NEW h \in Nat, NEW q \in Nat, NEW D \in SUBSET (1..(h + q))
    PROVE  InOrder(D) = InOrder(UpTo(D, h)) \o Shifted(After(D, h, q), h)
<1> DEFINE low == UpTo(D, h)
           high == After(D, h, q)
           rest == Shifted(high, h)
<1>0. /\ \A d \in D : d <= h => d \in low
      /\ \A k \in 1..q : h + k \in D => k \in high
  BY DEF UpTo, After
<1>1. low \in SUBSET (1..h) /\ high \in SUBSET (1..q) /\ h + q \in Nat
      /\ (\A d \in D : d \in Nat /\ 1 <= d /\ d <= h + q)
      /\ low \subseteq D /\ (\A k \in high : h + k \in D)
  <2>1. \A d \in D : d \in Nat /\ 1 <= d /\ d <= h + q
    OBVIOUS
  <2>2. low \subseteq D /\ \A d \in low : d \in 1..h
    BY <2>1 DEF UpTo
  <2>3. h + q \in Nat
    OBVIOUS
  <2>4. high \subseteq 1..q /\ \A k \in high : h + k \in D
    BY DEF After
  <2>. HIDE DEF low, high
  <2>. QED
    BY <2>1, <2>2, <2>3, <2>4, Zenon
<1>. HIDE DEF low, high
<1>2. PICK a \in Nat, c \in Nat : a = Cardinality(low) /\ c = Cardinality(high)
  BY <1>1, PositionsFinite
<1>3. /\ \A n \in 1..a : Nth(low, n) \in low
      /\ \A n \in 1..c : Nth(high, n) \in high
      /\ \A m, n \in 1..a : m < n => Nth(low, m) < Nth(low, n)
      /\ \A m, n \in 1..c : m < n => Nth(high, m) < Nth(high, n)
  BY <1>1, <1>2, NthIs, NthOrders
<1>4. /\ \A i \in low : Rank(low, i) \in 1..a /\ Nth(low, Rank(low, i)) = i
      /\ \A k \in high : Rank(high, k) \in 1..c /\ Nth(high, Rank(high, k)) = k
  BY <1>1, <1>2, NthOfRank
<1> DEFINE f == [n \in 1..(a + c) |-> IF n <= a THEN Nth(low, n) ELSE h + Nth(high, n - a)]
<1>5. ASSUME NEW n \in 1..(a + c)
      PROVE  \/ n \in 1..a /\ n <= a /\ f[n] = Nth(low, n) /\ f[n] \in low
             \/ n - a \in 1..c /\ ~(n <= a) /\ f[n] = h + Nth(high, n - a) /\ Nth(high, n - a) \in high
  <2>1. CASE n <= a
    <3>1. n \in 1..a
      BY <2>1
    <3>. QED
      BY <1>3, <2>1, <3>1
  <2>2. CASE ~(n <= a)
    <3>1. n - a \in 1..c
      BY <2>2
    <3>. QED
      BY <1>3, <2>2, <3>1
  <2>. QED
    BY <2>1, <2>2
<1>6. ASSUME NEW n \in 1..(a + c) PROVE f[n] \in D
  BY <1>1, <1>5
<1>7. ASSUME NEW m \in 1..(a + c), NEW n \in 1..(a + c), m < n PROVE f[m] < f[n]
  <2>1. CASE n <= a
    <3>1. m \in 1..a /\ n \in 1..a /\ m <= a
      BY <1>7, <2>1
    <3>. QED
      BY <1>3, <1>5, <1>7, <2>1, <3>1
  <2>2. CASE ~(n <= a) /\ m <= a
    <3>1. f[m] \in low /\ f[n] = h + Nth(high, n - a) /\ Nth(high, n - a) \in high
      BY <1>5, <2>2
    <3>2. f[m] \in 1..h /\ Nth(high, n - a) \in 1..q
      BY <1>1, <3>1
    <3>. QED
      BY <3>1, <3>2
  <2>3. CASE ~(m <= a)
    <3>1. ~(n <= a) /\ m - a < n - a
      BY <1>7, <2>3
    <3>2. /\ m - a \in 1..c /\ n - a \in 1..c
          /\ f[m] = h + Nth(high, m - a) /\ f[n] = h + Nth(high, n - a)
          /\ Nth(high, m - a) \in 1..q /\ Nth(high, n - a) \in 1..q
      BY <1>1, <1>5, <2>3, <3>1
    <3>3. Nth(high, m - a) < Nth(high, n - a)
      BY <1>3, <3>1, <3>2
    <3>. HIDE DEF f
    <3>. QED
      BY <3>2, <3>3
  <2>. QED
    BY <2>1, <2>2, <2>3
<1>8. ASSUME NEW d \in D PROVE \E n \in 1..(a + c) : f[n] = d
  <2>1. CASE d <= h
    <3>1. d \in low
      BY <1>0, <2>1
    <3>2. PICK n \in 1..a : Nth(low, n) = d
      BY <1>4, <3>1
    <3>3. n \in 1..(a + c) /\ n <= a
      OBVIOUS
    <3>. QED
      BY <3>2, <3>3
  <2>2. CASE ~(d <= h)
    <3>1. d - h \in 1..q /\ h + (d - h) = d
      BY <1>1, <2>2
    <3>2. d - h \in high
      BY <1>0, <3>1
    <3>3. PICK n \in 1..c : Nth(high, n) = d - h
      BY <1>4, <3>2
    <3>4. a + n \in 1..(a + c) /\ ~(a + n <= a) /\ (a + n) - a = n
      OBVIOUS
    <3>5. f[a + n] = h + Nth(high, n)
      BY <3>4
    <3>. QED
      BY <3>1, <3>3, <3>4, <3>5
  <2>. QED
    BY <2>1, <2>2
<1>9. Lists(f, a + c, D)
  BY <1>6, <1>7, <1>8 DEF Lists
<1>10. Cardinality(D) = a + c /\ \A n \in 1..(a + c) : Nth(D, n) = f[n]
  <2>1. a + c \in Nat
    OBVIOUS
  <2>. HIDE DEF f
  <2>. QED
    BY <1>1, <1>9, <2>1, OneList
<1>11. InOrder(D) = f
  BY <1>10 DEF InOrder
<1>12. InOrder(low) \in Seq(low) /\ Len(InOrder(low)) = a /\ \A n \in 1..a : InOrder(low)[n] = Nth(low, n)
  BY <1>1, <1>2, InOrderTyped
<1>13. rest \in Seq(Nat) /\ Len(rest) = c /\ \A n \in 1..c : rest[n] = h + Nth(high, n)
  <2>1. \A n \in 1..c : h + Nth(high, n) \in Nat
    BY <1>1, <1>3
  <2>2. rest = [n \in 1..c |-> h + Nth(high, n)]
    BY <1>2 DEF Shifted
  <2>. QED
    BY <2>1, <2>2
<1>14. f = InOrder(low) \o rest
  <2> DEFINE both == InOrder(low) \o rest
  <2>1. InOrder(low) \in Seq(Nat)
    <3>1. low \subseteq Nat
      BY <1>1
    <3>. QED
      BY <1>1, <3>1, InOrderTyped
  <2>2. /\ both \in Seq(Nat) /\ Len(both) = a + c
        /\ \A n \in 1..(a + c) : both[n] = IF n <= a THEN InOrder(low)[n] ELSE rest[n - a]
    <3>. HIDE DEF f, rest
    <3>1. /\ both \in Seq(Nat) /\ Len(both) = Len(InOrder(low)) + Len(rest)
          /\ \A n \in 1..(Len(InOrder(low)) + Len(rest)) :
                 both[n] = IF n <= Len(InOrder(low)) THEN InOrder(low)[n] ELSE rest[n - Len(InOrder(low))]
      BY <1>13, <2>1, ConcatProperties
    <3>. HIDE DEF both
    <3>. QED
      BY <1>12, <1>13, <3>1
  <2>. HIDE DEF both, rest
  <2>3. ASSUME NEW n \in 1..(a + c) PROVE both[n] = f[n]
    <3>. HIDE DEF f
    <3>1. CASE n <= a
      <4>1. n \in 1..a /\ f[n] = Nth(low, n)
        BY <1>5, <3>1
      <4>. QED
        BY <1>12, <2>2, <3>1, <4>1
    <3>2. CASE ~(n <= a)
      <4>1. n - a \in 1..c /\ f[n] = h + Nth(high, n - a)
        BY <1>5, <3>2
      <4>. QED
        BY <1>13, <2>2, <3>2, <4>1
    <3>. QED
      BY <3>1, <3>2
  <2>4. both \in [1..(a + c) -> Nat]
    BY <2>2, LenProperties
  <2>5. f \in [1..(a + c) -> D]
    BY <1>9 DEF Lists
  <2>. QED
    BY <2>3, <2>4, <2>5 DEF both
<1>. QED
  BY <1>11, <1>14 DEF low, high

LEMMA KeepTyped ==
    ASSUME NEW S, NEW s \in Seq(S), NEW D \in SUBSET DOMAIN s
    PROVE  /\ Keep(s, D) \in Seq(S)
           /\ Cardinality(D) \in Nat /\ Len(Keep(s, D)) = Cardinality(D)
           /\ DOMAIN Keep(s, D) = 1..Cardinality(D)
           /\ \A n \in 1..Cardinality(D) :
                  Nth(D, n) \in D /\ Keep(s, D)[n] = s[Nth(D, n)]
<1>1. Len(s) \in Nat /\ DOMAIN s = 1..Len(s) /\ \A i \in 1..Len(s) : s[i] \in S
  BY LenProperties, ElementOfSeq
<1>2. Cardinality(D) \in Nat
  BY <1>1, PositionsFinite
<1>3. \A n \in 1..Cardinality(D) : Nth(D, n) \in D
  BY <1>1, NthIs
<1>4. /\ Keep(s, D) = [n \in 1..Cardinality(D) |-> s[Nth(D, n)]]
      /\ \A n \in 1..Cardinality(D) : s[Nth(D, n)] \in S
  BY <1>1, <1>3 DEF Keep
<1>5. Keep(s, D) \in [1..Cardinality(D) -> S]
  BY <1>4
<1>6. Keep(s, D) \in Seq(S) /\ Len(Keep(s, D)) = Cardinality(D)
  BY <1>2, <1>5
<1>. QED
  BY <1>2, <1>3, <1>4, <1>6

LEMMA KeepLists ==
    ASSUME NEW S, NEW s \in Seq(S), NEW D \in SUBSET DOMAIN s,
           NEW m \in Nat, NEW f, Lists(f, m, D)
    PROVE  Keep(s, D) = [n \in 1..m |-> s[f[n]]]
<1>1. Len(s) \in Nat /\ DOMAIN s = 1..Len(s)
  BY LenProperties
<1>2. Cardinality(D) = m /\ \A n \in 1..m : Nth(D, n) = f[n]
  BY <1>1, OneList
<1>. QED
  BY <1>2 DEF Keep
------------------------------------------------------------------------------
\* A prefix, element by element.
LEMMA PrefixIs ==
    ASSUME NEW S, NEW s \in Seq(S), NEW t \in Seq(S)
    PROVE  IsPrefix(s, t) <=> Len(s) <= Len(t) /\ \A i \in 1..Len(s) : s[i] = t[i]
<1>1. Len(s) \in Nat /\ Len(t) \in Nat
  BY LenProperties
<1>2. SubSeq(s, 1, Len(s)) = s
  BY SubSeqFull
<1>3. ASSUME Len(s) <= Len(t)
      PROVE  s = SubSeq(t, 1, Len(s)) <=> \A i \in 1..Len(s) : s[i] = t[i]
  <2>1. \A i \in 1..Len(s) : t[i] \in S
    BY <1>1, <1>3, ElementOfSeq
  <2>2. /\ SubSeq(t, 1, Len(s)) \in Seq(S) /\ Len(SubSeq(t, 1, Len(s))) = Len(s)
        /\ \A i \in 1..Len(s) : SubSeq(t, 1, Len(s))[i] = t[i]
    <3>1. 1 \in Int /\ Len(s) \in Int /\ Len(s) - 1 + 1 = Len(s)
          /\ \A i \in 1..Len(s) : 1 + i - 1 = i
      BY <1>1
    <3>2. /\ SubSeq(t, 1, Len(s)) \in Seq(S)
          /\ Len(SubSeq(t, 1, Len(s))) = IF 1 <= Len(s) THEN Len(s) - 1 + 1 ELSE 0
          /\ \A i \in 1..(Len(s) - 1 + 1) : SubSeq(t, 1, Len(s))[i] = t[1 + i - 1]
      BY <2>1, <3>1, SubSeqProperties
    <3>. QED
      BY <1>1, <3>1, <3>2
  <2>3. (\A i \in 1..Len(s) : s[i] = t[i]) => s = SubSeq(t, 1, Len(s))
    BY <2>2, SeqEqual
  <2>. QED
    BY <2>2, <2>3
<1>. QED
  BY <1>2, <1>3 DEF IsPrefix

\* Putting together and cutting out, element by element.
LEMMA ConcatIs ==
    ASSUME NEW S, NEW s \in Seq(S), NEW t \in Seq(S), NEW a, a = Len(s), NEW b, b = Len(t)
    PROVE  /\ a \in Nat /\ b \in Nat
           /\ s \o t \in Seq(S) /\ Len(s \o t) = a + b
           /\ \A i \in 1..a : (s \o t)[i] = s[i]
           /\ \A i \in 1..b : (s \o t)[a + i] = t[i]
<1>1. a \in Nat /\ b \in Nat
  BY LenProperties
<1>2. /\ s \o t \in Seq(S) /\ Len(s \o t) = Len(s) + Len(t)
      /\ \A i \in 1..(Len(s) + Len(t)) : (s \o t)[i] = IF i <= Len(s) THEN s[i] ELSE t[i - Len(s)]
  BY ConcatProperties
<1>3. \A i \in 1..(a + b) : (s \o t)[i] = IF i <= a THEN s[i] ELSE t[i - a]
  BY <1>2
<1>4. ASSUME NEW i \in 1..a PROVE (s \o t)[i] = s[i]
  <2>1. i \in 1..(a + b) /\ i <= a
    BY <1>1
  <2>. QED
    BY <1>3, <2>1
<1>5. ASSUME NEW i \in 1..b PROVE (s \o t)[a + i] = t[i]
  <2>1. a + i \in 1..(a + b) /\ ~(a + i <= a) /\ (a + i) - a = i
    BY <1>1
  <2>. QED
    BY <1>3, <2>1
<1>. QED
  BY <1>1, <1>2, <1>4, <1>5

LEMMA ConcatJoins ==
    ASSUME NEW S, NEW s \in Seq(S), NEW t \in Seq(S)
    PROVE  /\ s \o t \in Seq(S) /\ Len(s \o t) = Len(s) + Len(t)
           /\ \A i \in 1..Len(s) : (s \o t)[i] = s[i]
           /\ \A i \in 1..Len(t) : (s \o t)[Len(s) + i] = t[i]
  BY ConcatIs

LEMMA SubSeqIs ==
    ASSUME NEW S, NEW s \in Seq(S), NEW m \in Nat, NEW n \in Nat, m <= n, n <= Len(s)
    PROVE  /\ SubSeq(s, m + 1, n) \in Seq(S) /\ Len(SubSeq(s, m + 1, n)) = n - m
           /\ \A i \in 1..(n - m) : SubSeq(s, m + 1, n)[i] = s[m + i]
<1>1. \A i \in (m + 1)..n : s[i] \in S
  <2>1. \A i \in (m + 1)..n : i \in 1..Len(s)
    BY LenProperties
  <2>. QED
    BY <2>1, ElementOfSeq
<1>2. m + 1 \in Int /\ n \in Int /\ n - (m + 1) + 1 = n - m
  OBVIOUS
<1>3. /\ SubSeq(s, m + 1, n) \in Seq(S)
      /\ Len(SubSeq(s, m + 1, n)) = IF m + 1 <= n THEN n - (m + 1) + 1 ELSE 0
      /\ \A i \in 1..(n - (m + 1) + 1) : SubSeq(s, m + 1, n)[i] = s[(m + 1) + i - 1]
  BY <1>1, <1>2, SubSeqProperties
<1>4. \A i \in 1..(n - m) : (m + 1) + i - 1 = m + i
  OBVIOUS
<1>5. Len(SubSeq(s, m + 1, n)) = n - m
  BY <1>2, <1>3
<1>. QED
  BY <1>2, <1>3, <1>4, <1>5

LEMMA AppendIs ==
    ASSUME NEW S, NEW s \in Seq(S), NEW x \in S, NEW a, a = Len(s)
    PROVE  /\ a \in Nat
           /\ Append(s, x) \in Seq(S) /\ Len(Append(s, x)) = a + 1
           /\ \A i \in 1..a : Append(s, x)[i] = s[i]
           /\ Append(s, x)[a + 1] = x
  BY AppendProperties, LenProperties
------------------------------------------------------------------------------
(***************************************************************************)
(* Texts and patterns                                                      *)
(***************************************************************************)

\* A set of numbers that is not empty has a least one: what is left of
\* induction where a property cannot be named.
LEMMA LeastIs ==
    ASSUME NEW D \in SUBSET Nat, D # {}
    PROVE  \E m \in D : \A k \in Nat : k < m => k \notin D
<1>1. PICK m \in D : \A k \in D : ~ (<<k, m>> \in OpToRel(<, Nat))
  BY NatLessThanWellFounded, WFMin, Zenon
<1>2. m \in D /\ \A k \in Nat : k < m => k \notin D
  BY <1>1 DEF OpToRel
<1>. QED
  BY <1>2

\* The function FlattenSeq computes is there.
FlatIs(seqs, m, f) == f = [i \in 1..m |-> IF i = 1 THEN seqs[i] ELSE f[i - 1] \o seqs[i]]

LEMMA FlatExists ==
    ASSUME NEW seqs, NEW m \in Nat
    PROVE  \E f : FlatIs(seqs, m, f)
<1> DEFINE failing == {n \in Nat : ~ \E f : FlatIs(seqs, n, f)}
<1>1. SUFFICES ASSUME failing # {} PROVE FALSE
  OBVIOUS
<1>2. PICK n \in failing : \A k \in Nat : k < n => k \notin failing
  <2>1. failing \in SUBSET Nat
    OBVIOUS
  <2>. HIDE DEF failing
  <2>. QED
    BY <1>1, <2>1, LeastIs
<1>3. n \in Nat /\ ~ \E f : FlatIs(seqs, n, f)
  OBVIOUS
<1>4. n # 0
  <2> DEFINE none == [i \in 1..0 |-> seqs]
  <2>1. 1..0 = {}
    OBVIOUS
  <2>2. FlatIs(seqs, 0, none)
    BY <2>1 DEF FlatIs
  <2>. QED
    BY <1>3, <2>2
<1>5. n - 1 \in Nat /\ n - 1 < n
  BY <1>3, <1>4
<1>6. PICK g : FlatIs(seqs, n - 1, g)
  BY <1>2, <1>5
<1> DEFINE f == [i \in 1..n |-> IF i = n THEN (IF n = 1 THEN seqs[n] ELSE g[n - 1] \o seqs[n]) ELSE g[i]]
<1>7. \A i \in 1..n : f[i] = IF i = 1 THEN seqs[i] ELSE f[i - 1] \o seqs[i]
  <2>. TAKE i \in 1..n
  <2>1. CASE i = n /\ n = 1
    BY <2>1
  <2>2. CASE i = n /\ n # 1
    <3>1. n - 1 \in 1..n /\ n - 1 # n
      BY <1>3, <2>2
    <3>2. f[n - 1] = g[n - 1]
      BY <3>1
    <3>. QED
      BY <2>2, <3>2
  <2>3. CASE i # n
    <3>1. i \in 1..(n - 1)
      BY <1>3, <2>3
    <3>2. g[i] = IF i = 1 THEN seqs[i] ELSE g[i - 1] \o seqs[i]
      BY <1>6, <3>1, Zenon DEF FlatIs
    <3>3. f[i] = g[i]
      BY <2>3
    <3>4. i # 1 => f[i - 1] = g[i - 1]
      <4>1. i # 1 => i - 1 \in 1..n /\ i - 1 # n
        BY <1>3, <3>1
      <4>. QED
        BY <4>1
    <3>. QED
      BY <3>2, <3>3, <3>4, Zenon
  <2>. QED
    BY <2>1, <2>2, <2>3
<1>8. FlatIs(seqs, n, f)
  <2> DEFINE h == [i \in 1..n |-> IF i = 1 THEN seqs[i] ELSE f[i - 1] \o seqs[i]]
  <2>1. \A i \in 1..n : f[i] = h[i]
    <3>. HIDE DEF f
    <3>. QED
      BY <1>7
  <2>2. f = h
    <3>1. DOMAIN f = 1..n /\ f = [i \in 1..n |-> f[i]]
      OBVIOUS
    <3>2. h = [i \in 1..n |-> h[i]]
      OBVIOUS
    <3>. HIDE DEF f, h
    <3>. QED
      BY <2>1, <3>1, <3>2
  <2>. HIDE DEF f
  <2>. QED
    BY <2>2 DEF FlatIs
<1>. QED
  BY <1>3, <1>8

LEMMA FlattenIs ==
    ASSUME NEW seqs, Len(seqs) \in Nat, Len(seqs) # 0
    PROVE  \E f : FlatIs(seqs, Len(seqs), f) /\ FlattenSeq(seqs) = f[Len(seqs)]
<1>1. \E f : FlatIs(seqs, Len(seqs), f)
  BY FlatExists
<1> DEFINE flat == CHOOSE f : f = [i \in 1..Len(seqs) |-> IF i = 1 THEN seqs[i] ELSE f[i - 1] \o seqs[i]]
<1>2. FlatIs(seqs, Len(seqs), flat)
  BY <1>1, Zenon DEF FlatIs
<1>3. FlattenSeq(seqs) = flat[Len(seqs)]
  BY DEF FlattenSeq
<1>. QED
  BY <1>2, <1>3, Zenon

\* The first m letters of s, those of C escaped, are the text e: off says where
\* in e each of them ends.
EscapesTo(off, e, s, m, C) ==
    /\ off \in [0..m -> 0..Len(e)]
    /\ off[0] = 0 /\ off[m] = Len(e)
    /\ \A i \in 1..m : /\ off[i] = off[i - 1] + (IF s[i] \in C THEN 2 ELSE 1)
                       /\ e[off[i]] = s[i]
                       /\ s[i] \in C => e[off[i] - 1] = "\\"

LEMMA EscapedIs ==
    ASSUME NEW S, "\\" \in S, NEW letter \in S, NEW c
    PROVE  /\ Escaped(letter, c) \in Seq(S)
           /\ Len(Escaped(letter, c)) = IF letter \in {c} THEN 2 ELSE 1
           /\ letter \in {c} => Escaped(letter, c)[1] = "\\" /\ Escaped(letter, c)[2] = letter
           /\ letter \notin {c} => Escaped(letter, c)[1] = letter
  BY DEF Escaped

LEMMA EscapesGrow ==
    ASSUME NEW S, "\\" \in S, NEW s \in Seq(S), NEW c, NEW e \in Seq(S),
           NEW n \in 1..Len(s), NEW off, EscapesTo(off, e, s, n - 1, {c})
    PROVE  /\ e \o Escaped(s[n], c) \in Seq(S)
           /\ \E o : EscapesTo(o, e \o Escaped(s[n], c), s, n, {c})
<1> DEFINE piece == Escaped(s[n], c)
           w == IF s[n] \in {c} THEN 2 ELSE 1
           all == e \o piece
<1>1. n \in Nat /\ n - 1 \in Nat /\ n - 1 \in 0..(n - 1) /\ n >= 1
  OBVIOUS
<1>2. s[n] \in S
  OBVIOUS
<1>3. /\ piece \in Seq(S) /\ Len(piece) = w
      /\ s[n] \in {c} => piece[1] = "\\" /\ piece[2] = s[n]
      /\ s[n] \notin {c} => piece[1] = s[n]
  <2>1. ASSUME NEW letter \in S, letter = s[n]
        PROVE  /\ Escaped(letter, c) \in Seq(S)
               /\ Len(Escaped(letter, c)) = IF letter \in {c} THEN 2 ELSE 1
               /\ letter \in {c} => Escaped(letter, c)[1] = "\\" /\ Escaped(letter, c)[2] = letter
               /\ letter \notin {c} => Escaped(letter, c)[1] = letter
    BY EscapedIs
  <2>. QED
    BY <1>2, <2>1
<1>4. /\ Len(e) \in Nat /\ w \in 1..2
  OBVIOUS
<1> HIDE DEF piece
<1>5. /\ all \in Seq(S) /\ Len(all) = Len(e) + w
      /\ \A k \in 1..Len(e) : all[k] = e[k]
      /\ \A k \in 1..w : all[Len(e) + k] = piece[k]
  BY <1>3, ConcatJoins
<1>6. /\ off \in [0..(n - 1) -> 0..Len(e)]
      /\ off[0] = 0 /\ off[n - 1] = Len(e)
      /\ \A i \in 1..(n - 1) : /\ off[i] = off[i - 1] + (IF s[i] \in {c} THEN 2 ELSE 1)
                               /\ e[off[i]] = s[i]
                               /\ s[i] \in {c} => e[off[i] - 1] = "\\"
  BY DEF EscapesTo
<1> DEFINE o == [i \in 0..n |-> IF i = n THEN Len(e) + w ELSE off[i]]
<1>7. /\ o[n] = Len(e) + w /\ \A i \in 0..(n - 1) : o[i] = off[i]
  <2>1. \A i \in 0..(n - 1) : i \in 0..n /\ i # n
    BY <1>1
  <2>2. n \in 0..n
    BY <1>1
  <2>. QED
    BY <2>1, <2>2
<1>8. o \in [0..n -> 0..Len(all)]
  <2>1. \A i \in 0..n : i # n => i \in 0..(n - 1)
    BY <1>1
  <2>2. \A i \in 0..(n - 1) : off[i] \in 0..Len(all)
    <3>1. \A i \in 0..(n - 1) : off[i] \in 0..Len(e)
      BY <1>6
    <3>2. \A k \in 0..Len(e) : k \in 0..Len(all)
      BY <1>4, <1>5
    <3>. QED
      BY <3>1, <3>2
  <2>3. Len(e) + w \in 0..Len(all)
    BY <1>4, <1>5
  <2>. HIDE DEF w, all
  <2>. QED
    BY <2>1, <2>2, <2>3
<1>9. ASSUME NEW i \in 1..n
      PROVE  /\ o[i] = o[i - 1] + (IF s[i] \in {c} THEN 2 ELSE 1)
             /\ all[o[i]] = s[i]
             /\ s[i] \in {c} => all[o[i] - 1] = "\\"
  <2>. HIDE DEF o, all
  <2>1. CASE i = n
    <3>1. o[i - 1] = Len(e)
      BY <2>1, <1>1, <1>6, <1>7
    <3>2. o[i] = Len(e) + w
      BY <2>1, <1>7
    <3>3. CASE s[n] \in {c}
      <4>1. w = 2
        BY <3>3
      <4>2. all[Len(e) + 2] = piece[2] /\ all[Len(e) + 1] = piece[1]
        BY <1>5, <4>1
      <4>3. (Len(e) + 2) - 1 = Len(e) + 1
        BY <1>4
      <4>. QED
        BY <2>1, <3>1, <3>2, <3>3, <4>1, <4>2, <4>3, <1>3
    <3>4. CASE s[n] \notin {c}
      <4>1. w = 1
        BY <3>4
      <4>2. all[Len(e) + 1] = piece[1]
        BY <1>5, <4>1
      <4>. QED
        BY <2>1, <3>1, <3>2, <3>4, <4>1, <4>2, <1>3
    <3>. QED
      BY <3>3, <3>4
  <2>2. CASE i # n
    <3>1. i \in 1..(n - 1) /\ i \in 0..(n - 1) /\ i - 1 \in 0..(n - 1)
      BY <2>2, <1>1
    <3>2. o[i] = off[i] /\ o[i - 1] = off[i - 1]
      BY <3>1, <1>7
    <3>3. /\ off[i] = off[i - 1] + (IF s[i] \in {c} THEN 2 ELSE 1)
          /\ e[off[i]] = s[i]
          /\ s[i] \in {c} => e[off[i] - 1] = "\\"
      BY <3>1, <1>6
    <3>4. off[i] \in 0..Len(e) /\ off[i - 1] \in 0..Len(e)
      BY <3>1, <1>6
    <3>5. off[i] \in 1..Len(e)
      BY <3>3, <3>4
    <3>6. s[i] \in {c} => off[i] - 1 \in 1..Len(e)
      BY <3>3, <3>4
    <3>7. all[off[i]] = e[off[i]] /\ (s[i] \in {c} => all[off[i] - 1] = e[off[i] - 1])
      BY <3>5, <3>6, <1>5
    <3>. QED
      BY <3>2, <3>3, <3>7
  <2>. QED
    BY <2>1, <2>2
<1>10. o[0] = 0
  <2>1. 0 \in 0..(n - 1)
    BY <1>1
  <2>. QED
    BY <2>1, <1>6, <1>7
<1>11. EscapesTo(o, all, s, n, {c})
  <2>1. o[n] = Len(all)
    BY <1>5, <1>7
  <2>. HIDE DEF o, all
  <2>. QED
    BY <2>1, <1>8, <1>9, <1>10 DEF EscapesTo
<1>. QED
  <2>. HIDE DEF o
  <2>1. \E x : EscapesTo(x, all, s, n, {c})
    BY <1>11, Zenon
  <2>. QED
    BY <2>1, <1>5 DEF piece

\* What a replacement makes of a text.
LEMMA ReplacedEscapes ==
    ASSUME NEW S, "\\" \in S, NEW s \in Seq(S), NEW c
    PROVE  /\ Replaced(s, c) \in Seq(S)
           /\ \E off : EscapesTo(off, Replaced(s, c), s, Len(s), {c})
<1> DEFINE pieces == [i \in 1..Len(s) |-> Escaped(s[i], c)]
<1>0. Len(s) \in Nat
  OBVIOUS
<1>1. Len(pieces) = Len(s) /\ \A i \in 1..Len(s) : pieces[i] = Escaped(s[i], c)
  OBVIOUS
<1>2. \E o : EscapesTo(o, <<>>, s, 0, {c})
  <2> DEFINE o == [i \in 0..0 |-> 0]
  <2>1. o \in [0..0 -> 0..0] /\ o[0] = 0 /\ Len(<<>>) = 0 /\ 1..0 = {}
    OBVIOUS
  <2>. HIDE DEF o
  <2>2. EscapesTo(o, <<>>, s, 0, {c})
    BY <2>1 DEF EscapesTo
  <2>. QED
    BY <2>2, Zenon
<1>3. CASE Len(s) = 0
  <2>1. pieces = <<>>
    BY <1>3
  <2>2. FlattenSeq(pieces) = <<>>
    BY <2>1 DEF FlattenSeq
  <2>3. Replaced(s, c) = <<>>
    BY <2>2 DEF Replaced
  <2>4. <<>> \in Seq(S)
    OBVIOUS
  <2>. QED
    BY <1>2, <1>3, <2>3, <2>4
<1>4. CASE Len(s) # 0
  <2>1. PICK f : FlatIs(pieces, Len(s), f) /\ FlattenSeq(pieces) = f[Len(s)]
    <3>. HIDE DEF pieces
    <3>. QED
      BY <1>0, <1>1, <1>4, FlattenIs
  <2>2. \A i \in 1..Len(s) : f[i] = IF i = 1 THEN pieces[i] ELSE f[i - 1] \o pieces[i]
    <3>. HIDE DEF pieces
    <3>. QED
      BY <2>1, Zenon DEF FlatIs
  <2> DEFINE Good(i) == f[i] \in Seq(S) /\ \E o : EscapesTo(o, f[i], s, i, {c})
             failing == {i \in Nat : i \in 1..Len(s) /\ ~ Good(i)}
  <2>3. ASSUME failing # {} PROVE FALSE
    <3>1. PICK n \in failing : \A k \in Nat : k < n => k \notin failing
      <4>1. failing \in SUBSET Nat
        OBVIOUS
      <4>. HIDE DEF failing
      <4>. QED
        BY <2>3, <4>1, LeastIs
    <3>2. n \in 1..Len(s) /\ ~ Good(n)
      OBVIOUS
    <3>3. n \in Nat /\ n - 1 \in Nat /\ n >= 1 /\ s[n] \in S
      BY <3>2
    <3>4. CASE n = 1
      <4> DEFINE piece == Escaped(s[n], c)
      <4>1. /\ <<>> \o piece \in Seq(S) /\ \E o : EscapesTo(o, <<>> \o piece, s, n, {c})
        <5>1. <<>> \in Seq(S)
          OBVIOUS
        <5>2. PICK o : EscapesTo(o, <<>>, s, 0, {c})
          BY <1>2
        <5>3. n - 1 = 0
          BY <3>4
        <5>. QED
          BY <3>2, <5>1, <5>2, <5>3, EscapesGrow
      <4>2. piece \in Seq(S)
        BY <3>3, EscapedIs
      <4>3. <<>> \o piece = piece
        <5>. HIDE DEF piece
        <5>. QED
          BY <4>2, ConcatEmptySeq
      <4>4. f[n] = piece
        BY <1>1, <2>2, <3>2, <3>4
      <4>. QED
        BY <3>2, <4>1, <4>3, <4>4
    <3>5. CASE n # 1
      <4>1. n - 1 \in 1..Len(s) /\ n - 1 < n
        BY <3>2, <3>5
      <4>2. Good(n - 1)
        BY <3>1, <3>3, <4>1
      <4>3. PICK o : EscapesTo(o, f[n - 1], s, n - 1, {c})
        BY <4>2
      <4>4. f[n] = f[n - 1] \o Escaped(s[n], c)
        BY <1>1, <2>2, <3>2, <3>5
      <4>5. f[n - 1] \in Seq(S)
        BY <4>2
      <4>6. Good(n)
        <5>1. ASSUME NEW e \in Seq(S), EscapesTo(o, e, s, n - 1, {c})
              PROVE  /\ e \o Escaped(s[n], c) \in Seq(S)
                     /\ \E x : EscapesTo(x, e \o Escaped(s[n], c), s, n, {c})
          BY <3>2, <5>1, EscapesGrow
        <5>. QED
          BY <4>3, <4>4, <4>5, <5>1
      <4>. QED
        BY <3>2, <4>6
    <3>. QED
      BY <3>4, <3>5
  <2>4. Len(s) \in Nat /\ Len(s) \in 1..Len(s)
    BY <1>0, <1>4
  <2>5. Good(Len(s))
    BY <2>3, <2>4
  <2>6. Replaced(s, c) = f[Len(s)]
    BY <2>1 DEF Replaced
  <2>. QED
    BY <2>5, <2>6
<1>. QED
  BY <1>3, <1>4

\* Escaping a letter more escapes it, and leaves what is escaped, as long as
\* the backslash itself is not the letter.
LEMMA EscapesTwice ==
    ASSUME NEW S, NEW s \in Seq(S), NEW C, NEW e \in Seq(S), NEW off, EscapesTo(off, e, s, Len(s), C),
           NEW c, c \notin C, c # "\\", NEW f \in Seq(S), NEW more, EscapesTo(more, f, e, Len(e), {c})
    PROVE  \E both : EscapesTo(both, f, s, Len(s), C \cup {c})
<1> DEFINE both == [i \in 0..Len(s) |-> more[off[i]]]
<1>1. Len(s) \in Nat /\ Len(e) \in Nat /\ Len(f) \in Nat
  OBVIOUS
<1>2. /\ off \in [0..Len(s) -> 0..Len(e)]
      /\ off[0] = 0 /\ off[Len(s)] = Len(e)
      /\ \A i \in 1..Len(s) : /\ off[i] = off[i - 1] + (IF s[i] \in C THEN 2 ELSE 1)
                              /\ e[off[i]] = s[i]
                              /\ s[i] \in C => e[off[i] - 1] = "\\"
  BY DEF EscapesTo
<1>3. /\ more \in [0..Len(e) -> 0..Len(f)]
      /\ more[0] = 0 /\ more[Len(e)] = Len(f)
      /\ \A i \in 1..Len(e) : /\ more[i] = more[i - 1] + (IF e[i] \in {c} THEN 2 ELSE 1)
                              /\ f[more[i]] = e[i]
                              /\ e[i] \in {c} => f[more[i] - 1] = "\\"
  BY DEF EscapesTo
<1>4. \A i \in 0..Len(s) : both[i] = more[off[i]] /\ off[i] \in 0..Len(e)
  BY <1>2
<1>5. both \in [0..Len(s) -> 0..Len(f)]
  <2>1. \A i \in 0..Len(s) : more[off[i]] \in 0..Len(f)
    BY <1>3, <1>4
  <2>. QED
    BY <2>1
<1>6. both[0] = 0 /\ both[Len(s)] = Len(f)
  <2>1. 0 \in 0..Len(s) /\ Len(s) \in 0..Len(s)
    BY <1>1
  <2>. HIDE DEF both
  <2>. QED
    BY <2>1, <1>2, <1>3, <1>4
<1> HIDE DEF both
<1>7. ASSUME NEW i \in 1..Len(s)
      PROVE  /\ both[i] = both[i - 1] + (IF s[i] \in C \cup {c} THEN 2 ELSE 1)
             /\ f[both[i]] = s[i]
             /\ s[i] \in C \cup {c} => f[both[i] - 1] = "\\"
  <2>1. i \in 0..Len(s) /\ i - 1 \in 0..Len(s)
    BY <1>1
  <2>2. both[i] = more[off[i]] /\ both[i - 1] = more[off[i - 1]]
    BY <1>4, <2>1
  <2>3. off[i] \in 0..Len(e) /\ off[i - 1] \in 0..Len(e)
    BY <1>4, <2>1
  <2>4. /\ off[i] = off[i - 1] + (IF s[i] \in C THEN 2 ELSE 1)
        /\ e[off[i]] = s[i]
        /\ s[i] \in C => e[off[i] - 1] = "\\"
    BY <1>2
  <2>5. off[i] \in 1..Len(e)
    BY <1>1, <2>3, <2>4
  <2>6. /\ more[off[i]] = more[off[i] - 1] + (IF s[i] \in {c} THEN 2 ELSE 1)
        /\ f[more[off[i]]] = s[i]
        /\ s[i] \in {c} => f[more[off[i]] - 1] = "\\"
    BY <1>3, <2>4, <2>5
  <2>7. CASE s[i] \in C
    <3>1. s[i] \notin {c} /\ off[i] = off[i - 1] + 2 /\ e[off[i] - 1] = "\\"
      BY <2>4, <2>7
    <3>2. off[i] - 1 \in 1..Len(e) /\ (off[i] - 1) - 1 = off[i - 1]
      BY <1>1, <2>3, <3>1
    <3>3. /\ more[off[i] - 1] = more[(off[i] - 1) - 1] + 1
          /\ f[more[off[i] - 1]] = "\\"
      BY <1>3, <3>1, <3>2
    <3>4. more[off[i]] = more[off[i] - 1] + 1
      BY <2>6, <3>1
    <3>5. more[off[i - 1]] \in Nat /\ more[off[i] - 1] \in Nat
      BY <1>1, <1>3, <2>3, <3>2
    <3>6. more[off[i]] - 1 = more[off[i] - 1] /\ more[off[i]] = more[off[i - 1]] + 2
      BY <3>2, <3>3, <3>4, <3>5
    <3>. QED
      BY <2>2, <2>6, <2>7, <3>3, <3>6
  <2>8. CASE s[i] \notin C
    <3>1. off[i] - 1 = off[i - 1]
      BY <2>3, <2>4, <2>8
    <3>. QED
      BY <2>2, <2>6, <2>8, <3>1
  <2>. QED
    BY <2>7, <2>8
<1>8. EscapesTo(both, f, s, Len(s), C \cup {c})
  BY <1>5, <1>6, <1>7 DEF EscapesTo
<1>. QED
  BY <1>8, Zenon

\* What a pattern consists of: the text, escaped, and a percent sign at each end.
LEMMA LikePatternIs ==
    ASSUME NEW S, "\\" \in S, "%" \in S, NEW q \in Seq(S)
    PROVE  \E e \in Seq(S) : /\ LikePattern(q) = <<"%">> \o e \o <<"%">>
                             /\ \E off : EscapesTo(off, e, q, Len(q), {"\\", "%", "_"})
<1> DEFINE e1 == Replaced(q, "\\")
           e2 == Replaced(e1, "%")
           e3 == Replaced(e2, "_")
<1>1. e1 \in Seq(S) /\ \E off : EscapesTo(off, e1, q, Len(q), {"\\"})
  BY ReplacedEscapes
<1> HIDE DEF e1
<1>2. e2 \in Seq(S) /\ \E off : EscapesTo(off, e2, e1, Len(e1), {"%"})
  BY <1>1, ReplacedEscapes
<1>3. \E off : EscapesTo(off, e2, q, Len(q), {"\\"} \cup {"%"})
  <2>. HIDE DEF e2
  <2>1. "%" \notin {"\\"} /\ "%" # "\\"
    OBVIOUS
  <2>2. PICK off : EscapesTo(off, e1, q, Len(q), {"\\"})
    BY <1>1
  <2>3. PICK more : EscapesTo(more, e2, e1, Len(e1), {"%"})
    BY <1>2
  <2>. QED
    BY <1>1, <1>2, <2>1, <2>2, <2>3, EscapesTwice
<1> HIDE DEF e2
<1>4. e3 \in Seq(S) /\ \E off : EscapesTo(off, e3, e2, Len(e2), {"_"})
  BY <1>2, ReplacedEscapes
<1> HIDE DEF e3
<1>5. \E off : EscapesTo(off, e3, q, Len(q), ({"\\"} \cup {"%"}) \cup {"_"})
  <2>1. "_" \notin {"\\"} \cup {"%"} /\ "_" # "\\"
    OBVIOUS
  <2>2. PICK off : EscapesTo(off, e2, q, Len(q), {"\\"} \cup {"%"})
    BY <1>3
  <2>3. PICK more : EscapesTo(more, e3, e2, Len(e2), {"_"})
    BY <1>4
  <2>. QED
    BY <1>2, <1>4, <2>1, <2>2, <2>3, EscapesTwice
<1>6. ({"\\"} \cup {"%"}) \cup {"_"} = {"\\", "%", "_"}
  OBVIOUS
<1>7. LikePattern(q) = <<"%">> \o e3 \o <<"%">>
  BY DEF LikePattern, e1, e2, e3
<1>. QED
  BY <1>4, <1>5, <1>6, <1>7

\* From its m-th character on, what the matching of a pattern computes.
BeginsFrom(t, p, m, b) ==
    b = [i \in m..(Len(p) + 1) |->
            IF i = Len(p) + 1 THEN {Len(t) + 1}
            ELSE Begins(t, p, i, b[i + 1], IF i < Len(p) THEN b[i + 2] ELSE {})]

LEMMA BeginsExist ==
    ASSUME NEW t, NEW p, Len(p) \in Nat
    PROVE  \E b : BeginsFrom(t, p, 1, b)
<1> DEFINE L == Len(p) + 1
           failing == {n \in Nat : n <= Len(p) /\ ~ \E b : BeginsFrom(t, p, L - n, b)}
<1>1. SUFFICES ASSUME failing # {} PROVE FALSE
  <2>1. L - Len(p) = 1 /\ Len(p) <= Len(p)
    OBVIOUS
  <2>. QED
    BY <2>1
<1>2. PICK n \in failing : \A k \in Nat : k < n => k \notin failing
  <2>1. failing \in SUBSET Nat
    OBVIOUS
  <2>. HIDE DEF failing
  <2>. QED
    BY <1>1, <2>1, LeastIs
<1>3. n \in Nat /\ n <= Len(p) /\ ~ \E b : BeginsFrom(t, p, L - n, b)
  OBVIOUS
<1>4. n # 0
  <2> DEFINE none == [i \in L..L |-> {Len(t) + 1}]
  <2>1. \A i \in L..L : i = Len(p) + 1
    OBVIOUS
  <2>2. none = [i \in L..L |-> IF i = Len(p) + 1 THEN {Len(t) + 1}
                               ELSE Begins(t, p, i, none[i + 1], IF i < Len(p) THEN none[i + 2] ELSE {})]
    BY <2>1, Zenon
  <2>3. L - 0 = Len(p) + 1
    OBVIOUS
  <2>. HIDE DEF none
  <2>4. BeginsFrom(t, p, L - 0, none)
    BY <2>2, <2>3 DEF BeginsFrom
  <2>. QED
    BY <1>3, <2>4
<1>5. n - 1 \in Nat /\ n - 1 < n /\ n - 1 <= Len(p)
  BY <1>3, <1>4
<1>6. PICK g : BeginsFrom(t, p, L - (n - 1), g)
  BY <1>2, <1>5
<1> DEFINE m == L - n
           b == [i \in m..L |-> IF i = m THEN Begins(t, p, m, g[m + 1], IF m < Len(p) THEN g[m + 2] ELSE {})
                                ELSE g[i]]
<1>7. m \in Nat /\ L - (n - 1) = m + 1 /\ m >= 1 /\ m < L /\ L \in Nat
  BY <1>3, <1>4, <1>5
<1>8. /\ b[m] = Begins(t, p, m, g[m + 1], IF m < Len(p) THEN g[m + 2] ELSE {})
      /\ \A i \in (m + 1)..L : b[i] = g[i]
  <2>. HIDE DEF m, L
  <2>1. m \in m..L /\ \A i \in (m + 1)..L : i \in m..L /\ i # m
    BY <1>7
  <2>. QED
    BY <2>1
<1>9. \A i \in (m + 1)..L : g[i] = IF i = Len(p) + 1 THEN {Len(t) + 1}
                                   ELSE Begins(t, p, i, g[i + 1], IF i < Len(p) THEN g[i + 2] ELSE {})
  <2>1. BeginsFrom(t, p, m + 1, g)
    BY <1>6, <1>7
  <2>. HIDE DEF m
  <2>. QED
    BY <2>1, Zenon DEF BeginsFrom
<1>10. \A i \in m..L : b[i] = IF i = Len(p) + 1 THEN {Len(t) + 1}
                              ELSE Begins(t, p, i, b[i + 1], IF i < Len(p) THEN b[i + 2] ELSE {})
  <2>. TAKE i \in m..L
  <2>1. CASE i = m
    <3>1. m + 1 \in (m + 1)..L /\ m # Len(p) + 1
      BY <1>7
    <3>2. m < Len(p) => m + 2 \in (m + 1)..L
      BY <1>7
    <3>. HIDE DEF b, m
    <3>3. b[m + 1] = g[m + 1] /\ (m < Len(p) => b[m + 2] = g[m + 2])
      BY <1>8, <3>1, <3>2
    <3>. QED
      BY <2>1, <1>8, <3>1, <3>3
  <2>2. CASE i # m
    <3>1. i \in (m + 1)..L
      BY <2>2, <1>7
    <3>2. i # Len(p) + 1 => i + 1 \in (m + 1)..L
      BY <3>1, <1>7
    <3>3. i < Len(p) => i + 2 \in (m + 1)..L
      BY <3>1, <1>7
    <3>. HIDE DEF b, m, L
    <3>4. b[i] = g[i] /\ (i # Len(p) + 1 => b[i + 1] = g[i + 1]) /\ (i < Len(p) => b[i + 2] = g[i + 2])
      BY <1>8, <3>1, <3>2, <3>3
    <3>5. g[i] = IF i = Len(p) + 1 THEN {Len(t) + 1}
                 ELSE Begins(t, p, i, g[i + 1], IF i < Len(p) THEN g[i + 2] ELSE {})
      BY <1>9, <3>1
    <3>. QED
      BY <3>4, <3>5
  <2>. QED
    BY <2>1, <2>2
<1>11. BeginsFrom(t, p, m, b)
  <2> DEFINE h == [i \in m..L |-> IF i = Len(p) + 1 THEN {Len(t) + 1}
                                  ELSE Begins(t, p, i, b[i + 1], IF i < Len(p) THEN b[i + 2] ELSE {})]
  <2>1. \A i \in m..L : b[i] = h[i]
    <3>. HIDE DEF b, m, L
    <3>. QED
      BY <1>10
  <2>2. b = [i \in m..L |-> b[i]] /\ h = [i \in m..L |-> h[i]]
    OBVIOUS
  <2>3. b = h
    <3>. HIDE DEF b, h
    <3>. QED
      BY <2>1, <2>2
  <2>. HIDE DEF b
  <2>. QED
    BY <2>3 DEF BeginsFrom
<1>. QED
  BY <1>3, <1>11

LEMMA LikeIs ==
    ASSUME NEW t, NEW p, Len(p) \in Nat
    PROVE  \E b : BeginsFrom(t, p, 1, b) /\ (Like(t, p) <=> 1 \in b[1])
<1> DEFINE b == CHOOSE b : b = [i \in 1..(Len(p) + 1) |->
                    IF i = Len(p) + 1 THEN {Len(t) + 1}
                    ELSE Begins(t, p, i, b[i + 1], IF i < Len(p) THEN b[i + 2] ELSE {})]
<1>1. BeginsFrom(t, p, 1, b)
  <2>1. \E x : BeginsFrom(t, p, 1, x)
    BY BeginsExist
  <2>. QED
    BY <2>1, Zenon DEF BeginsFrom
<1>2. Like(t, p) <=> 1 \in b[1]
  BY DEF Like
<1>. QED
  BY <1>1, <1>2, Zenon

\* The places of t from which q stands there from its i-th letter on, the first
\* i - 1 left out.
Stands(t, q, i) == {j \in 1..(Len(t) + 1) : /\ j + (Len(q) - i) <= Len(t) + 1
                                            /\ \A k \in 1..(Len(q) - i) : t[j + k - 1] = q[i + k]}

\* One letter more, on the left.
LEMMA StandsLonger ==
    ASSUME NEW t, Len(t) \in Nat, NEW q, Len(q) \in Nat, NEW i \in 1..Len(q)
    PROVE  Stands(t, q, i - 1) = {j \in 1..Len(t) : j + 1 \in Stands(t, q, i) /\ t[j] = q[i]}
<1> DEFINE n == Len(q) - i
<1>1. n \in Nat /\ Len(q) - (i - 1) = n + 1 /\ i \in Nat
  OBVIOUS
<1>2. ASSUME NEW j \in Stands(t, q, i - 1)
      PROVE  j \in 1..Len(t) /\ j + 1 \in Stands(t, q, i) /\ t[j] = q[i]
  <2>1. /\ j \in 1..(Len(t) + 1) /\ j + (n + 1) <= Len(t) + 1
        /\ \A k \in 1..(n + 1) : t[j + k - 1] = q[(i - 1) + k]
    BY <1>1 DEF Stands
  <2>. HIDE DEF n
  <2>2. j \in 1..Len(t) /\ j + 1 \in 1..(Len(t) + 1) /\ (j + 1) + n <= Len(t) + 1
    BY <1>1, <2>1
  <2>3. t[j] = q[i]
    <3>1. 1 \in 1..(n + 1) /\ j + 1 - 1 = j /\ (i - 1) + 1 = i
      BY <1>1, <2>2
    <3>. QED
      BY <2>1, <3>1
  <2>4. ASSUME NEW k \in 1..n PROVE t[(j + 1) + k - 1] = q[i + k]
    <3>1. k + 1 \in 1..(n + 1) /\ j + (k + 1) - 1 = (j + 1) + k - 1 /\ (i - 1) + (k + 1) = i + k
      BY <1>1, <2>2
    <3>. QED
      BY <2>1, <3>1
  <2>. QED
    BY <2>2, <2>3, <2>4 DEF Stands, n
<1>3. ASSUME NEW j \in 1..Len(t), j + 1 \in Stands(t, q, i), t[j] = q[i]
      PROVE  j \in Stands(t, q, i - 1)
  <2>1. /\ (j + 1) + n <= Len(t) + 1
        /\ \A k \in 1..n : t[(j + 1) + k - 1] = q[i + k]
    BY <1>3 DEF Stands
  <2>. HIDE DEF n
  <2>2. j \in 1..(Len(t) + 1) /\ j + (n + 1) <= Len(t) + 1
    BY <1>1, <2>1
  <2>3. ASSUME NEW k \in 1..(n + 1) PROVE t[j + k - 1] = q[(i - 1) + k]
    <3>1. CASE k = 1
      <4>1. j + k - 1 = j /\ (i - 1) + k = i
        BY <1>1, <2>2, <3>1
      <4>. QED
        BY <1>3, <4>1
    <3>2. CASE k # 1
      <4>1. /\ k - 1 \in 1..n
            /\ (j + 1) + (k - 1) - 1 = j + k - 1 /\ i + (k - 1) = (i - 1) + k
        BY <1>1, <2>2, <3>2
      <4>. QED
        BY <2>1, <4>1
    <3>. QED
      BY <3>1, <3>2
  <2>. QED
    BY <1>1, <2>2, <2>3 DEF Stands
<1>. QED
  BY <1>2, <1>3 DEF Stands

\* A text between two signs.
LEMMA BetweenIs ==
    ASSUME NEW S, NEW e \in Seq(S), NEW sign \in Seq(S), Len(sign) = 1
    PROVE  /\ Len(sign \o e \o sign) = Len(e) + 2
           /\ (sign \o e \o sign)[1] = sign[1] /\ (sign \o e \o sign)[Len(e) + 2] = sign[1]
           /\ \A k \in 1..Len(e) : (sign \o e \o sign)[k + 1] = e[k]
<1>1. Len(e) \in Nat /\ 1 \in Nat /\ 1 \in 1..1
  OBVIOUS
<1>2. /\ sign \o e \in Seq(S) /\ Len(sign \o e) = 1 + Len(e)
      /\ \A k \in 1..1 : (sign \o e)[k] = sign[k]
      /\ \A k \in 1..Len(e) : (sign \o e)[1 + k] = e[k]
  BY ConcatJoins
<1>3. ASSUME NEW front \in Seq(S), Len(front) = 1 + Len(e)
      PROVE  /\ Len(front \o sign) = (1 + Len(e)) + 1
             /\ \A k \in 1..(1 + Len(e)) : (front \o sign)[k] = front[k]
             /\ \A k \in 1..1 : (front \o sign)[(1 + Len(e)) + k] = sign[k]
  BY <1>3, ConcatJoins
<1>4. /\ Len(sign \o e \o sign) = (1 + Len(e)) + 1
      /\ \A k \in 1..(1 + Len(e)) : (sign \o e \o sign)[k] = (sign \o e)[k]
      /\ \A k \in 1..1 : (sign \o e \o sign)[(1 + Len(e)) + k] = sign[k]
  BY <1>2, <1>3, Zenon
<1>5. (1 + Len(e)) + 1 = Len(e) + 2 /\ 1 \in 1..(1 + Len(e))
  BY <1>1
<1>6. \A k \in 1..Len(e) : 1 + k = k + 1 /\ k + 1 \in 1..(1 + Len(e))
  BY <1>1
<1>. QED
  BY <1>1, <1>2, <1>4, <1>5, <1>6

\* like_pattern of catalog.py: whatever is typed, made a pattern it matches the
\* texts in which it stands, letter by letter, and no others.
THEOREM PatternsAreLiteral ==
    ASSUME NEW S, "\\" \in S, "%" \in S, NEW q \in Seq(S), NEW t \in Seq(S)
    PROVE  Like(t, LikePattern(q)) <=> Within(t, q)
<1> DEFINE p == LikePattern(q)
           special == {"\\", "%", "_"}
<1>1. PICK e \in Seq(S) : /\ p = <<"%">> \o e \o <<"%">>
                          /\ \E off : EscapesTo(off, e, q, Len(q), special)
  BY LikePatternIs
<1>2. PICK off : EscapesTo(off, e, q, Len(q), special)
  BY <1>1
<1>3. Len(t) \in Nat /\ Len(q) \in Nat /\ Len(e) \in Nat
  OBVIOUS
<1>4. /\ off \in [0..Len(q) -> 0..Len(e)]
      /\ off[0] = 0 /\ off[Len(q)] = Len(e)
      /\ \A i \in 1..Len(q) : /\ off[i] = off[i - 1] + (IF q[i] \in special THEN 2 ELSE 1)
                              /\ e[off[i]] = q[i]
                              /\ q[i] \in special => e[off[i] - 1] = "\\"
  BY <1>2 DEF EscapesTo
<1> HIDE DEF p
<1>5. /\ Len(p) = Len(e) + 2 /\ p[1] = "%" /\ p[Len(e) + 2] = "%"
      /\ \A k \in 1..Len(e) : p[k + 1] = e[k]
  <2>1. <<"%">> \in Seq(S) /\ Len(<<"%">>) = 1 /\ <<"%">>[1] = "%"
    OBVIOUS
  <2>. QED
    BY <1>1, <2>1, BetweenIs
<1>6. PICK b : BeginsFrom(t, p, 1, b) /\ (Like(t, p) <=> 1 \in b[1])
  <2>1. Len(p) \in Nat
    BY <1>3, <1>5
  <2>. QED
    BY <2>1, LikeIs
<1>7. \A i \in 1..(Len(p) + 1) : b[i] = IF i = Len(p) + 1 THEN {Len(t) + 1}
                                        ELSE Begins(t, p, i, b[i + 1], IF i < Len(p) THEN b[i + 2] ELSE {})
  BY <1>6, Zenon DEF BeginsFrom
\* the last percent sign matches from everywhere
<1>8. b[Len(e) + 2] = 1..(Len(t) + 1)
  <2>1. b[Len(e) + 3] = {Len(t) + 1}
    <3>1. Len(e) + 3 = Len(p) + 1 /\ Len(e) + 3 \in 1..(Len(p) + 1)
      BY <1>3, <1>5
    <3>. QED
      BY <3>1, <1>7
  <2>2. b[Len(e) + 2] = Begins(t, p, Len(e) + 2, b[Len(e) + 3], {})
    <3>1. /\ Len(e) + 2 # Len(p) + 1 /\ Len(e) + 2 \in 1..(Len(p) + 1) /\ ~ (Len(e) + 2 < Len(p))
          /\ (Len(e) + 2) + 1 = Len(e) + 3
      BY <1>3, <1>5
    <3>. QED
      BY <3>1, <1>7
  <2>3. b[Len(e) + 2] = {j \in 1..(Len(t) + 1) : \E k \in {Len(t) + 1} : j <= k}
    BY <2>1, <2>2, <1>5 DEF Begins
  <2>. QED
    BY <2>3, <1>3
\* and what is before it, from where the letters stand
<1> DEFINE failing == {n \in Nat : n <= Len(q) /\ b[off[Len(q) - n] + 2] # Stands(t, q, Len(q) - n)}
<1>9. ASSUME failing # {} PROVE FALSE
  <2>1. PICK n \in failing : \A k \in Nat : k < n => k \notin failing
    <3>1. failing \in SUBSET Nat
      OBVIOUS
    <3>. HIDE DEF failing
    <3>. QED
      BY <1>9, <3>1, LeastIs
  <2>2. n \in Nat /\ n <= Len(q) /\ b[off[Len(q) - n] + 2] # Stands(t, q, Len(q) - n)
    OBVIOUS
  <2>3. n # 0
    <3>1. Len(q) - 0 = Len(q) /\ Len(q) - Len(q) = 0
      BY <1>3
    <3>2. Stands(t, q, Len(q)) = 1..(Len(t) + 1)
      <4>1. \A j \in 1..(Len(t) + 1) : j + 0 <= Len(t) + 1
        BY <1>3
      <4>. QED
        BY <3>1, <4>1 DEF Stands
    <3>3. b[off[Len(q)] + 2] = 1..(Len(t) + 1)
      BY <1>4, <1>8
    <3>. QED
      BY <2>2, <3>1, <3>2, <3>3
  <2> DEFINE i == Len(q) - (n - 1)
  <2>4. n - 1 \in Nat /\ n - 1 < n /\ i \in 1..Len(q) /\ i - 1 = Len(q) - n /\ i \in 0..Len(q) /\ i - 1 \in 0..Len(q)
    BY <2>2, <2>3, <1>3
  <2>5. b[off[i] + 2] = Stands(t, q, i)
    <3>1. n - 1 \notin failing
      BY <2>1, <2>4
    <3>. QED
      BY <2>2, <2>4, <3>1, <1>3
  <2> HIDE DEF i
  <2>6. /\ off[i] = off[i - 1] + (IF q[i] \in special THEN 2 ELSE 1)
        /\ e[off[i]] = q[i]
        /\ q[i] \in special => e[off[i] - 1] = "\\"
    BY <1>4, <2>4
  <2>7. off[i] \in 0..Len(e) /\ off[i - 1] \in 0..Len(e)
    BY <1>4, <2>4
  <2> DEFINE x == off[i - 1] + 2
  <2>8. x \in 1..(Len(p) + 1) /\ x # Len(p) + 1 /\ x < Len(p)
    <3>1. off[i] = off[i - 1] + 1 \/ off[i] = off[i - 1] + 2
      <4>. HIDE DEF special
      <4>. QED
        BY <2>6
    <3>2. Len(p) = Len(e) + 2
      BY <1>5
    <3>. QED
      BY <1>3, <2>7, <3>1, <3>2
  <2>9. b[x] = Begins(t, p, x, b[x + 1], b[x + 2])
    <3>. HIDE DEF x
    <3>. QED
      BY <1>7, <2>8
  <2>10. b[x] = {j \in 1..Len(t) : j + 1 \in Stands(t, q, i) /\ t[j] = q[i]}
    <3>1. CASE q[i] \in special
      <4>1. /\ off[i] - 1 \in 1..Len(e) /\ (off[i] - 1) + 1 = x
            /\ off[i] \in 1..Len(e) /\ off[i] + 1 = x + 1 /\ off[i] + 2 = x + 2
        <5>1. off[i] = off[i - 1] + 2
          BY <2>6, <3>1
        <5>. QED
          BY <1>3, <2>7, <5>1
      <4>2. p[x] = "\\" /\ p[x + 1] = q[i]
        BY <1>5, <2>6, <3>1, <4>1
      <4>3. Begins(t, p, x, b[x + 1], b[x + 2]) = {j \in 1..Len(t) : j + 1 \in b[x + 2] /\ t[j] = p[x + 1]}
        <5>. HIDE DEF x
        <5>. QED
          BY <4>2 DEF Begins
      <4>. HIDE DEF x
      <4>. QED
        BY <2>5, <2>9, <4>1, <4>2, <4>3
    <3>2. CASE q[i] \notin special
      <4>1. off[i] \in 1..Len(e) /\ off[i] + 1 = x /\ off[i] + 2 = x + 1
        <5>1. off[i] = off[i - 1] + 1
          <6>. HIDE DEF special
          <6>. QED
            BY <2>6, <3>2
        <5>. QED
          BY <1>3, <2>7, <5>1
      <4>2. p[x] = q[i]
        BY <1>5, <2>6, <4>1
      <4>3. q[i] # "%" /\ q[i] # "_" /\ q[i] # "\\"
        BY <3>2
      <4>4. Begins(t, p, x, b[x + 1], b[x + 2]) = {j \in 1..Len(t) : j + 1 \in b[x + 1] /\ t[j] = p[x]}
        <5>. HIDE DEF x
        <5>. QED
          BY <4>2, <4>3 DEF Begins
      <4>. HIDE DEF x
      <4>. QED
        BY <2>5, <2>9, <4>1, <4>2, <4>4
    <3>. QED
      BY <3>1, <3>2
  <2>11. Stands(t, q, i - 1) = {j \in 1..Len(t) : j + 1 \in Stands(t, q, i) /\ t[j] = q[i]}
    BY <1>3, <2>4, StandsLonger
  <2>. QED
    BY <2>2, <2>4, <2>10, <2>11
\* so that the first percent sign asks for a place where they all stand
<1>10. b[2] = Stands(t, q, 0)
  <2>1. Len(q) \in Nat /\ Len(q) <= Len(q) /\ Len(q) - Len(q) = 0 /\ 0 + 2 = 2
    BY <1>3
  <2>2. Len(q) \notin failing
    BY <1>9
  <2>. QED
    BY <1>4, <2>1, <2>2
<1>11. 1 \in b[1] <=> \E k \in Stands(t, q, 0) : TRUE
  <2>1. 1 \in 1..(Len(p) + 1) /\ 1 # Len(p) + 1 /\ 1 < Len(p) /\ 1 + 1 = 2
    BY <1>3, <1>5
  <2>2. b[1] = Begins(t, p, 1, b[2], b[3])
    BY <2>1, <1>7
  <2>3. b[1] = {j \in 1..(Len(t) + 1) : \E k \in b[2] : j <= k}
    BY <2>2, <1>5 DEF Begins
  <2>4. \A k \in Stands(t, q, 0) : 1 <= k
    BY DEF Stands
  <2>5. 1 \in 1..(Len(t) + 1)
    BY <1>3
  <2>. QED
    BY <1>10, <2>3, <2>4, <2>5
<1>12. ASSUME NEW k \in Stands(t, q, 0) PROVE Within(t, q)
  <2>1. /\ k \in 1..(Len(t) + 1) /\ k + Len(q) <= Len(t) + 1
        /\ \A n \in 1..Len(q) : t[k + n - 1] = q[n]
    <3>1. Len(q) - 0 = Len(q) /\ \A n \in 1..Len(q) : 0 + n = n
      BY <1>3
    <3>. QED
      BY <3>1 DEF Stands
  <2>2. k - 1 \in 0..(Len(t) - Len(q)) /\ k - 1 \in Nat /\ (k - 1) + Len(q) \in Nat
    BY <1>3, <2>1
  <2>3. SubSeq(t, (k - 1) + 1, (k - 1) + Len(q)) = q
    <3> DEFINE cut == SubSeq(t, (k - 1) + 1, (k - 1) + Len(q))
    <3>1. /\ cut \in Seq(S) /\ Len(cut) = ((k - 1) + Len(q)) - (k - 1)
          /\ \A n \in 1..(((k - 1) + Len(q)) - (k - 1)) : cut[n] = t[(k - 1) + n]
      <4>1. k - 1 <= (k - 1) + Len(q) /\ (k - 1) + Len(q) <= Len(t)
        BY <1>3, <2>1
      <4>. QED
        BY <2>2, <4>1, SubSeqIs
    <3>2. ((k - 1) + Len(q)) - (k - 1) = Len(q) /\ \A n \in 1..Len(q) : (k - 1) + n = k + n - 1
      BY <1>3, <2>1
    <3>. HIDE DEF cut
    <3>3. Len(cut) = Len(q) /\ \A n \in 1..Len(q) : cut[n] = q[n]
      BY <2>1, <3>1, <3>2
    <3>4. cut = q
      BY <3>1, <3>3, SeqEqual
    <3>. QED
      BY <3>4 DEF cut
  <2>. QED
    BY <2>2, <2>3, Zenon DEF Within
<1>13. ASSUME Within(t, q) PROVE \E k \in Stands(t, q, 0) : TRUE
  <2>1. PICK i \in 0..(Len(t) - Len(q)) : SubSeq(t, i + 1, i + Len(q)) = q
    BY <1>13 DEF Within
  <2>2. i \in Nat /\ i + Len(q) \in Nat /\ i <= i + Len(q) /\ i + Len(q) <= Len(t) /\ (i + Len(q)) - i = Len(q)
    BY <1>3, <2>1
  <2>3. \A n \in 1..((i + Len(q)) - i) : SubSeq(t, i + 1, i + Len(q))[n] = t[i + n]
    BY <2>2, SubSeqIs
  <2>4. \A n \in 1..Len(q) : t[(i + 1) + n - 1] = q[n]
    <3>1. \A n \in 1..Len(q) : (i + 1) + n - 1 = i + n
      BY <2>2
    <3>. QED
      BY <2>1, <2>2, <2>3, <3>1
  <2>5. i + 1 \in 1..(Len(t) + 1) /\ (i + 1) + (Len(q) - 0) <= Len(t) + 1
    BY <1>3, <2>2
  <2>6. Len(q) - 0 = Len(q) /\ \A n \in 1..Len(q) : 0 + n = n
    BY <1>3
  <2>7. i + 1 \in Stands(t, q, 0)
    BY <2>4, <2>5, <2>6 DEF Stands
  <2>. QED
    BY <2>7
<1>. QED
  BY <1>6, <1>11, <1>12, <1>13 DEF p
=============================================================================

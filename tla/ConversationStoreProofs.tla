----------------------- MODULE ConversationStoreProofs -----------------------
(***************************************************************************)
(* Theorems about ConversationStore, for any number of turns, any number   *)
(* of messages a turn adds and of files torn, whether or not turns         *)
(* overlap: what its invariants are, and that it implements Transcript.    *)
(***************************************************************************)
EXTENDS ConversationStore, OperatorProofs
------------------------------------------------------------------------------
(***************************************************************************)
(* What can be read                                                        *)
(***************************************************************************)

Contents == MessageIds \cup {Torn}

\* The positions of the files that parse.
Whole(listing) == {i \in DOMAIN listing : listing[i] # Torn}

LEMMA ReadableTyped ==
    ASSUME NEW s \in Seq(Contents)
    PROVE  /\ Readable(s) \in Seq(MessageIds) /\ Readable(s) \in Seq(Contents)
           /\ Len(Readable(s)) \in Nat /\ DOMAIN Readable(s) = 1..Len(Readable(s))
           /\ Len(Readable(s)) = Cardinality(Whole(s))
           /\ \A n \in 1..Len(Readable(s)) :
                  Nth(Whole(s), n) \in Whole(s) /\ Readable(s)[n] = s[Nth(Whole(s), n)]
<1>1. Whole(s) \in SUBSET DOMAIN s
  BY DEF Whole
<1>2. Readable(s) = Keep(s, Whole(s))
  BY DEF Readable, Whole
<1>3. /\ Readable(s) \in Seq(Contents)
      /\ Cardinality(Whole(s)) \in Nat /\ Len(Readable(s)) = Cardinality(Whole(s))
      /\ DOMAIN Readable(s) = 1..Cardinality(Whole(s))
      /\ \A n \in 1..Cardinality(Whole(s)) :
             Nth(Whole(s), n) \in Whole(s) /\ Readable(s)[n] = s[Nth(Whole(s), n)]
  BY <1>1, <1>2, KeepTyped
<1>4. \A n \in 1..Len(Readable(s)) : Readable(s)[n] \in MessageIds
  <2>1. \A i \in Whole(s) : s[i] \in Contents /\ s[i] # Torn
    <3>1. \A i \in DOMAIN s : s[i] \in Contents
      BY LenProperties, ElementOfSeq
    <3>. QED
      BY <3>1 DEF Whole
  <2>. QED
    BY <1>3, <2>1 DEF Contents
<1>5. Readable(s) \in Seq(MessageIds)
  BY <1>3, <1>4
<1>. QED
  BY <1>3, <1>5

LEMMA ReadableNone == Readable(<<>>) = <<>>
<1>1. Whole(<<>>) = {}
  BY DEF Whole
<1>2. Cardinality({}) = 0
  BY FS_EmptySet
<1>3. Readable(<<>>) = Keep(<<>>, {})
  BY <1>1 DEF Readable, Whole
<1>. QED
  BY <1>2, <1>3 DEF Keep

\* What is written is read behind what was, a torn file is not read.
LEMMA ReadableGrows ==
    ASSUME NEW s \in Seq(Contents), NEW t \in Seq(MessageIds), NEW tail \in {<<>>, <<Torn>>}
    PROVE  /\ s \o t \o tail \in Seq(Contents)
           /\ Readable(s \o t \o tail) = Readable(s) \o t
<1> DEFINE all == s \o t \o tail
           c == Len(Readable(s))
           f == [n \in 1..(c + Len(t)) |->
                   IF n <= c THEN Nth(Whole(s), n) ELSE Len(s) + (n - c)]
<1>1. t \in Seq(Contents) /\ tail \in Seq(Contents) /\ Len(tail) \in {0, 1}
      /\ \A i \in 1..Len(tail) : tail[i] = Torn
  <2>1. t \in Seq(Contents)
    BY SeqMonotonic DEF Contents
  <2>2. Torn \in Contents
    BY DEF Contents
  <2>3. <<Torn>> \in Seq(Contents) /\ Len(<<Torn>>) = 1 /\ \A i \in 1..1 : <<Torn>>[i] = Torn
    BY <2>2
  <2>4. <<>> \in Seq(Contents) /\ Len(<<>>) = 0 /\ \A i \in 1..0 : FALSE
    OBVIOUS
  <2>5. CASE tail = <<>>
    BY <2>1, <2>4, <2>5
  <2>6. CASE tail = <<Torn>>
    BY <2>1, <2>3, <2>6
  <2>. QED
    BY <2>5, <2>6
<1>2. Len(s) \in Nat /\ Len(t) \in Nat /\ c \in Nat
      /\ DOMAIN s = 1..Len(s) /\ DOMAIN t = 1..Len(t)
  BY LenProperties, ReadableTyped
<1>3. /\ all \in Seq(Contents) /\ Len(all) = Len(s) + Len(t) + Len(tail)
      /\ \A i \in 1..Len(s) : all[i] = s[i]
      /\ \A i \in 1..Len(t) : all[Len(s) + i] = t[i]
      /\ \A i \in 1..Len(tail) : all[Len(s) + Len(t) + i] = Torn
  <2>1. /\ s \o t \in Seq(Contents) /\ Len(s \o t) = Len(s) + Len(t)
        /\ \A i \in 1..(Len(s) + Len(t)) : (s \o t)[i] = IF i <= Len(s) THEN s[i] ELSE t[i - Len(s)]
    BY <1>1, ConcatProperties
  <2>2. /\ all \in Seq(Contents) /\ Len(all) = Len(s) + Len(t) + Len(tail)
        /\ \A i \in 1..(Len(s) + Len(t) + Len(tail)) :
               all[i] = IF i <= Len(s) + Len(t) THEN (s \o t)[i] ELSE tail[i - (Len(s) + Len(t))]
    BY <1>1, <2>1, ConcatProperties
  <2>. HIDE DEF all
  <2>3. \A i \in 1..Len(s) : all[i] = s[i]
    BY <1>1, <1>2, <2>1, <2>2
  <2>4. \A i \in 1..Len(t) : all[Len(s) + i] = t[i]
    BY <1>1, <1>2, <2>1, <2>2
  <2>5. \A i \in 1..Len(tail) : all[Len(s) + Len(t) + i] = Torn
    BY <1>1, <1>2, <2>2
  <2>. QED
    BY <2>2, <2>3, <2>4, <2>5
<1>4. /\ \A n \in 1..c : Nth(Whole(s), n) \in Whole(s) /\ Readable(s)[n] = s[Nth(Whole(s), n)]
      /\ c = Cardinality(Whole(s)) /\ Whole(s) \in SUBSET (1..Len(s))
  BY ReadableTyped, <1>2 DEF Whole
<1>5. \A i \in 1..Len(t) : t[i] # Torn /\ t[i] \in MessageIds
  BY ElementOfSeq, TornAssumption
<1>6. DOMAIN all = 1..(Len(s) + Len(t) + Len(tail))
  BY <1>3, LenProperties
<1>. HIDE DEF all, c
<1>7. Lists(f, c + Len(t), Whole(all))
  <2>1. \A n \in 1..(c + Len(t)) : f[n] = IF n <= c THEN Nth(Whole(s), n) ELSE Len(s) + (n - c)
    OBVIOUS
  <2>. HIDE DEF f
  <2>2. \A i \in Whole(s) : i \in Whole(all) /\ i \in 1..Len(s)
    BY <1>1, <1>2, <1>3, <1>4, <1>6 DEF Whole
  <2>3. \A n \in 1..Len(t) : Len(s) + n \in Whole(all)
    BY <1>1, <1>2, <1>3, <1>5, <1>6 DEF Whole
  <2>4. \A n \in 1..(c + Len(t)) : f[n] \in Whole(all)
    <3>. TAKE n \in 1..(c + Len(t))
    <3>1. CASE n <= c
      BY <1>2, <1>4, <2>1, <2>2, <3>1
    <3>2. CASE ~ (n <= c)
      <4>1. n - c \in 1..Len(t) /\ f[n] = Len(s) + (n - c)
        BY <1>2, <2>1, <3>2
      <4>. QED
        BY <2>3, <4>1
    <3>. QED
      BY <3>1, <3>2
  <2>5. \A i, j \in 1..(c + Len(t)) : i < j => f[i] < f[j]
    <3>. TAKE i, j \in 1..(c + Len(t))
    <3>. SUFFICES ASSUME i < j PROVE f[i] < f[j]
      OBVIOUS
    <3>1. CASE j <= c
      <4>1. i \in 1..c /\ j \in 1..c
        BY <1>2, <3>1
      <4>2. Nth(Whole(s), i) < Nth(Whole(s), j)
        BY <1>2, <1>4, <4>1, NthOrders
      <4>. QED
        BY <1>2, <2>1, <3>1, <4>1, <4>2
    <3>2. CASE i <= c /\ ~ (j <= c)
      <4>1. f[i] \in 1..Len(s)
        BY <1>2, <1>4, <2>1, <3>2, <2>2
      <4>2. f[j] = Len(s) + (j - c)
        BY <2>1, <3>2
      <4>. QED
        BY <1>2, <3>2, <4>1, <4>2
    <3>3. CASE ~ (i <= c)
      BY <1>2, <2>1, <3>3
    <3>. QED
      BY <1>2, <3>1, <3>2, <3>3
  <2>6. \A d \in Whole(all) : \E n \in 1..(c + Len(t)) : f[n] = d
    <3>. TAKE d \in Whole(all)
    <3>1. d \in 1..(Len(s) + Len(t) + Len(tail)) /\ all[d] # Torn
      BY <1>6 DEF Whole
    <3>2. CASE d <= Len(s)
      <4>1. d \in 1..Len(s) /\ d \in Whole(s)
        BY <1>1, <1>2, <1>3, <3>1, <3>2 DEF Whole
      <4>2. Rank(Whole(s), d) \in 1..c /\ Nth(Whole(s), Rank(Whole(s), d)) = d
        BY <1>2, <1>4, <4>1, NthOfRank
      <4>3. Rank(Whole(s), d) \in 1..(c + Len(t)) /\ Rank(Whole(s), d) <= c
        BY <1>2, <4>2
      <4>. QED
        BY <2>1, <4>2, <4>3
    <3>3. CASE ~ (d <= Len(s)) /\ d <= Len(s) + Len(t)
      <4>1. PICK n \in 1..(c + Len(t)) : ~ (n <= c) /\ Len(s) + (n - c) = d
        <5> DEFINE n == c + (d - Len(s))
        <5>1. n \in 1..(c + Len(t)) /\ ~ (n <= c) /\ Len(s) + (n - c) = d
          BY <1>1, <1>2, <3>1, <3>3
        <5>. HIDE DEF n
        <5>. QED
          BY <5>1
      <4>. QED
        BY <2>1, <4>1
    <3>4. CASE ~ (d <= Len(s) + Len(t))
      <4>1. d - (Len(s) + Len(t)) \in 1..Len(tail) /\ Len(s) + Len(t) + (d - (Len(s) + Len(t))) = d
        BY <1>1, <1>2, <3>1, <3>4
      <4>. QED
        BY <1>3, <3>1, <4>1
    <3>. QED
      BY <3>2, <3>3, <3>4
  <2>7. f \in [1..(c + Len(t)) -> Whole(all)]
    BY <2>4 DEF f
  <2>. QED
    BY <2>5, <2>6, <2>7 DEF Lists
<1>8. Keep(all, Whole(all)) = [n \in 1..(c + Len(t)) |-> all[f[n]]]
  <2>1. c + Len(t) \in Nat /\ Whole(all) \in SUBSET DOMAIN all
    BY <1>2 DEF Whole
  <2>2. all \in Seq(Contents)
    BY <1>3
  <2>. HIDE DEF f
  <2>. QED
    BY <1>7, <2>1, <2>2, KeepLists
<1>9. Readable(s) \o t = [n \in 1..(c + Len(t)) |-> all[f[n]]]
  <2>1. /\ Readable(s) \o t \in Seq(MessageIds) /\ Len(Readable(s) \o t) = c + Len(t)
        /\ \A n \in 1..(c + Len(t)) :
               (Readable(s) \o t)[n] = IF n <= c THEN Readable(s)[n] ELSE t[n - c]
    BY ReadableTyped, ConcatProperties DEF c
  <2>2. Readable(s) \o t = [n \in 1..(c + Len(t)) |-> (Readable(s) \o t)[n]]
    <3>1. Readable(s) \o t \in [1..Len(Readable(s) \o t) -> MessageIds]
      BY <2>1, LenProperties
    <3>. QED
      BY <2>1, <3>1
  <2>3. \A n \in 1..(c + Len(t)) : (Readable(s) \o t)[n] = all[f[n]]
    <3>. TAKE n \in 1..(c + Len(t))
    <3>0. f[n] = IF n <= c THEN Nth(Whole(s), n) ELSE Len(s) + (n - c)
      OBVIOUS
    <3>. HIDE DEF f
    <3>1. CASE n <= c
      <4>1. n \in 1..c /\ f[n] = Nth(Whole(s), n) /\ f[n] \in 1..Len(s)
        BY <1>2, <1>4, <3>0, <3>1
      <4>. QED
        BY <1>3, <1>4, <2>1, <3>1, <4>1
    <3>2. CASE ~ (n <= c)
      <4>1. n - c \in 1..Len(t)
        BY <1>2, <3>2
      <4>. QED
        BY <1>3, <2>1, <3>0, <3>2, <4>1
    <3>. QED
      BY <3>1, <3>2
  <2>. HIDE DEF f
  <2>. QED
    BY <2>2, <2>3
<1>10. Readable(all) = Keep(all, Whole(all))
  BY DEF Readable, Whole
<1>. QED
  BY <1>3, <1>8, <1>9, <1>10 DEF all

\* What can be read of some of the files is some of what could be read.
LEMMA ReadableShrinks ==
    ASSUME NEW s \in Seq(Contents), NEW kept \in Subsequences(s)
    PROVE  kept \in Seq(Contents) /\ Readable(kept) \in Subsequences(Readable(s))
<1>1. PICK D \in SUBSET DOMAIN s : kept = Keep(s, D)
  BY DEF Subsequences
<1> DEFINE G == Whole(s)
           H == Whole(kept)
           E == {k \in 1..Cardinality(G) : Nth(G, k) \in D}
           f == [m \in 1..Cardinality(E) |-> Rank(D, Nth(G, Nth(E, m)))]
<1>2. /\ Len(s) \in Nat /\ DOMAIN s = 1..Len(s)
      /\ D \in SUBSET (1..Len(s)) /\ G \in SUBSET (1..Len(s))
      /\ Cardinality(G) \in Nat /\ Cardinality(D) \in Nat
      /\ \A d \in D : d \in Nat
  <2>1. Len(s) \in Nat /\ DOMAIN s = 1..Len(s)
    BY LenProperties
  <2>2. D \in SUBSET (1..Len(s)) /\ G \in SUBSET (1..Len(s))
    BY <2>1 DEF Whole
  <2>3. \A d \in D : d \in Nat
    BY <2>1
  <2>. HIDE DEF G
  <2>4. Cardinality(G) \in Nat /\ Cardinality(D) \in Nat
    BY <2>1, <2>2, PositionsFinite
  <2>. QED
    BY <2>1, <2>2, <2>3, <2>4
<1>3. /\ kept \in Seq(Contents) /\ DOMAIN kept = 1..Cardinality(D)
      /\ \A n \in 1..Cardinality(D) : Nth(D, n) \in D /\ kept[n] = s[Nth(D, n)]
  BY <1>1, KeepTyped
<1>4. /\ Readable(s) \in Seq(Contents) /\ DOMAIN Readable(s) = 1..Cardinality(G)
      /\ \A n \in 1..Cardinality(G) : Nth(G, n) \in G /\ Readable(s)[n] = s[Nth(G, n)]
  BY ReadableTyped
<1>5. E \in SUBSET (1..Cardinality(G)) /\ Cardinality(E) \in Nat
  <2>1. E \in SUBSET (1..Cardinality(G))
    OBVIOUS
  <2>. HIDE DEF E, G
  <2>. QED
    BY <1>2, <2>1, PositionsFinite
<1>6. \A k \in E : k \in 1..Cardinality(G) /\ Nth(G, k) \in D /\ Nth(G, k) \in G
  BY <1>4
<1>7. \A k \in 1..Cardinality(G) : Nth(G, k) \in D => k \in E
  OBVIOUS
<1>8. \A n : n \in H <=> n \in 1..Cardinality(D) /\ Nth(D, n) \in G
  <2>1. \A n : n \in H <=> n \in 1..Cardinality(D) /\ kept[n] # Torn
    BY <1>3 DEF Whole
  <2>2. \A d \in D : d \in G <=> s[d] # Torn
    BY DEF Whole
  <2>. HIDE DEF H, G
  <2>. QED
    BY <1>3, <2>1, <2>2
<1>9. \A m \in 1..Cardinality(E) : f[m] = Rank(D, Nth(G, Nth(E, m)))
  OBVIOUS
<1>. HIDE DEF E, G, H
<1>10. \A m \in 1..Cardinality(E) : Nth(E, m) \in E
  BY <1>2, <1>5, NthIs
<1>11. \A d \in D : Rank(D, d) \in 1..Cardinality(D) /\ Nth(D, Rank(D, d)) = d
  BY <1>2, NthOfRank
<1>12. \A m \in 1..Cardinality(E) : f[m] \in H /\ Nth(D, f[m]) = Nth(G, Nth(E, m))
  <2>. TAKE m \in 1..Cardinality(E)
  <2>1. PICK d \in D : d = Nth(G, Nth(E, m)) /\ d \in G
    BY <1>6, <1>10
  <2>2. f[m] = Rank(D, d)
    BY <1>9, <2>1
  <2>. HIDE DEF f
  <2>. QED
    BY <1>8, <1>11, <2>1, <2>2
<1>13. Lists(f, Cardinality(E), H)
  <2>1. f \in [1..Cardinality(E) -> H]
    BY <1>12
  <2>. HIDE DEF f
  <2>2. \A i, j \in 1..Cardinality(E) : i < j => f[i] < f[j]
    <3>. TAKE i, j \in 1..Cardinality(E)
    <3>. SUFFICES ASSUME i < j PROVE f[i] < f[j]
      OBVIOUS
    <3>1. Nth(E, i) < Nth(E, j)
      BY <1>2, <1>5, NthOrders
    <3>2. /\ Nth(E, i) \in 1..Cardinality(G) /\ Nth(E, j) \in 1..Cardinality(G)
          /\ Nth(G, Nth(E, i)) \in D /\ Nth(G, Nth(E, j)) \in D
      BY <1>6, <1>10
    <3>3. Nth(G, Nth(E, i)) < Nth(G, Nth(E, j))
      BY <1>2, <3>1, <3>2, NthOrders
    <3>. QED
      BY <1>2, <1>9, <3>2, <3>3, RankOrders
  <2>3. \A h \in H : \E m \in 1..Cardinality(E) : f[m] = h
    <3>. TAKE h \in H
    <3>1. PICK d \in D : d = Nth(D, h) /\ d \in G /\ h \in 1..Cardinality(D)
      BY <1>3, <1>8
    <3>2. Rank(D, d) = h
      BY <1>2, <3>1, NthIs
    <3>3. PICK k \in 1..Cardinality(G) : Nth(G, k) = d
      BY <1>2, <3>1, NthOfRank
    <3>4. k \in E
      BY <1>7, <3>3
    <3>5. PICK m \in 1..Cardinality(E) : Nth(E, m) = k
      BY <1>2, <1>5, <3>4, NthOfRank
    <3>. QED
      BY <1>9, <3>2, <3>3, <3>5
  <2>. QED
    BY <2>1, <2>2, <2>3 DEF Lists
<1>14. Keep(kept, H) = [m \in 1..Cardinality(E) |-> kept[f[m]]]
  <2>1. H \in SUBSET DOMAIN kept
    BY DEF H, Whole
  <2>2. kept \in Seq(Contents)
    BY <1>3
  <2>. HIDE DEF f
  <2>. QED
    BY <1>5, <1>13, <2>1, <2>2, KeepLists
<1>15. \A m \in 1..Cardinality(E) : kept[f[m]] = Readable(s)[Nth(E, m)]
  <2>. TAKE m \in 1..Cardinality(E)
  <2>1. f[m] \in 1..Cardinality(D) /\ Nth(D, f[m]) = Nth(G, Nth(E, m))
    BY <1>8, <1>12
  <2>2. Nth(E, m) \in 1..Cardinality(G)
    BY <1>6, <1>10
  <2>. HIDE DEF f
  <2>. QED
    BY <1>3, <1>4, <2>1, <2>2
<1>16. Keep(Readable(s), E) = [m \in 1..Cardinality(E) |-> Readable(s)[Nth(E, m)]]
  BY DEF Keep
<1>17. Keep(kept, H) = Keep(Readable(s), E)
  <2>. HIDE DEF f
  <2>. QED
    BY <1>14, <1>15, <1>16
<1>18. Readable(kept) = Keep(kept, H)
  BY DEF Readable, Whole, H
<1>19. E \in SUBSET DOMAIN Readable(s)
  BY <1>4, <1>5
<1>. QED
  BY <1>3, <1>17, <1>18, <1>19 DEF Subsequences
------------------------------------------------------------------------------
(***************************************************************************)
(* The inductive invariant                                                 *)
(***************************************************************************)

\* How many messages of its own a turn holds.
Said(w) == Cardinality({i \in DOMAIN held[w] : held[w][i][1] = w})

\* Nothing is stored without metadata.
FilesInv == (metadata = "none" => files = <<>>) /\ StoredOnce

\* Of a turn that has not begun no one has a message.
IdleInv ==
    \A w \in Writers : stage[w] = "idle" =>
        /\ \A i \in 1..Len(files) : files[i] # Torn => files[i][1] # w
        /\ \A v \in Writers : \A i \in 1..Len(held[v]) : held[v][i][1] # w

\* Of the messages a turn at work holds, those it would save are its own and
\* not stored; its own are numbered up to as many as it has said.
OwnInv(w) ==
    /\ \A i, j \in 1..Len(held[w]) : held[w][i] = held[w][j] => i = j
    /\ \A i \in 1..Len(held[w]) : i > Len(Readable(files)) =>
           held[w][i][1] = w /\ \A k \in 1..Len(files) : files[k] # held[w][i]
    /\ \A i \in 1..Len(held[w]) : held[w][i][1] = w => held[w][i][2] <= Said(w)
    /\ \A k \in 1..Len(files) : files[k] # Torn /\ files[k][1] = w => files[k][2] <= Said(w)

CopyInv == \A w \in Writers : Open(w) => OwnInv(w)

\* A turn no one has disturbed holds what can be read, and then what it adds.
UndisturbedInv ==
    \A w \in Writers : w \notin disturbed =>
        /\ Open(w) => IsPrefix(Readable(files), held[w])
        /\ stage[w] = "saved" => IsPrefix(held[w], Readable(files))

StoreInv == FilesInv /\ IdleInv /\ CopyInv /\ UndisturbedInv

LEMMA InitInv == Init => TypeOK /\ StoreInv
<1> SUFFICES ASSUME Init PROVE TypeOK /\ StoreInv
  OBVIOUS
<1>1. /\ metadata = "none" /\ files = <<>> /\ Len(files) = 0
      /\ \A w \in Writers : stage[w] = "idle" /\ held[w] = <<>> /\ Len(held[w]) = 0
  BY DEF Init
<1>2. TypeOK
  BY DEF Init, TypeOK
<1>3. FilesInv /\ IdleInv
  BY <1>1 DEF FilesInv, IdleInv, StoredOnce
<1>4. CopyInv /\ UndisturbedInv
  BY <1>1 DEF CopyInv, UndisturbedInv, Open
<1>. QED
  BY <1>2, <1>3, <1>4 DEF StoreInv
------------------------------------------------------------------------------
(***************************************************************************)
(* Saving                                                                  *)
(***************************************************************************)

\* The first n of the messages that w has not saved are these.
LEMMA MissingIs ==
    ASSUME TypeOK, NEW w \in Writers, NEW n \in 0..Len(Missing(w))
    PROVE  LET R == Len(Readable(files))
               added == SubSeq(Missing(w), 1, n)
           IN  /\ R \in Nat /\ n \in Nat /\ Len(held[w]) \in Nat
               /\ n # 0 => R + n <= Len(held[w])
               /\ n = Len(Missing(w)) => Len(held[w]) <= R + n
               /\ added \in Seq(MessageIds) /\ Len(added) = n
               /\ \A k \in 1..n : added[k] = held[w][R + k]
               /\ Len(Missing(w)) \in Nat /\ SubSeq(Missing(w), 1, Len(Missing(w))) = Missing(w)
<1> DEFINE R == Len(Readable(files))
           h == Len(held[w])
           added == SubSeq(Missing(w), 1, n)
<1>1. R \in Nat /\ h \in Nat /\ held[w] \in Seq(MessageIds)
  <2>1. files \in Seq(Contents) /\ held[w] \in Seq(MessageIds)
    BY DEF TypeOK, Contents
  <2>. QED
    BY <2>1, ReadableTyped, LenProperties
<1>2. \A i \in (R + 1)..h : held[w][i] \in MessageIds
  <2>. HIDE DEF R
  <2>1. \A i \in (R + 1)..h : i \in 1..h
    BY <1>1
  <2>. QED
    BY <1>1, <2>1, ElementOfSeq
<1>3. /\ Missing(w) \in Seq(MessageIds)
      /\ Len(Missing(w)) = IF R + 1 <= h THEN h - (R + 1) + 1 ELSE 0
      /\ \A k \in 1..(h - (R + 1) + 1) : Missing(w)[k] = held[w][R + 1 + k - 1]
  <2>1. Missing(w) = SubSeq(held[w], R + 1, h)
    BY DEF Missing
  <2>2. R + 1 \in Int /\ h \in Int
    BY <1>1
  <2>. HIDE DEF R, h
  <2>. QED
    BY <1>2, <2>1, <2>2, SubSeqProperties
<1>. HIDE DEF R, h
<1>4. Len(Missing(w)) \in Nat /\ n \in Nat /\ n <= Len(Missing(w))
  BY <1>1, <1>3
<1>5. n # 0 => R + n <= h
  BY <1>1, <1>3, <1>4
<1>6. n = Len(Missing(w)) => h <= R + n
  BY <1>1, <1>3, <1>4
<1>7. \A k \in 1..n : k \in 1..Len(Missing(w)) /\ Missing(w)[k] = held[w][R + k]
  <2>. TAKE k \in 1..n
  <2>1. k \in 1..Len(Missing(w)) /\ k \in 1..(h - (R + 1) + 1) /\ R + 1 + k - 1 = R + k
    BY <1>1, <1>3, <1>4
  <2>. QED
    BY <1>3, <2>1
<1>8. /\ added \in Seq(MessageIds) /\ Len(added) = n
      /\ \A k \in 1..n : added[k] = Missing(w)[k]
  <2>1. \A k \in 1..n : Missing(w)[k] \in MessageIds
    BY <1>3, <1>7, ElementOfSeq
  <2>2. 1 \in Int /\ n \in Int /\ n - 1 + 1 = n /\ \A k \in 1..n : 1 + k - 1 = k
    BY <1>4
  <2>3. /\ added \in Seq(MessageIds) /\ Len(added) = IF 1 <= n THEN n - 1 + 1 ELSE 0
        /\ \A k \in 1..(n - 1 + 1) : added[k] = Missing(w)[1 + k - 1]
    BY <2>1, <2>2, SubSeqProperties
  <2>. HIDE DEF added
  <2>. QED
    BY <1>4, <2>2, <2>3
<1>9. SubSeq(Missing(w), 1, Len(Missing(w))) = Missing(w)
  BY <1>3, SubSeqFull
<1>. QED
  BY <1>1, <1>4, <1>5, <1>6, <1>7, <1>8, <1>9 DEF R, h

\* What the files and the readable ones are after n messages were written.
Saves(w, n, tail) ==
    /\ n \in 0..Len(Missing(w)) /\ tail \in {<<>>, <<Torn>>}
    /\ files' = files \o SubSeq(Missing(w), 1, n) \o tail

LEMMA SavesIs ==
    ASSUME TypeOK, NEW w \in Writers, NEW n, NEW tail, Saves(w, n, tail)
    PROVE  LET R == Len(Readable(files))
           IN  /\ files' \in Seq(Contents) /\ Len(files) \in Nat /\ Len(files') \in Nat
               /\ \A i \in 1..Len(files') : files'[i] # Torn =>
                      \/ i \in 1..Len(files) /\ files'[i] = files[i]
                      \/ \E k \in 1..n : i = Len(files) + k /\ files'[i] = held[w][R + k]
               /\ Readable(files') = Readable(files) \o SubSeq(Missing(w), 1, n)
               /\ Len(Readable(files')) = R + n
               /\ \A i \in 1..R : Readable(files')[i] = Readable(files)[i]
               /\ \A k \in 1..n : Readable(files')[R + k] = held[w][R + k]
<1> DEFINE R == Len(Readable(files))
           added == SubSeq(Missing(w), 1, n)
<1>1. /\ R \in Nat /\ n \in Nat
      /\ added \in Seq(MessageIds) /\ Len(added) = n
      /\ \A k \in 1..n : added[k] = held[w][R + k]
  BY MissingIs DEF Saves
<1>2. files \in Seq(Contents) /\ Len(files) \in Nat /\ tail \in {<<>>, <<Torn>>}
      /\ files' = files \o added \o tail
  <2>1. files \in Seq(Contents)
    BY DEF TypeOK, Contents
  <2>. QED
    BY <2>1, LenProperties DEF Saves
<1>. HIDE DEF added
<1>3. /\ files' \in Seq(Contents)
      /\ Readable(files') = Readable(files) \o added
  BY <1>1, <1>2, ReadableGrows
<1>4. /\ Len(Readable(files')) = R + n
      /\ \A i \in 1..(R + n) : Readable(files')[i] = IF i <= R THEN Readable(files)[i] ELSE added[i - R]
  BY <1>1, <1>2, <1>3, ReadableTyped, ConcatProperties DEF R
<1>5. \A i \in 1..Len(files') : files'[i] # Torn =>
         \/ i \in 1..Len(files) /\ files'[i] = files[i]
         \/ \E k \in 1..n : i = Len(files) + k /\ files'[i] = held[w][R + k]
  <2>1. added \in Seq(Contents) /\ tail \in Seq(Contents) /\ Len(tail) \in Nat
        /\ \A i \in 1..Len(tail) : tail[i] = Torn
    <3>1. added \in Seq(Contents)
      BY <1>1, SeqMonotonic DEF Contents
    <3>2. Torn \in Contents
      BY DEF Contents
    <3>3. <<Torn>> \in Seq(Contents) /\ Len(<<Torn>>) = 1 /\ \A i \in 1..1 : <<Torn>>[i] = Torn
      BY <3>2
    <3>4. <<>> \in Seq(Contents) /\ Len(<<>>) = 0 /\ \A i \in 1..0 : FALSE
      OBVIOUS
    <3>5. CASE tail = <<>>
      BY <3>1, <3>4, <3>5
    <3>6. CASE tail = <<Torn>>
      BY <3>1, <3>3, <3>6
    <3>. QED
      BY <1>2, <3>5, <3>6
  <2>2. /\ files \o added \in Seq(Contents) /\ Len(files \o added) = Len(files) + n
        /\ \A i \in 1..(Len(files) + n) :
               (files \o added)[i] = IF i <= Len(files) THEN files[i] ELSE added[i - Len(files)]
    BY <1>1, <1>2, <2>1, ConcatProperties
  <2>3. /\ Len(files') = Len(files) + n + Len(tail)
        /\ \A i \in 1..(Len(files) + n + Len(tail)) :
               files'[i] = IF i <= Len(files) + n THEN (files \o added)[i]
                                                 ELSE tail[i - (Len(files) + n)]
    <3>1. PICK both \in Seq(Contents) : both = files \o added /\ Len(both) = Len(files) + n
      BY <2>2
    <3>2. /\ Len(both \o tail) = Len(both) + Len(tail)
          /\ \A i \in 1..(Len(both) + Len(tail)) :
                 (both \o tail)[i] = IF i <= Len(both) THEN both[i] ELSE tail[i - Len(both)]
      BY <2>1, ConcatProperties
    <3>3. files' = both \o tail
      BY <1>2, <3>1
    <3>. QED
      BY <3>1, <3>2, <3>3
  <2>. TAKE i \in 1..Len(files')
  <2>4. CASE i <= Len(files)
    <3>1. i \in 1..Len(files) /\ i \in 1..(Len(files) + n) /\ i \in 1..(Len(files) + n + Len(tail))
          /\ i <= Len(files) + n
      BY <1>1, <1>2, <2>1, <2>3, <2>4
    <3>. QED
      BY <2>2, <2>3, <2>4, <3>1
  <2>5. CASE ~ (i <= Len(files)) /\ i <= Len(files) + n
    <3>1. /\ i - Len(files) \in 1..n /\ i \in 1..(Len(files) + n)
          /\ i \in 1..(Len(files) + n + Len(tail))
      BY <1>1, <1>2, <2>1, <2>3, <2>5
    <3>2. PICK k \in 1..n : k = i - Len(files)
      BY <3>1
    <3>3. i = Len(files) + k
      BY <1>1, <1>2, <3>2
    <3>4. files'[i] = added[k]
      BY <2>2, <2>3, <2>5, <3>1, <3>2
    <3>. QED
      BY <1>1, <3>3, <3>4
  <2>6. CASE ~ (i <= Len(files) + n)
    <3>1. i - (Len(files) + n) \in 1..Len(tail) /\ i \in 1..(Len(files) + n + Len(tail))
      BY <1>1, <1>2, <2>1, <2>3, <2>6
    <3>2. files'[i] = tail[i - (Len(files) + n)]
      BY <2>3, <2>6, <3>1
    <3>. QED
      BY <2>1, <3>1, <3>2
  <2>. QED
    BY <2>4, <2>5, <2>6
<1>6. Len(files') \in Nat
  BY <1>3, LenProperties
<1>7. \A i \in 1..R : Readable(files')[i] = Readable(files)[i]
  BY <1>1, <1>4
<1>8. \A k \in 1..n : Readable(files')[R + k] = held[w][R + k]
  <2>. TAKE k \in 1..n
  <2>1. R + k \in 1..(R + n) /\ ~ (R + k <= R) /\ R + k - R = k
    BY <1>1
  <2>. QED
    BY <1>1, <1>4, <2>1
<1>. QED
  BY <1>2, <1>3, <1>4, <1>5, <1>6, <1>7, <1>8 DEF added

LEMMA SaveKeeps ==
    ASSUME TypeOK, StoreInv, NEW w \in Writers, NEW n, NEW tail, Saves(w, n, tail),
           Open(w), metadata' # "none", Disturbs(w), held' = held,
           \A v \in Writers : v # w => stage'[v] = stage[v],
           stage'[w] \in {"open", "saved"},
           stage'[w] = "saved" => n = Len(Missing(w))
    PROVE  StoreInv'
<1> DEFINE R == Len(Readable(files))
           mine == held[w]
<1>1. /\ R \in Nat /\ n \in Nat /\ Len(mine) \in Nat /\ mine \in Seq(MessageIds)
      /\ n # 0 => R + n <= Len(mine)
      /\ n = Len(Missing(w)) => Len(mine) <= R + n
      /\ \A i \in 1..Len(mine) : mine[i] \in MessageIds
  <2>1. mine \in Seq(MessageIds)
    BY DEF TypeOK
  <2>2. \A i \in 1..Len(mine) : mine[i] \in MessageIds
    BY <2>1, ElementOfSeq
  <2>3. n \in 0..Len(Missing(w))
    BY DEF Saves
  <2>4. /\ R \in Nat /\ n \in Nat /\ Len(mine) \in Nat
        /\ n # 0 => R + n <= Len(mine)
        /\ n = Len(Missing(w)) => Len(mine) <= R + n
    BY <2>3, MissingIs
  <2>. QED
    BY <2>1, <2>2, <2>4
<1>2. /\ files' \in Seq(Contents) /\ Len(files) \in Nat /\ Len(files') \in Nat
      /\ \A i \in 1..Len(files') : files'[i] # Torn =>
             \/ i \in 1..Len(files) /\ files'[i] = files[i]
             \/ \E k \in 1..n : i = Len(files) + k /\ files'[i] = mine[R + k]
      /\ Readable(files') = Readable(files) \o SubSeq(Missing(w), 1, n)
      /\ Len(Readable(files')) = R + n
      /\ \A i \in 1..R : Readable(files')[i] = Readable(files)[i]
      /\ \A k \in 1..n : Readable(files')[R + k] = mine[R + k]
  BY SavesIs
<1>3. /\ \A i \in 1..Len(files), j \in 1..Len(files) : files[i] # Torn /\ files[i] = files[j] => i = j
      /\ DOMAIN files = 1..Len(files) /\ DOMAIN files' = 1..Len(files')
  <2>1. files \in Seq(Contents)
    BY DEF TypeOK, Contents
  <2>2. DOMAIN files = 1..Len(files) /\ DOMAIN files' = 1..Len(files')
    BY <1>2, <2>1, LenProperties
  <2>. QED
    BY <2>2 DEF StoreInv, FilesInv, StoredOnce
<1>4. OwnInv(w)
  BY DEF StoreInv, CopyInv
<1>5. \A k \in 1..n : R + k \in 1..Len(mine) /\ R + k > R
  BY <1>1
<1>6. /\ \A k \in 1..n : mine[R + k][1] = w /\ \A l \in 1..Len(files) : files[l] # mine[R + k]
      /\ \A k, l \in 1..n : mine[R + k] = mine[R + l] => k = l
  <2>1. \A k \in 1..n : mine[R + k][1] = w /\ \A l \in 1..Len(files) : files[l] # mine[R + k]
    BY <1>4, <1>5 DEF OwnInv
  <2>2. ASSUME NEW k \in 1..n, NEW l \in 1..n, mine[R + k] = mine[R + l] PROVE k = l
    <3>1. R + k = R + l
      BY <1>4, <1>5, <2>2 DEF OwnInv
    <3>. QED
      BY <1>1, <3>1
  <2>. QED
    BY <2>1, <2>2
<1>. HIDE DEF R, mine
<1>7. FilesInv'
  <2>1. ASSUME NEW i \in 1..Len(files'), NEW j \in 1..Len(files'), files'[i] # Torn, files'[i] = files'[j]
        PROVE  i = j
    <3>1. CASE i \in 1..Len(files) /\ files'[i] = files[i] /\ j \in 1..Len(files) /\ files'[j] = files[j]
      BY <1>3, <2>1, <3>1
    <3>2. CASE /\ i \in 1..Len(files) /\ files'[i] = files[i]
               /\ \E k \in 1..n : j = Len(files) + k /\ files'[j] = mine[R + k]
      BY <1>6, <2>1, <3>2
    <3>3. CASE /\ j \in 1..Len(files) /\ files'[j] = files[j]
               /\ \E k \in 1..n : i = Len(files) + k /\ files'[i] = mine[R + k]
      BY <1>6, <2>1, <3>3
    <3>4. CASE /\ \E k \in 1..n : i = Len(files) + k /\ files'[i] = mine[R + k]
               /\ \E k \in 1..n : j = Len(files) + k /\ files'[j] = mine[R + k]
      BY <1>6, <2>1, <3>4
    <3>. QED
      BY <1>2, <2>1, <3>1, <3>2, <3>3, <3>4
  <2>2. StoredOnce'
    BY <1>3, <2>1 DEF StoredOnce
  <2>. QED
    BY <2>2 DEF FilesInv
<1>8. IdleInv'
  <2>. SUFFICES ASSUME NEW u \in Writers, stage'[u] = "idle"
                PROVE  /\ \A i \in 1..Len(files') : files'[i] # Torn => files'[i][1] # u
                       /\ \A v \in Writers : \A i \in 1..Len(held[v]) : held[v][i][1] # u
    BY DEF IdleInv
  <2>1. u # w /\ stage[u] = "idle"
    OBVIOUS
  <2>2. \A i \in 1..Len(files) : files[i] # Torn => files[i][1] # u
    BY <2>1 DEF StoreInv, IdleInv
  <2>3. \A v \in Writers : \A i \in 1..Len(held[v]) : held[v][i][1] # u
    BY <2>1 DEF StoreInv, IdleInv
  <2>4. \A i \in 1..Len(files') : files'[i] # Torn => files'[i][1] # u
    <3>. TAKE i \in 1..Len(files')
    <3>1. CASE files'[i] = Torn
      BY <3>1
    <3>2. CASE i \in 1..Len(files) /\ files'[i] = files[i]
      BY <2>2, <3>2
    <3>3. CASE \E k \in 1..n : files'[i] = mine[R + k]
      BY <1>6, <2>1, <3>3
    <3>. QED
      BY <1>2, <3>1, <3>2, <3>3
  <2>. QED
    BY <2>3, <2>4
<1>9. CopyInv'
  <2>. SUFFICES ASSUME NEW v \in Writers, stage'[v] = "open" PROVE OwnInv(v)'
    BY DEF CopyInv, Open
  <2>1. Open(v) /\ OwnInv(v) /\ Said(v)' = Said(v)
    BY DEF StoreInv, CopyInv, Open, Said
  <2>2. \A i, j \in 1..Len(held[v]) : held[v][i] = held[v][j] => i = j
    BY <2>1 DEF OwnInv
  <2>3. \A i \in 1..Len(held[v]) : held[v][i][1] = v => held[v][i][2] <= Said(v)
    BY <2>1 DEF OwnInv
  <2>4. \A k \in 1..Len(files') : files'[k] # Torn /\ files'[k][1] = v => files'[k][2] <= Said(v)
    <3>. SUFFICES ASSUME NEW k \in 1..Len(files'), files'[k] # Torn, files'[k][1] = v
                  PROVE  files'[k][2] <= Said(v)
      OBVIOUS
    <3>1. CASE k \in 1..Len(files) /\ files'[k] = files[k]
      BY <2>1, <3>1 DEF OwnInv
    <3>2. CASE \E l \in 1..n : files'[k] = mine[R + l]
      <4>1. PICK l \in 1..n : files'[k] = mine[R + l]
        BY <3>2
      <4>2. v = w
        BY <1>6, <4>1
      <4>. QED
        BY <1>5, <2>3, <4>1, <4>2 DEF mine
    <3>. QED
      BY <1>2, <3>1, <3>2
  <2>5. ASSUME NEW i \in 1..Len(held[v]), i > R + n
        PROVE  held[v][i][1] = v /\ \A k \in 1..Len(files') : files'[k] # held[v][i]
    <3>1. Len(held[v]) \in Nat /\ held[v][i] \in MessageIds
      <4>1. held[v] \in Seq(MessageIds)
        BY DEF TypeOK
      <4>. QED
        BY <4>1, LenProperties, ElementOfSeq
    <3>2. i > R
      BY <1>1, <2>5, <3>1
    <3>3. held[v][i][1] = v /\ \A k \in 1..Len(files) : files[k] # held[v][i]
      BY <2>1, <3>2 DEF OwnInv, R
    <3>4. \A k \in 1..n : mine[R + k] # held[v][i]
      <4>1. CASE v = w
        <5>1. \A k \in 1..n : R + k \in 1..Len(held[v]) /\ R + k # i
          BY <1>1, <1>5, <2>5, <4>1 DEF mine
        <5>. QED
          BY <2>2, <4>1, <5>1 DEF mine
      <4>2. CASE v # w
        BY <1>6, <3>3, <4>2
      <4>. QED
        BY <4>1, <4>2
    <3>5. held[v][i] # Torn
      BY <3>1, TornAssumption
    <3>. QED
      BY <1>2, <3>3, <3>4, <3>5
  <2>. QED
    BY <1>2, <2>1, <2>2, <2>3, <2>4, <2>5 DEF OwnInv
<1>10. UndisturbedInv'
  <2>. SUFFICES ASSUME NEW v \in Writers, v \notin disturbed'
                PROVE  /\ stage'[v] = "open" => IsPrefix(Readable(files'), held[v])
                       /\ stage'[v] = "saved" => IsPrefix(held[v], Readable(files'))
    BY DEF UndisturbedInv, Open
  <2>1. v \notin disturbed /\ (v # w => ~ Open(v))
    BY DEF Disturbs
  <2>2. /\ Readable(files) \in Seq(MessageIds) /\ Readable(files') \in Seq(MessageIds)
        /\ held[v] \in Seq(MessageIds) /\ Len(held[v]) \in Nat
    <3>1. files \in Seq(Contents) /\ held[v] \in Seq(MessageIds)
      BY DEF TypeOK, Contents
    <3>. QED
      BY <1>2, <3>1, ReadableTyped, LenProperties
  <2>3. CASE v = w
    <3>1. IsPrefix(Readable(files), mine)
      BY <2>1, <2>3 DEF StoreInv, UndisturbedInv, mine
    <3>2. R <= Len(mine) /\ \A i \in 1..R : Readable(files)[i] = mine[i]
      BY <2>2, <2>3, <3>1, PrefixIs DEF R, mine
    <3>3. \A i \in 1..(R + n) : Readable(files')[i] = mine[i]
      <4>. TAKE i \in 1..(R + n)
      <4>1. CASE i <= R
        BY <1>1, <1>2, <3>2, <4>1
      <4>2. CASE ~ (i <= R)
        <5>1. PICK k \in 1..n : i = R + k
          <6>1. i - R \in 1..n /\ i = R + (i - R)
            BY <1>1, <4>2
          <6>. QED
            BY <6>1
        <5>. QED
          BY <1>2, <5>1
      <4>. QED
        BY <4>1, <4>2
    <3>4. R + n <= Len(mine)
      BY <1>1, <3>2
    <3>5. IsPrefix(Readable(files'), mine)
      BY <1>2, <2>2, <2>3, <3>3, <3>4, PrefixIs DEF mine
    <3>6. stage'[v] = "saved" => IsPrefix(mine, Readable(files'))
      <4>. SUFFICES ASSUME stage'[v] = "saved" PROVE IsPrefix(mine, Readable(files'))
        OBVIOUS
      <4>1. Len(mine) = R + n
        BY <1>1, <2>3, <3>4
      <4>2. \A i \in 1..Len(mine) : mine[i] = Readable(files')[i]
        BY <3>3, <4>1
      <4>3. Len(mine) <= Len(Readable(files'))
        BY <1>1, <1>2, <4>1
      <4>. QED
        BY <2>2, <2>3, <4>2, <4>3, PrefixIs DEF mine
    <3>. QED
      BY <2>3, <3>5, <3>6 DEF mine
  <2>4. CASE v # w
    <3>1. stage'[v] = stage[v] /\ stage[v] # "open"
      BY <2>1, <2>4 DEF Open
    <3>2. stage[v] = "saved" => IsPrefix(held[v], Readable(files'))
      <4>. SUFFICES ASSUME stage[v] = "saved" PROVE IsPrefix(held[v], Readable(files'))
        OBVIOUS
      <4>1. IsPrefix(held[v], Readable(files))
        BY <2>1 DEF StoreInv, UndisturbedInv
      <4>2. Len(held[v]) <= R /\ \A i \in 1..Len(held[v]) : held[v][i] = Readable(files)[i]
        BY <2>2, <4>1, PrefixIs DEF R
      <4>3. Len(held[v]) <= R + n /\ \A i \in 1..Len(held[v]) : i \in 1..R
        BY <1>1, <2>2, <4>2
      <4>4. \A i \in 1..Len(held[v]) : held[v][i] = Readable(files')[i]
        BY <1>2, <4>2, <4>3
      <4>. QED
        BY <1>2, <2>2, <4>3, <4>4, PrefixIs
    <3>. QED
      BY <3>1, <3>2
  <2>. QED
    BY <2>3, <2>4
<1>. QED
  BY <1>7, <1>8, <1>9, <1>10 DEF StoreInv

LEMMA UpdateKeeps ==
    ASSUME TypeOK, StoreInv, NEW w \in Writers, Update(w) \/ UpdateCut(w)
    PROVE  /\ StoreInv'
           /\ \E n, tail : Saves(w, n, tail)
<1>0. /\ files \in Seq(Contents) /\ Missing(w) \in Seq(MessageIds) /\ Missing(w) \in Seq(Contents)
      /\ Len(Missing(w)) \in Nat /\ SubSeq(Missing(w), 1, Len(Missing(w))) = Missing(w)
  <2>1. files \in Seq(Contents) /\ held[w] \in Seq(MessageIds)
    BY DEF TypeOK, Contents
  <2>2. Len(Readable(files)) \in Nat
    BY <2>1, ReadableTyped
  <2>3. Missing(w) \in Seq(MessageIds)
    <3>1. PICK r \in Nat : r = Len(Readable(files)) + 1
      BY <2>2
    <3>2. \A i \in r..Len(held[w]) : held[w][i] \in MessageIds
      <4>1. Len(held[w]) \in Nat /\ r >= 1
        BY <2>1, <2>2, <3>1, LenProperties
      <4>2. \A i \in r..Len(held[w]) : i \in 1..Len(held[w])
        BY <4>1
      <4>. QED
        BY <2>1, <4>2, ElementOfSeq
    <3>3. r \in Int /\ Len(held[w]) \in Int
      BY <2>1, LenProperties
    <3>4. SubSeq(held[w], r, Len(held[w])) \in Seq(MessageIds)
      BY <3>2, <3>3, SubSeqProperties
    <3>. QED
      BY <3>1, <3>4 DEF Missing
  <2>4. Missing(w) \in Seq(Contents)
    BY <2>3, SeqMonotonic DEF Contents
  <2>. QED
    BY <2>1, <2>3, <2>4, LenProperties, SubSeqFull
<1>1. stage[w] = "open" /\ stage \in [Writers -> {"idle", "open", "saved", "lost"}]
  BY DEF Update, UpdateCut, Open, TypeOK
<1>2. CASE Update(w)
  <2>1. Saves(w, Len(Missing(w)), <<>>)
    <3>1. files \o Missing(w) \in Seq(Contents)
      BY <1>0, ConcatProperties
    <3>2. (files \o Missing(w)) \o <<>> = files \o Missing(w)
      BY <3>1, ConcatEmptySeq
    <3>3. files' = files \o Missing(w)
      BY <1>2 DEF Update
    <3>. QED
      BY <1>0, <3>2, <3>3 DEF Saves
  <2>2. /\ \A v \in Writers : v # w => stage'[v] = stage[v]
        /\ stage'[w] \in {"open", "saved"}
    BY <1>1, <1>2 DEF Update
  <2>. QED
    BY <1>2, <2>1, <2>2, SaveKeeps DEF Update
<1>3. CASE UpdateCut(w)
  <2>1. \E n, tail : Saves(w, n, tail)
    <3>1. CASE metadata' = "torn" /\ UNCHANGED files
      <4>1. SubSeq(Missing(w), 1, 0) = <<>>
        <5>1. 1 \in Int /\ 0 \in Int /\ 0 < 1
          OBVIOUS
        <5>. QED
          BY <5>1, SubSeqEmpty
      <4>2. files \o <<>> \o <<>> = files
        BY <1>0, ConcatEmptySeq
      <4>3. Saves(w, 0, <<>>)
        BY <1>0, <3>1, <4>1, <4>2 DEF Saves
      <4>. QED
        BY <4>3
    <3>2. CASE \E n \in 0..(Len(Missing(w)) - 1), tail \in TornTails :
                  files' = files \o SubSeq(Missing(w), 1, n) \o tail
      <4>1. PICK n \in 0..(Len(Missing(w)) - 1), tail \in TornTails :
                  files' = files \o SubSeq(Missing(w), 1, n) \o tail
        BY <3>2
      <4>2. n \in 0..Len(Missing(w)) /\ tail \in {<<>>, <<Torn>>}
        BY <1>0 DEF TornTails
      <4>. QED
        BY <4>1, <4>2 DEF Saves
    <3>. QED
      BY <1>3, <3>1, <3>2 DEF UpdateCut
  <2>2. PICK n, tail : Saves(w, n, tail)
    BY <2>1
  <2>3. /\ metadata' # "none" /\ Disturbs(w) /\ held' = held /\ stage' = stage /\ Open(w)
    BY <1>3 DEF UpdateCut
  <2>. QED
    BY <1>1, <2>1, <2>2, <2>3, SaveKeeps
<1>. QED
  BY <1>2, <1>3
------------------------------------------------------------------------------
(***************************************************************************)
(* The other steps                                                         *)
(***************************************************************************)

\* What can be read has no message twice.
LEMMA ReadableDistinct ==
    ASSUME NEW s \in Seq(Contents),
           \A i, j \in DOMAIN s : i # j /\ s[i] # Torn => s[i] # s[j],
           NEW i \in 1..Len(Readable(s)), NEW j \in 1..Len(Readable(s)),
           Readable(s)[i] = Readable(s)[j]
    PROVE  i = j
<1>1. /\ Len(Readable(s)) = Cardinality(Whole(s))
      /\ \A n \in 1..Len(Readable(s)) :
             Nth(Whole(s), n) \in Whole(s) /\ Readable(s)[n] = s[Nth(Whole(s), n)]
  BY ReadableTyped
<1>2. Whole(s) \in SUBSET (1..Len(s)) /\ Len(s) \in Nat
  BY LenProperties DEF Whole
<1>3. Nth(Whole(s), i) = Nth(Whole(s), j)
  BY <1>1 DEF Whole
<1>4. Rank(Whole(s), Nth(Whole(s), i)) = i /\ Rank(Whole(s), Nth(Whole(s), j)) = j
  BY <1>1, <1>2, NthIs
<1>. QED
  BY <1>3, <1>4

LEMMA GetKeeps ==
    ASSUME TypeOK, StoreInv, NEW w \in Writers, Get(w) PROVE StoreInv'
<1>1. /\ stage[w] = "idle" /\ files' = files /\ metadata' = metadata
      /\ \A v \in Writers : v # w => stage'[v] = stage[v] /\ held'[v] = held[v]
      /\ stage'[w] = "open" /\ held'[w] \in {Readable(files), <<>>}
      /\ disturbed' = IF held'[w] = Readable(files) THEN disturbed ELSE disturbed \cup {w}
  BY DEF Get, TypeOK
<1>2. /\ files \in Seq(Contents) /\ DOMAIN files = 1..Len(files) /\ Len(files) \in Nat
      /\ Readable(files) \in Seq(MessageIds) /\ Len(Readable(files)) \in Nat
      /\ \A i \in 1..Len(Readable(files)) :
             Nth(Whole(files), i) \in Whole(files) /\ Readable(files)[i] = files[Nth(Whole(files), i)]
      /\ Len(Readable(files)) = Cardinality(Whole(files)) /\ Whole(files) \in SUBSET (1..Len(files))
  <2>1. files \in Seq(Contents)
    BY DEF TypeOK, Contents
  <2>. QED
    BY <2>1, ReadableTyped, LenProperties DEF Whole
<1>3. \A i \in Whole(files) : i \in 1..Len(files) /\ files[i] # Torn
  BY <1>2 DEF Whole
<1>4. \A i, j \in 1..Len(Readable(files)) : Readable(files)[i] = Readable(files)[j] => i = j
  BY <1>2, ReadableDistinct DEF StoreInv, FilesInv, StoredOnce
<1>5. \A i \in 1..Len(Readable(files)) : \E k \in 1..Len(files) :
          files[k] # Torn /\ Readable(files)[i] = files[k]
  BY <1>2, <1>3
<1>6. \A u \in Writers : stage[u] = "idle" =>
          \A i \in 1..Len(held'[w]) : held'[w][i][1] # u
  <2>. SUFFICES ASSUME NEW u \in Writers, stage[u] = "idle"
                PROVE  \A i \in 1..Len(held'[w]) : held'[w][i][1] # u
    OBVIOUS
  <2>1. CASE held'[w] = <<>>
    <3>1. Len(<<>>) = 0
      OBVIOUS
    <3>. QED
      BY <2>1, <3>1
  <2>2. CASE held'[w] = Readable(files)
    <3>1. \A k \in 1..Len(files) : files[k] # Torn => files[k][1] # u
      BY DEF StoreInv, IdleInv
    <3>. QED
      BY <1>5, <2>2, <3>1
  <2>. QED
    BY <1>1, <2>1, <2>2
<1>7. FilesInv'
  BY <1>1 DEF StoreInv, FilesInv, StoredOnce
<1>8. IdleInv'
  <2>. SUFFICES ASSUME NEW u \in Writers, stage'[u] = "idle"
                PROVE  /\ \A i \in 1..Len(files) : files[i] # Torn => files[i][1] # u
                       /\ \A v \in Writers : \A i \in 1..Len(held'[v]) : held'[v][i][1] # u
    BY <1>1 DEF IdleInv
  <2>1. stage[u] = "idle"
    BY <1>1
  <2>2. /\ \A i \in 1..Len(files) : files[i] # Torn => files[i][1] # u
        /\ \A v \in Writers : \A i \in 1..Len(held[v]) : held[v][i][1] # u
    BY <2>1 DEF StoreInv, IdleInv
  <2>. QED
    BY <1>1, <1>6, <2>1, <2>2
<1>9. CopyInv'
  <2>. SUFFICES ASSUME NEW v \in Writers, stage'[v] = "open" PROVE OwnInv(v)'
    BY DEF CopyInv, Open
  <2>1. CASE v # w
    <3>1. OwnInv(v) /\ Said(v)' = Said(v) /\ held'[v] = held[v]
      BY <1>1, <2>1 DEF StoreInv, CopyInv, Open, Said
    <3>. QED
      BY <1>1, <3>1 DEF OwnInv
  <2>2. CASE v = w
    <3>1. \A i, j \in 1..Len(held'[w]) : held'[w][i] = held'[w][j] => i = j
      <4>1. Len(<<>>) = 0
        OBVIOUS
      <4>. QED
        BY <1>1, <1>4, <4>1
    <3>2. \A i \in 1..Len(held'[w]) : ~ (i > Len(Readable(files)))
      <4>1. Len(<<>>) = 0
        OBVIOUS
      <4>. QED
        BY <1>1, <1>2, <4>1
    <3>3. \A i \in 1..Len(held'[w]) : held'[w][i][1] # w
      BY <1>1, <1>6
    <3>4. \A k \in 1..Len(files) : files[k] # Torn => files[k][1] # w
      BY <1>1 DEF StoreInv, IdleInv
    <3>. QED
      BY <1>1, <2>2, <3>1, <3>2, <3>3, <3>4 DEF OwnInv
  <2>. QED
    BY <2>1, <2>2
<1>10. UndisturbedInv'
  <2>. SUFFICES ASSUME NEW v \in Writers, v \notin disturbed'
                PROVE  /\ stage'[v] = "open" => IsPrefix(Readable(files), held'[v])
                       /\ stage'[v] = "saved" => IsPrefix(held'[v], Readable(files))
    BY <1>1 DEF UndisturbedInv, Open
  <2>1. CASE v # w
    BY <1>1, <2>1 DEF StoreInv, UndisturbedInv, Open
  <2>2. CASE v = w
    <3>1. held'[v] = Readable(files)
      BY <1>1, <2>2
    <3>. QED
      BY <1>1, <1>2, <2>2, <3>1, PrefixIs
  <2>. QED
    BY <2>1, <2>2
<1>. QED
  BY <1>7, <1>8, <1>9, <1>10 DEF StoreInv

LEMMA DropKeeps ==
    ASSUME TypeOK, StoreInv, NEW w \in Writers, Drop(w) PROVE StoreInv'
<1>1. /\ UNCHANGED <<metadata, files, disturbed>>
      /\ \A v \in Writers : v # w => stage'[v] = stage[v] /\ held'[v] = held[v]
      /\ stage'[w] = "lost" /\ held'[w] = <<>> /\ Len(<<>>) = 0
  BY DEF Drop, TypeOK
<1>2. FilesInv'
  BY <1>1 DEF StoreInv, FilesInv, StoredOnce
<1>3. IdleInv'
  BY <1>1 DEF StoreInv, IdleInv
<1>4. CopyInv'
  <2>. SUFFICES ASSUME NEW v \in Writers, stage'[v] = "open" PROVE OwnInv(v)'
    BY DEF CopyInv, Open
  <2>1. OwnInv(v) /\ Said(v)' = Said(v) /\ held'[v] = held[v]
    BY <1>1 DEF StoreInv, CopyInv, Open, Said
  <2>. QED
    BY <1>1, <2>1 DEF OwnInv
<1>5. UndisturbedInv'
  BY <1>1 DEF StoreInv, UndisturbedInv, Open
<1>. QED
  BY <1>2, <1>3, <1>4, <1>5 DEF StoreInv

\* A message said is one more said, and its number is that many.
LEMMA SaidGrows ==
    ASSUME TypeOK, NEW w \in Writers, AddMessage(w)
    PROVE  LET m == <<w, Said(w) + 1>>
           IN  /\ Said(w) \in Nat /\ Said(w)' = Said(w) + 1 /\ m \in MessageIds
               /\ held'[w] = Append(held[w], m) /\ held'[w] \in Seq(MessageIds)
               /\ Len(held[w]) \in Nat /\ Len(held'[w]) = Len(held[w]) + 1
               /\ \A i \in 1..Len(held[w]) : held'[w][i] = held[w][i]
               /\ held'[w][Len(held[w]) + 1] = m
<1> DEFINE m == <<w, Said(w) + 1>>
           L == Len(held[w])
           old == {i \in 1..L : held[w][i][1] = w}
<1>1. held[w] \in Seq(MessageIds) /\ L \in Nat /\ DOMAIN held[w] = 1..L
  <2>1. held[w] \in Seq(MessageIds)
    BY DEF TypeOK
  <2>. QED
    BY <2>1, LenProperties
<1>2. Said(w) = Cardinality(old)
  BY <1>1 DEF Said
<1>3. IsFiniteSet(old) /\ Cardinality(old) \in Nat
  <2>1. old \in SUBSET (1..L)
    OBVIOUS
  <2>. HIDE DEF old, L
  <2>. QED
    BY <1>1, <2>1, PositionsFinite
<1>4. Said(w) < MaxSaid /\ held' = [held EXCEPT ![w] = Append(@, <<w, Said(w) + 1>>)]
  BY DEF AddMessage, Said
<1>5. m \in MessageIds
  <2>1. Said(w) + 1 \in 1..MaxSaid
    BY <1>2, <1>3, <1>4, BoundAssumption
  <2>. QED
    BY <2>1 DEF MessageIds
<1>6. held'[w] = Append(held[w], m)
  BY <1>4 DEF TypeOK
<1>. HIDE DEF m, L
<1>7. /\ held'[w] \in Seq(MessageIds) /\ Len(held'[w]) = L + 1
      /\ \A i \in 1..L : held'[w][i] = held[w][i]
      /\ held'[w][L + 1] = m
  BY <1>1, <1>5, <1>6, AppendProperties DEF L
<1>8. DOMAIN held'[w] = 1..(L + 1)
  BY <1>7, LenProperties
<1>9. {i \in 1..(L + 1) : held'[w][i][1] = w} = old \cup {L + 1}
  <2>1. m[1] = w
    BY DEF m
  <2>2. \A i : i \in 1..(L + 1) <=> i \in 1..L \/ i = L + 1
    BY <1>1
  <2>. QED
    BY <1>7, <2>1, <2>2
<1>10. L + 1 \notin old
  BY <1>1
<1>11. Cardinality(old \cup {L + 1}) = Cardinality(old) + 1
  <2>. HIDE DEF old
  <2>. QED
    BY <1>3, <1>10, FS_AddElement
<1>12. Said(w)' = Said(w) + 1
  <2>1. Said(w)' = Cardinality({i \in DOMAIN held'[w] : held'[w][i][1] = w})
    BY DEF Said
  <2>. QED
    BY <1>2, <1>8, <1>9, <1>11, <2>1
<1>. QED
  BY <1>1, <1>2, <1>3, <1>5, <1>6, <1>7, <1>12 DEF m, L

LEMMA AddKeeps ==
    ASSUME TypeOK, StoreInv, NEW w \in Writers, AddMessage(w) PROVE StoreInv'
<1> DEFINE m == <<w, Said(w) + 1>>
           L == Len(held[w])
           R == Len(Readable(files))
<1>1. /\ Said(w) \in Nat /\ Said(w)' = Said(w) + 1 /\ m \in MessageIds
      /\ held'[w] \in Seq(MessageIds) /\ held[w] \in Seq(MessageIds)
      /\ L \in Nat /\ Len(held'[w]) = L + 1
      /\ \A i \in 1..L : held'[w][i] = held[w][i]
      /\ held'[w][L + 1] = m
  BY SaidGrows DEF TypeOK
<1>2. /\ stage[w] = "open" /\ UNCHANGED <<metadata, files, stage, disturbed>>
      /\ \A v \in Writers : v # w => held'[v] = held[v]
  BY DEF AddMessage, Open, TypeOK
<1>3. m[1] = w /\ m[2] = Said(w) + 1
  OBVIOUS
<1>4. \A i : i \in 1..(L + 1) <=> i \in 1..L \/ i = L + 1
  BY <1>1
<1>5. R \in Nat /\ Readable(files) \in Seq(MessageIds)
  <2>1. files \in Seq(Contents)
    BY DEF TypeOK, Contents
  <2>. QED
    BY <2>1, ReadableTyped
<1>6. OwnInv(w)
  BY <1>2 DEF StoreInv, CopyInv, Open
<1>. HIDE DEF m, L, R
<1>7. FilesInv'
  BY <1>2 DEF StoreInv, FilesInv, StoredOnce
<1>8. IdleInv'
  <2>. SUFFICES ASSUME NEW u \in Writers, stage[u] = "idle"
                PROVE  /\ \A i \in 1..Len(files) : files[i] # Torn => files[i][1] # u
                       /\ \A v \in Writers : \A i \in 1..Len(held'[v]) : held'[v][i][1] # u
    BY <1>2 DEF IdleInv
  <2>1. /\ \A i \in 1..Len(files) : files[i] # Torn => files[i][1] # u
        /\ \A v \in Writers : \A i \in 1..Len(held[v]) : held[v][i][1] # u
    BY DEF StoreInv, IdleInv
  <2>2. u # w
    BY <1>2
  <2>3. \A i \in 1..Len(held'[w]) : held'[w][i][1] # u
    <3>1. \A i \in 1..L : held[w][i][1] # u
      BY <2>1 DEF L
    <3>. QED
      BY <1>1, <1>3, <1>4, <2>2, <3>1
  <2>. QED
    BY <1>2, <2>1, <2>3
<1>9. CopyInv'
  <2>. SUFFICES ASSUME NEW v \in Writers, stage[v] = "open" PROVE OwnInv(v)'
    BY <1>2 DEF CopyInv, Open
  <2>1. CASE v # w
    <3>1. OwnInv(v) /\ Said(v)' = Said(v) /\ held'[v] = held[v]
      BY <1>2, <2>1 DEF StoreInv, CopyInv, Open, Said
    <3>. QED
      BY <1>2, <3>1 DEF OwnInv
  <2>2. CASE v = w
    <3>1. /\ \A i, j \in 1..L : held[w][i] = held[w][j] => i = j
          /\ \A i \in 1..L : i > R =>
                 held[w][i][1] = w /\ \A k \in 1..Len(files) : files[k] # held[w][i]
          /\ \A i \in 1..L : held[w][i][1] = w => held[w][i][2] <= Said(w)
          /\ \A k \in 1..Len(files) : files[k] # Torn /\ files[k][1] = w => files[k][2] <= Said(w)
      BY <1>6 DEF OwnInv, L, R
    <3>2. \A i \in 1..L : held[w][i] # m
      BY <1>1, <1>3, <3>1
    <3>3. \A k \in 1..Len(files) : files[k] # m
      <4>1. m # Torn
        BY <1>1, TornAssumption
      <4>. QED
        BY <1>1, <1>3, <3>1, <4>1
    <3>4. \A i, j \in 1..Len(held'[w]) : held'[w][i] = held'[w][j] => i = j
      BY <1>1, <1>4, <3>1, <3>2
    <3>5. \A i \in 1..Len(held'[w]) : i > R =>
             held'[w][i][1] = w /\ \A k \in 1..Len(files) : files[k] # held'[w][i]
      BY <1>1, <1>3, <1>4, <3>1, <3>3
    <3>6. \A i \in 1..Len(held'[w]) : held'[w][i][1] = w => held'[w][i][2] <= Said(w) + 1
      <4>. TAKE i \in 1..Len(held'[w])
      <4>1. CASE i = L + 1
        BY <1>1, <1>3, <4>1
      <4>2. CASE i \in 1..L
        <5>1. held[w][i] \in MessageIds
          BY <1>1, <4>2, ElementOfSeq DEF L
        <5>2. held[w][i][2] \in Nat
          BY <5>1, BoundAssumption DEF MessageIds
        <5>. QED
          BY <1>1, <3>1, <4>2, <5>2
      <4>. QED
        BY <1>1, <1>4, <4>1, <4>2
    <3>7. \A k \in 1..Len(files) : files[k] # Torn /\ files[k][1] = w => files[k][2] <= Said(w) + 1
      <4>. TAKE k \in 1..Len(files)
      <4>. SUFFICES ASSUME files[k] # Torn, files[k][1] = w PROVE files[k][2] <= Said(w) + 1
        OBVIOUS
      <4>1. files[k] \in MessageIds
        <5>1. files \in Seq(Contents)
          BY DEF TypeOK, Contents
        <5>. QED
          BY <5>1, ElementOfSeq DEF Contents
      <4>2. files[k][2] \in Nat
        BY <4>1, BoundAssumption DEF MessageIds
      <4>. QED
        BY <1>1, <3>1, <4>2
    <3>. QED
      BY <1>1, <1>2, <2>2, <3>4, <3>5, <3>6, <3>7 DEF OwnInv, R
  <2>. QED
    BY <2>1, <2>2
<1>10. UndisturbedInv'
  <2>. SUFFICES ASSUME NEW v \in Writers, v \notin disturbed
                PROVE  /\ stage[v] = "open" => IsPrefix(Readable(files), held'[v])
                       /\ stage[v] = "saved" => IsPrefix(held'[v], Readable(files))
    BY <1>2 DEF UndisturbedInv, Open
  <2>1. CASE v # w
    BY <1>2, <2>1 DEF StoreInv, UndisturbedInv, Open
  <2>2. CASE v = w
    <3>1. IsPrefix(Readable(files), held[w])
      BY <1>2, <2>2 DEF StoreInv, UndisturbedInv, Open
    <3>2. R <= L /\ \A i \in 1..R : Readable(files)[i] = held[w][i]
      <4>1. Readable(files) \in Seq(MessageIds) /\ held[w] \in Seq(MessageIds)
        BY <1>1, <1>5
      <4>2. /\ Len(Readable(files)) <= Len(held[w])
            /\ \A i \in 1..Len(Readable(files)) : Readable(files)[i] = held[w][i]
        BY <3>1, <4>1, PrefixIs, Zenon
      <4>. QED
        BY <4>2 DEF R, L
    <3>3. R <= Len(held'[w]) /\ \A i \in 1..R : Readable(files)[i] = held'[w][i]
      BY <1>1, <1>5, <3>2
    <3>4. IsPrefix(Readable(files), held'[w])
      BY <1>1, <1>5, <3>3, PrefixIs DEF R
    <3>. QED
      BY <1>2, <2>2, <3>4
  <2>. QED
    BY <2>1, <2>2
<1>. QED
  BY <1>7, <1>8, <1>9, <1>10 DEF StoreInv

\* Files that are kept were there, each at a place of its own.
LEMMA KeptWasThere ==
    ASSUME NEW s \in Seq(Contents), NEW kept \in Subsequences(s)
    PROVE  /\ kept \in Seq(Contents)
           /\ \E f \in [1..Len(kept) -> 1..Len(s)] :
                 /\ \A i, j \in 1..Len(kept) : f[i] = f[j] => i = j
                 /\ \A i \in 1..Len(kept) : kept[i] = s[f[i]]
<1>1. PICK D \in SUBSET DOMAIN s : kept = Keep(s, D)
  BY DEF Subsequences
<1>2. Len(s) \in Nat /\ DOMAIN s = 1..Len(s)
  BY LenProperties
<1>3. /\ kept \in Seq(Contents) /\ Len(kept) = Cardinality(D)
      /\ \A n \in 1..Cardinality(D) : Nth(D, n) \in D /\ kept[n] = s[Nth(D, n)]
  BY <1>1, KeepTyped
<1>4. \A n \in 1..Cardinality(D) : Rank(D, Nth(D, n)) = n
  BY <1>2, NthIs
<1> DEFINE f == [n \in 1..Len(kept) |-> Nth(D, n)]
<1>5. f \in [1..Len(kept) -> 1..Len(s)]
  BY <1>2, <1>3
<1>6. \A i, j \in 1..Len(kept) : f[i] = f[j] => i = j
  BY <1>3, <1>4
<1>7. \A i \in 1..Len(kept) : kept[i] = s[f[i]]
  BY <1>3
<1>. QED
  BY <1>3, <1>5, <1>6, <1>7

LEMMA DeleteKeeps == ASSUME TypeOK, StoreInv, Delete PROVE files' \in Subsequences(files) /\ StoreInv'
<1>1. /\ metadata = "whole" /\ held' = held /\ disturbed' = disturbed
      /\ \/ metadata' = "none" /\ files' = <<>>
         \/ files' \in Subsequences(files) /\ metadata' = metadata
      /\ \A w \in Writers : stage[w] # "open"
      /\ \A w \in Writers : stage'[w] = IF stage[w] = "saved" THEN "lost" ELSE stage[w]
  BY DEF Delete, AnyOpen, Open
<1>2. files \in Seq(Contents) /\ Len(files) \in Nat /\ DOMAIN files = 1..Len(files)
  <2>1. files \in Seq(Contents)
    BY DEF TypeOK, Contents
  <2>. QED
    BY <2>1, LenProperties
<1>3. files' \in Subsequences(files)
  <2>1. <<>> = Keep(files, {})
    <3>1. Cardinality({}) = 0
      BY FS_EmptySet
    <3>. QED
      BY <3>1 DEF Keep
  <2>2. <<>> \in Subsequences(files)
    BY <2>1 DEF Subsequences
  <2>. QED
    BY <1>1, <2>2
<1>4. PICK f \in [1..Len(files') -> 1..Len(files)] :
         /\ \A i, j \in 1..Len(files') : f[i] = f[j] => i = j
         /\ \A i \in 1..Len(files') : files'[i] = files[f[i]]
  BY <1>2, <1>3, KeptWasThere
<1>5. DOMAIN files' = 1..Len(files')
  BY <1>2, <1>3, KeptWasThere, LenProperties
<1>6. FilesInv'
  <2>1. \A i, j \in 1..Len(files) : i # j /\ files[i] # Torn => files[i] # files[j]
    BY <1>2 DEF StoreInv, FilesInv, StoredOnce
  <2>2. \A i, j \in 1..Len(files') : i # j /\ files'[i] # Torn => files'[i] # files'[j]
    BY <1>4, <2>1
  <2>. QED
    BY <1>1, <1>5, <2>2 DEF FilesInv, StoredOnce
<1>7. IdleInv'
  <2>. SUFFICES ASSUME NEW u \in Writers, stage'[u] = "idle"
                PROVE  /\ \A i \in 1..Len(files') : files'[i] # Torn => files'[i][1] # u
                       /\ \A v \in Writers : \A i \in 1..Len(held[v]) : held[v][i][1] # u
    BY <1>1 DEF IdleInv
  <2>1. stage[u] = "idle"
    BY <1>1
  <2>2. /\ \A i \in 1..Len(files) : files[i] # Torn => files[i][1] # u
        /\ \A v \in Writers : \A i \in 1..Len(held[v]) : held[v][i][1] # u
    BY <2>1 DEF StoreInv, IdleInv
  <2>. QED
    BY <1>4, <2>2
<1>8. CopyInv' /\ UndisturbedInv'
  <2>1. \A w \in Writers : stage'[w] # "open" /\ stage'[w] # "saved"
    BY <1>1
  <2>. QED
    BY <2>1 DEF CopyInv, UndisturbedInv, Open
<1>. QED
  BY <1>3, <1>6, <1>7, <1>8 DEF StoreInv

\* The first message of a conversation is stored, or a torn file at most.
LEMMA CreateIs ==
    ASSUME TypeOK, StoreInv, NEW w \in Writers, Create(w)
    PROVE  LET first == <<w, 1>>
           IN  /\ first \in MessageIds /\ <<first>> \in Seq(MessageIds) /\ Len(<<first>>) = 1
               /\ <<first>>[1] = first /\ files = <<>> /\ Readable(files) = <<>>
               /\ files' \in Seq(Contents) /\ disturbed' = disturbed /\ metadata' \in {"whole", "torn"}
               /\ stage[w] = "idle" /\ \A v \in Writers : stage[v] # "open"
               /\ \A v \in Writers : v # w => stage'[v] = stage[v] /\ held'[v] = held[v]
               /\ \/ /\ files' = <<first>> /\ Readable(files') = <<first>>
                     /\ stage'[w] = "open" /\ held'[w] = <<first>>
                  \/ /\ files' \in {<<>>, <<Torn>>} /\ Readable(files') = <<>>
                     /\ stage'[w] = "lost" /\ held' = held
<1> DEFINE first == <<w, 1>>
<1>1. first \in MessageIds /\ <<first>> \in Seq(MessageIds) /\ Len(<<first>>) = 1 /\ <<first>>[1] = first
  <2>1. 1 \in 1..MaxSaid
    BY BoundAssumption
  <2>2. first \in MessageIds
    BY <2>1 DEF MessageIds
  <2>. HIDE DEF first
  <2>. QED
    BY <2>2
<1>. HIDE DEF first
<1>2. files = <<>>
  BY DEF Create, StoreInv, FilesInv
<1>3. <<>> \in Seq(Contents) /\ <<>> \in Seq(MessageIds)
  OBVIOUS
<1>4. Readable(<<>>) = <<>>
  BY ReadableNone
<1>5. /\ stage[w] = "idle" /\ disturbed' = disturbed /\ metadata' \in {"whole", "torn"}
      /\ \A v \in Writers : stage[v] # "open"
      /\ \A v \in Writers : v # w => stage'[v] = stage[v] /\ held'[v] = held[v]
      /\ \/ /\ files' = Append(files, first)
            /\ stage'[w] = "open" /\ held'[w] = <<first>>
         \/ /\ (files' = files \/ \E tail \in {<<>>, <<Torn>>} : files' = files \o tail)
            /\ stage'[w] = "lost" /\ held' = held
  BY DEF Create, AnyOpen, Open, TypeOK, TornTails, first
<1>6. CASE /\ files' = Append(files, first)
           /\ stage'[w] = "open" /\ held'[w] = <<first>>
  <2>1. files' = <<first>>
    <3>1. Append(<<>>, first) = <<>> \o <<first>>
      BY <1>1, <1>3, AppendIsConcat
    <3>2. <<>> \o <<first>> = <<first>>
      BY <1>1, ConcatEmptySeq
    <3>. QED
      BY <1>2, <1>6, <3>1, <3>2
  <2>2. Readable(<<first>>) = <<first>>
    <3>1. /\ <<>> \o <<first>> \o <<>> \in Seq(Contents)
          /\ Readable(<<>> \o <<first>> \o <<>>) = Readable(<<>>) \o <<first>>
      BY <1>1, <1>3, ReadableGrows
    <3>2. <<>> \o <<first>> = <<first>> /\ <<first>> \o <<>> = <<first>>
      BY <1>1, ConcatEmptySeq
    <3>. QED
      BY <1>4, <3>1, <3>2
  <2>3. <<first>> \in Seq(Contents)
    BY <1>1, SeqMonotonic DEF Contents
  <2>. QED
    BY <1>1, <1>2, <1>4, <1>5, <1>6, <2>1, <2>2, <2>3 DEF first
<1>7. CASE /\ (files' = files \/ \E tail \in {<<>>, <<Torn>>} : files' = files \o tail)
           /\ stage'[w] = "lost" /\ held' = held
  <2>1. PICK tail \in {<<>>, <<Torn>>} : files' = tail /\ tail \in Seq(Contents)
    <3>1. <<>> \in Seq(Contents) /\ <<Torn>> \in Seq(Contents)
      <4>1. Torn \in Contents
        BY DEF Contents
      <4>. QED
        BY <4>1
    <3>2. <<>> \o <<>> = <<>> /\ <<>> \o <<Torn>> = <<Torn>>
      BY <3>1, ConcatEmptySeq
    <3>. QED
      BY <1>2, <1>7, <3>1, <3>2
  <2>2. Readable(tail) = <<>>
    <3>1. Readable(<<>> \o <<>> \o tail) = Readable(<<>>) \o <<>>
      BY <1>3, ReadableGrows
    <3>2. <<>> \o <<>> = <<>> /\ <<>> \o tail = tail
      BY <1>3, <2>1, ConcatEmptySeq
    <3>. QED
      BY <1>4, <3>1, <3>2
  <2>. QED
    BY <1>1, <1>2, <1>4, <1>5, <1>7, <2>1, <2>2 DEF first
<1>. QED
  BY <1>5, <1>6, <1>7

LEMMA CreateKeeps ==
    ASSUME TypeOK, StoreInv, NEW w \in Writers, Create(w) PROVE StoreInv'
<1> DEFINE first == <<w, 1>>
<1>1. /\ first \in MessageIds /\ <<first>> \in Seq(MessageIds) /\ Len(<<first>>) = 1
      /\ <<first>>[1] = first /\ files = <<>> /\ Readable(files) = <<>>
      /\ files' \in Seq(Contents) /\ disturbed' = disturbed /\ metadata' \in {"whole", "torn"}
      /\ stage[w] = "idle" /\ \A v \in Writers : stage[v] # "open"
      /\ \A v \in Writers : v # w => stage'[v] = stage[v] /\ held'[v] = held[v]
      /\ \/ /\ files' = <<first>> /\ Readable(files') = <<first>>
            /\ stage'[w] = "open" /\ held'[w] = <<first>>
         \/ /\ files' \in {<<>>, <<Torn>>} /\ Readable(files') = <<>>
            /\ stage'[w] = "lost" /\ held' = held
  BY CreateIs
<1>2. /\ <<>> \in Seq(MessageIds) /\ Len(<<>>) = 0
      /\ Len(<<Torn>>) = 1 /\ <<Torn>>[1] = Torn
  OBVIOUS
<1>3. first[1] = w /\ first[2] = 1
  OBVIOUS
<1>. HIDE DEF first
<1>4. /\ Len(files') \in {0, 1} /\ DOMAIN files' = 1..Len(files')
      /\ \A i \in 1..Len(files') : i = 1 /\ (files'[i] # Torn => files'[i] = first)
  <2>1. DOMAIN files' = 1..Len(files')
    BY <1>1, LenProperties
  <2>2. \A i : (i \in 1..1 => i = 1) /\ i \notin 1..0
    OBVIOUS
  <2>. QED
    BY <1>1, <1>2, <2>1, <2>2
<1>5. /\ Len(held'[w]) \in Nat
      /\ \A i \in 1..Len(held'[w]) : (i = 1 /\ held'[w][i] = first) \/ held' = held
  <2>1. held[w] \in Seq(MessageIds)
    BY DEF TypeOK
  <2>2. Len(held[w]) \in Nat
    BY <2>1, LenProperties
  <2>3. \A i : i \in 1..1 => i = 1
    OBVIOUS
  <2>. QED
    BY <1>1, <2>2, <2>3
<1>6. FilesInv'
  BY <1>1, <1>4 DEF FilesInv, StoredOnce
<1>7. IdleInv'
  <2>. SUFFICES ASSUME NEW u \in Writers, stage'[u] = "idle"
                PROVE  /\ \A i \in 1..Len(files') : files'[i] # Torn => files'[i][1] # u
                       /\ \A v \in Writers : \A i \in 1..Len(held'[v]) : held'[v][i][1] # u
    BY DEF IdleInv
  <2>1. u # w /\ stage[u] = "idle"
    BY <1>1
  <2>2. \A v \in Writers : \A i \in 1..Len(held[v]) : held[v][i][1] # u
    BY <2>1 DEF StoreInv, IdleInv
  <2>3. \A v \in Writers : \A i \in 1..Len(held'[v]) : held'[v][i][1] # u
    BY <1>1, <1>3, <1>5, <2>1, <2>2
  <2>. QED
    BY <1>3, <1>4, <2>1, <2>3
<1>8. CopyInv'
  <2>. SUFFICES ASSUME NEW v \in Writers, stage'[v] = "open" PROVE OwnInv(v)'
    BY DEF CopyInv, Open
  <2>1. v = w /\ files' = <<first>> /\ Readable(files') = <<first>> /\ held'[w] = <<first>>
    BY <1>1
  <2>2. \A i : i \in 1..1 <=> i = 1
    OBVIOUS
  <2>3. Said(w)' = 1
    <3>1. Said(w)' = Cardinality({i \in DOMAIN held'[w] : held'[w][i][1] = w})
      BY DEF Said
    <3>2. DOMAIN held'[w] = 1..1
      BY <1>1, <2>1, LenProperties
    <3>3. {i \in DOMAIN held'[w] : held'[w][i][1] = w} = {1}
      BY <1>1, <1>3, <2>1, <2>2, <3>2
    <3>. QED
      BY <3>1, <3>3, FS_Singleton
  <2>4. \A i, j \in 1..Len(held'[w]) : held'[w][i] = held'[w][j] => i = j
    BY <1>1, <2>1, <2>2
  <2>5. \A i \in 1..Len(held'[w]) : ~ (i > Len(Readable(files')))
    BY <1>1, <2>1, <2>2
  <2>6. \A i \in 1..Len(held'[w]) : held'[w][i][2] <= 1
    BY <1>1, <1>3, <2>1, <2>2
  <2>7. \A k \in 1..Len(files') : files'[k][2] <= 1
    BY <1>1, <1>3, <2>1, <2>2
  <2>. QED
    BY <2>1, <2>3, <2>4, <2>5, <2>6, <2>7 DEF OwnInv
<1>9. UndisturbedInv'
  <2>. SUFFICES ASSUME NEW v \in Writers, v \notin disturbed
                PROVE  /\ stage'[v] = "open" => IsPrefix(Readable(files'), held'[v])
                       /\ stage'[v] = "saved" => IsPrefix(held'[v], Readable(files'))
    BY <1>1 DEF UndisturbedInv, Open
  <2>1. stage'[v] = "open" => Readable(files') = <<first>> /\ held'[v] = <<first>>
    BY <1>1
  <2>2. IsPrefix(<<first>>, <<first>>)
    <3>1. Len(<<first>>) <= Len(<<first>>)
      BY <1>1
    <3>. QED
      BY <1>1, <3>1, PrefixIs
  <2>3. ASSUME stage'[v] = "saved" PROVE IsPrefix(held'[v], Readable(files'))
    <3>1. v # w /\ stage[v] = "saved" /\ held'[v] = held[v]
      BY <1>1, <2>3
    <3>2. IsPrefix(held[v], <<>>)
      BY <1>1, <3>1 DEF StoreInv, UndisturbedInv
    <3>3. held[v] \in Seq(MessageIds)
      BY DEF TypeOK
    <3>4. Len(held[v]) <= 0 /\ Len(held[v]) \in Nat
      BY <1>2, <3>2, <3>3, PrefixIs, LenProperties
    <3>5. Readable(files') \in Seq(MessageIds) /\ Len(Readable(files')) \in Nat
      BY <1>1, ReadableTyped
    <3>6. Len(held[v]) <= Len(Readable(files')) /\ \A i \in 1..Len(held[v]) : FALSE
      BY <3>4, <3>5
    <3>. QED
      BY <3>1, <3>3, <3>5, <3>6, PrefixIs
  <2>. QED
    BY <2>1, <2>2, <2>3
<1>. QED
  BY <1>6, <1>7, <1>8, <1>9 DEF StoreInv

LEMMA TypeKeeps == ASSUME TypeOK, StoreInv, Next PROVE TypeOK'
<1>0. /\ files \in Seq(Contents) /\ Readable(files) \in Seq(MessageIds)
      /\ <<>> \in Seq(MessageIds) /\ <<>> \in Seq(Contents)
  <2>1. files \in Seq(Contents)
    BY DEF TypeOK, Contents
  <2>. QED
    BY <2>1, ReadableTyped
<1>1. CASE Delete
  <2>1. files' \in Seq(Contents)
    BY <1>0, <1>1, KeptWasThere DEF Delete
  <2>. QED
    BY <1>1, <2>1 DEF Delete, TypeOK, Contents
<1>2. ASSUME NEW w \in Writers, Get(w) PROVE TypeOK'
  BY <1>0, <1>2 DEF Get, TypeOK
<1>3. ASSUME NEW w \in Writers, Create(w) PROVE TypeOK'
  <2>1. /\ <<<<w, 1>>>> \in Seq(MessageIds) /\ files' \in Seq(Contents)
        /\ metadata' \in {"whole", "torn"} /\ disturbed' = disturbed
    BY <1>3, CreateIs
  <2>2. held' \in [Writers -> Seq(MessageIds)] /\ stage' \in [Writers -> {"idle", "open", "saved", "lost"}]
    BY <1>3, <2>1 DEF Create, TypeOK
  <2>. QED
    BY <2>1, <2>2 DEF TypeOK, Contents
<1>4. ASSUME NEW w \in Writers, AddMessage(w) PROVE TypeOK'
  <2>1. held'[w] \in Seq(MessageIds)
    BY <1>4, SaidGrows
  <2>2. held' \in [Writers -> Seq(MessageIds)]
    BY <1>4, <2>1 DEF AddMessage, TypeOK
  <2>. QED
    BY <1>4, <2>2 DEF AddMessage, TypeOK
<1>5. ASSUME NEW w \in Writers, Update(w) \/ UpdateCut(w) PROVE TypeOK'
  <2>1. PICK n, tail : Saves(w, n, tail)
    BY <1>5, UpdateKeeps
  <2>2. files' \in Seq(Contents)
    BY <2>1, SavesIs
  <2>3. /\ metadata' \in {"whole", "torn"} /\ held' = held /\ disturbed' \subseteq Writers
        /\ stage' \in {stage, [stage EXCEPT ![w] = "saved"]}
    BY <1>5 DEF Update, UpdateCut, Disturbs, TypeOK
  <2>. QED
    BY <2>2, <2>3 DEF TypeOK, Contents
<1>6. ASSUME NEW w \in Writers, Drop(w) PROVE TypeOK'
  BY <1>0, <1>6 DEF Drop, TypeOK
<1>. QED
  BY <1>1, <1>2, <1>3, <1>4, <1>5, <1>6 DEF Next

LEMMA NextKeeps == ASSUME TypeOK, StoreInv, [Next]_vars PROVE TypeOK' /\ StoreInv'
<1>1. CASE Next
  <2>1. TypeOK'
    BY <1>1, TypeKeeps
  <2>2. StoreInv'
    BY <1>1, DeleteKeeps, GetKeeps, CreateKeeps, AddKeeps, UpdateKeeps, DropKeeps DEF Next
  <2>. QED
    BY <2>1, <2>2
<1>2. CASE UNCHANGED vars
  <2>1. UNCHANGED <<metadata, files, stage, held, disturbed>>
    BY <1>2 DEF vars
  <2>2. TypeOK'
    BY <2>1 DEF TypeOK
  <2>3. FilesInv' /\ IdleInv'
    BY <2>1 DEF StoreInv, FilesInv, StoredOnce, IdleInv
  <2>4. CopyInv'
    <3>. SUFFICES ASSUME NEW w \in Writers, Open(w)' PROVE OwnInv(w)'
      BY DEF CopyInv
    <3>1. Said(w)' = Said(w)
      BY <2>1 DEF Said
    <3>2. OwnInv(w)
      BY <2>1 DEF StoreInv, CopyInv, Open
    <3>. QED
      BY <2>1, <3>1, <3>2 DEF OwnInv
  <2>5. UndisturbedInv'
    BY <2>1 DEF StoreInv, UndisturbedInv, Open
  <2>. QED
    BY <2>2, <2>3, <2>4, <2>5 DEF StoreInv
<1>. QED
  BY <1>1, <1>2
------------------------------------------------------------------------------
(***************************************************************************)
(* The theorems                                                            *)
(***************************************************************************)

LEMMA Invariance == Spec => [](TypeOK /\ StoreInv)
<1>1. Init => TypeOK /\ StoreInv
  BY InitInv
<1>2. TypeOK /\ StoreInv /\ [Next]_vars => (TypeOK /\ StoreInv)'
  BY NextKeeps
<1>. QED
  BY <1>1, <1>2, PTL DEF Spec

\* Every variable has the type it is declared with.
THEOREM StoreTypeCorrect == Spec => []TypeOK
  BY Invariance, PTL

\* However saves are cut off, turns overlap and metadata is lost,
\* update_conversation stores no message twice.
THEOREM MessagesStoredOnce == Spec => []StoredOnce
<1>1. StoreInv => StoredOnce
  BY DEF StoreInv, FilesInv
<1>. QED
  BY <1>1, Invariance, PTL

\* What a turn has saved is read back, by any load that finds metadata.json
\* whole, exactly and in front of whatever came later, after any number of its saves
\* were cut off, if it loaded what there was and no other turn wrote under it.
THEOREM WhatIsSavedIsReadBack == Spec => []SavedIsReadBack
<1>1. StoreInv => SavedIsReadBack
  BY DEF StoreInv, UndisturbedInv, SavedIsReadBack
<1>. QED
  BY <1>1, Invariance, PTL
------------------------------------------------------------------------------
(***************************************************************************)
(* The order of a turn's messages                                          *)
(***************************************************************************)

\* A turn holds its messages in the order in which it said them, and those it
\* would save come after those of its that are stored.
OwnOrder(w) ==
    /\ \A i, j \in 1..Len(held[w]) :
           i < j /\ held[w][i][1] = w /\ held[w][j][1] = w => held[w][i][2] < held[w][j][2]
    /\ \A i \in 1..Len(held[w]), k \in 1..Len(files) :
           i > Len(Readable(files)) /\ files[k] # Torn /\ files[k][1] = w
              => files[k][2] < held[w][i][2]

OrderInv == \A w \in Writers : Open(w) => OwnOrder(w)

LEMMA GetOrders ==
    ASSUME TypeOK, StoreInv, OrderInv, NEW w \in Writers, Get(w)
    PROVE  OrderInv'
<1>0. files \in Seq(Contents) /\ files' = files /\ stage[w] = "idle"
      /\ held' = [held EXCEPT ![w] = IF metadata = "whole" THEN Readable(files) ELSE <<>>]
      /\ \A v \in Writers : v # w => stage'[v] = stage[v] /\ held'[v] = held[v]
  BY DEF Get, TypeOK, Contents
<1>1. \A k \in 1..Len(files) : files[k] # Torn => files[k][1] # w
  BY <1>0 DEF StoreInv, IdleInv
<1>2. \A i \in 1..Len(Readable(files)) : Readable(files)[i][1] # w
  <2>1. \A i \in 1..Len(Readable(files)) :
            Nth(Whole(files), i) \in Whole(files) /\ Readable(files)[i] = files[Nth(Whole(files), i)]
    BY <1>0, ReadableTyped
  <2>2. \A k \in Whole(files) : k \in 1..Len(files) /\ files[k] # Torn
    BY <1>0, LenProperties DEF Whole
  <2>. QED
    BY <1>1, <2>1, <2>2
<1>3. \A i \in 1..Len(held'[w]) : held'[w][i][1] # w
  <2>1. held'[w] = IF metadata = "whole" THEN Readable(files) ELSE <<>>
    BY <1>0 DEF TypeOK
  <2>. QED
    BY <1>2, <2>1
<1>4. OwnOrder(w)'
  BY <1>0, <1>1, <1>3 DEF OwnOrder
<1>5. ASSUME NEW v \in Writers, v # w, Open(v)' PROVE OwnOrder(v)'
  <2>1. Open(v) /\ OwnOrder(v)
    BY <1>0, <1>5 DEF Open, OrderInv
  <2>. QED
    BY <1>0, <1>5, <2>1 DEF OwnOrder
<1>. QED
  BY <1>4, <1>5 DEF OrderInv

\* A message is numbered above all the turn has said.
LEMMA AddOrders ==
    ASSUME TypeOK, StoreInv, OrderInv, NEW w \in Writers, AddMessage(w)
    PROVE  OrderInv'
<1> DEFINE new == <<w, Said(w) + 1>>
           h == Len(held[w])
<1>1. /\ files' = files /\ stage' = stage /\ Open(w)
      /\ held' = [held EXCEPT ![w] = Append(held[w], new)]
      /\ held[w] \in Seq(MessageIds) /\ h \in Nat
  <2>1. held[w] \in Seq(MessageIds)
    BY DEF TypeOK
  <2>. QED
    BY <2>1, LenProperties DEF AddMessage, Said
<1>2. OwnInv(w) /\ OwnOrder(w)
  BY <1>1 DEF StoreInv, CopyInv, OrderInv
<1>3. /\ held'[w] = Append(held[w], new)
      /\ \A v \in Writers : v # w => held'[v] = held[v]
  BY <1>1 DEF TypeOK
<1>4. /\ Said(w) \in Nat
      /\ Len(held'[w]) = h + 1 /\ held'[w][h + 1] = new
      /\ \A i \in 1..h : held'[w][i] = held[w][i]
  <2>1. {i \in DOMAIN held[w] : held[w][i][1] = w} \in SUBSET (1..h) /\ IsFiniteSet(1..h)
    <3>1. DOMAIN held[w] = 1..h
      BY <1>1, LenProperties
    <3>2. h \in Int /\ 1 \in Int
      BY <1>1
    <3>3. IsFiniteSet(1..h)
      BY <3>2, FS_Interval
    <3>. QED
      BY <3>1, <3>3
  <2>2. Said(w) \in Nat
    BY <2>1, FS_Subset, FS_CardinalityType DEF Said
  <2>3. Said(w) + 1 \in 1..MaxSaid
    <3>1. Said(w) < MaxSaid
      BY DEF AddMessage, Said
    <3>. QED
      BY <2>2, <3>1, BoundAssumption
  <2>4. new \in MessageIds
    BY <2>3 DEF MessageIds
  <2>5. /\ Len(Append(held[w], new)) = h + 1
        /\ \A i \in 1..h : Append(held[w], new)[i] = held[w][i]
        /\ Append(held[w], new)[h + 1] = new
    <3>. HIDE DEF new
    <3>. QED
      BY <1>1, <2>4, AppendProperties
  <2>. HIDE DEF new
  <2>. QED
    BY <1>3, <2>2, <2>5
<1>5. new[1] = w /\ new[2] = Said(w) + 1
  OBVIOUS
<1>6. \A i \in 1..Len(held'[w]) : i \in 1..h \/ i = h + 1
  BY <1>1, <1>4
<1>7. /\ \A i \in 1..h : held[w][i] \in MessageIds /\ held[w][i][2] \in Nat
      /\ \A k \in 1..Len(files) : files[k] # Torn => files[k][2] \in Nat
  <2>1. \A m \in MessageIds : m[2] \in Nat
    BY DEF MessageIds
  <2>2. files \in Seq(Contents)
    BY DEF TypeOK, Contents
  <2>3. \A k \in 1..Len(files) : files[k] \in Contents
    BY <2>2, ElementOfSeq
  <2>4. \A i \in 1..h : held[w][i] \in MessageIds
    BY <1>1, ElementOfSeq
  <2>. QED
    BY <2>1, <2>3, <2>4 DEF Contents
<1>. HIDE DEF new, h
<1>8. ASSUME NEW i \in 1..Len(held'[w]), NEW j \in 1..Len(held'[w]), i < j,
             held'[w][i][1] = w, held'[w][j][1] = w
      PROVE  held'[w][i][2] < held'[w][j][2]
  <2>1. CASE j \in 1..h
    <3>1. i \in 1..h
      BY <1>1, <1>6, <1>8, <2>1
    <3>. QED
      BY <1>2, <1>4, <1>8, <2>1, <3>1 DEF OwnOrder, h
  <2>2. CASE j = h + 1
    <3>1. i \in 1..h
      BY <1>1, <1>6, <1>8, <2>2
    <3>2. held[w][i][2] <= Said(w)
      BY <1>2, <1>4, <1>8, <3>1 DEF OwnInv, h
    <3>. QED
      BY <1>4, <1>5, <1>7, <2>2, <3>1, <3>2
  <2>. QED
    BY <1>6, <2>1, <2>2
<1>9. ASSUME NEW i \in 1..Len(held'[w]), NEW k \in 1..Len(files),
             i > Len(Readable(files)), files[k] # Torn, files[k][1] = w
      PROVE  files[k][2] < held'[w][i][2]
  <2>1. CASE i \in 1..h
    BY <1>2, <1>4, <1>9, <2>1 DEF OwnOrder, h
  <2>2. CASE i = h + 1
    <3>1. files[k][2] <= Said(w)
      BY <1>2, <1>9 DEF OwnInv
    <3>. QED
      BY <1>4, <1>5, <1>7, <1>9, <2>2, <3>1
  <2>. QED
    BY <1>6, <2>1, <2>2
<1>10. OwnOrder(w)'
  BY <1>1, <1>8, <1>9 DEF OwnOrder
<1>11. ASSUME NEW v \in Writers, v # w, Open(v)' PROVE OwnOrder(v)'
  <2>1. OwnOrder(v)
    BY <1>1, <1>11 DEF Open, OrderInv
  <2>. QED
    BY <1>1, <1>3, <1>11, <2>1 DEF OwnOrder
<1>. QED
  BY <1>10, <1>11 DEF OrderInv

\* What w saves is its own and in order, behind what of its is stored.
LEMMA SaveOrders ==
    ASSUME TypeOK, StoreInv, OrderInv, NEW w \in Writers, NEW n, NEW tail, Saves(w, n, tail),
           Open(w), held' = held, \A v \in Writers : Open(v)' => Open(v)
    PROVE  OrderInv'
<1> DEFINE R == Len(Readable(files))
<1>1. /\ R \in Nat /\ n \in Nat /\ Len(held[w]) \in Nat
      /\ n # 0 => R + n <= Len(held[w])
  <2>1. n \in 0..Len(Missing(w))
    BY DEF Saves
  <2>. QED
    BY <2>1, MissingIs
<1>2. /\ \A i \in 1..Len(files') : files'[i] # Torn =>
             \/ i \in 1..Len(files) /\ files'[i] = files[i]
             \/ \E k \in 1..n : i = Len(files) + k /\ files'[i] = held[w][R + k]
      /\ Len(Readable(files')) = R + n
  BY SavesIs
<1>3. OwnInv(w) /\ OwnOrder(w)
  BY DEF StoreInv, CopyInv, OrderInv
<1>4. \A k \in 1..n : R + k \in 1..Len(held[w]) /\ R + k > R
  BY <1>1
<1>5. \A k \in 1..n : held[w][R + k][1] = w
  BY <1>3, <1>4 DEF OwnInv
<1> SUFFICES ASSUME NEW v \in Writers, Open(v)' PROVE OwnOrder(v)'
  BY DEF OrderInv
<1>6. OwnInv(v) /\ OwnOrder(v) /\ Len(held[v]) \in Nat
  <2>1. Open(v) /\ held[v] \in Seq(MessageIds)
    BY DEF TypeOK
  <2>. QED
    BY <2>1, LenProperties DEF StoreInv, CopyInv, OrderInv
<1>7. ASSUME NEW i \in 1..Len(held[v]), NEW k \in 1..Len(files'), i > R + n,
             files'[k] # Torn, files'[k][1] = v
      PROVE  files'[k][2] < held[v][i][2]
  <2>1. i > R
    BY <1>1, <1>6, <1>7
  <2>2. CASE k \in 1..Len(files) /\ files'[k] = files[k]
    BY <1>6, <1>7, <2>1, <2>2 DEF OwnOrder
  <2>3. ASSUME NEW l \in 1..n, files'[k] = held[w][R + l]
        PROVE  files'[k][2] < held[v][i][2]
    <3>1. v = w
      BY <1>5, <1>7, <2>3
    <3>2. R + l \in 1..Len(held[v]) /\ R + l < i
      BY <1>1, <1>4, <1>6, <1>7, <3>1
    <3>3. held[v][i][1] = v /\ held[v][R + l][1] = v
      BY <1>5, <1>6, <2>1, <3>1 DEF OwnInv
    <3>. QED
      BY <1>6, <2>3, <3>1, <3>2, <3>3 DEF OwnOrder
  <2>. QED
    BY <1>2, <1>7, <2>2, <2>3
<1>. QED
  BY <1>2, <1>6, <1>7 DEF OwnOrder

LEMMA OrderKeeps ==
    ASSUME TypeOK, StoreInv, OrderInv, [Next]_vars
    PROVE  OrderInv'
<1>. stage \in [Writers -> {"idle", "open", "saved", "lost"}]
  BY DEF TypeOK
<1>1. ASSUME NEW w \in Writers, Create(w) PROVE OrderInv'
  <2> DEFINE first == <<w, 1>>
  <2>1. /\ \A v \in Writers : stage[v] # "open"
        /\ \A v \in Writers : v # w => stage'[v] = stage[v]
        /\ \/ /\ files' = <<first>> /\ Readable(files') = <<first>>
              /\ stage'[w] = "open" /\ held'[w] = <<first>>
           \/ stage'[w] = "lost"
        /\ Len(<<first>>) = 1
    BY <1>1, CreateIs
  <2>. HIDE DEF first
  <2>2. OwnOrder(w)' \/ stage'[w] = "lost"
    BY <2>1 DEF OwnOrder
  <2>. QED
    BY <2>1, <2>2 DEF OrderInv, Open
<1>2. ASSUME NEW w \in Writers, Update(w) \/ UpdateCut(w) PROVE OrderInv'
  <2>1. PICK n, tail : Saves(w, n, tail)
    BY <1>2, UpdateKeeps
  <2>2. /\ Open(w) /\ held' = held
        /\ \A v \in Writers : Open(v)' => Open(v)
    BY <1>2 DEF Update, UpdateCut, Open
  <2>. QED
    BY <2>1, <2>2, SaveOrders
<1>3. ASSUME NEW w \in Writers, Drop(w) PROVE OrderInv'
  <2>1. /\ files' = files
        /\ \A v \in Writers : Open(v)' => Open(v) /\ held'[v] = held[v]
    BY <1>3 DEF Drop, Open, TypeOK
  <2>. QED
    BY <2>1 DEF OrderInv, OwnOrder
<1>4. CASE Delete
  <2>1. \A v \in Writers : ~Open(v)'
    BY <1>4 DEF Delete, AnyOpen, Open
  <2>. QED
    BY <2>1 DEF OrderInv
<1>5. CASE UNCHANGED vars
  BY <1>5 DEF vars, OrderInv, OwnOrder, Open
<1>. QED
  BY <1>1, <1>2, <1>3, <1>4, <1>5, GetOrders, AddOrders DEF Next
------------------------------------------------------------------------------
(***************************************************************************)
(* The store implements Transcript                                         *)
(***************************************************************************)

AtWork == {w \in Writers : Open(w)}

\* What a load returns.
Read == IF metadata = "whole" THEN Readable(files) ELSE <<>>

\* What w saves extends the transcript.
LEMMA SavingAdds ==
    ASSUME TypeOK, StoreInv, OrderInv, NEW w \in Writers, NEW n, NEW tail, Saves(w, n, tail),
           Open(w)
    PROVE  Abstract!Adds(w)
<1> DEFINE old == Readable(files)
           new == Readable(files')
           R == Len(old)
<1>1. /\ R \in Nat /\ n \in Nat /\ Len(held[w]) \in Nat
      /\ n # 0 => R + n <= Len(held[w])
  <2>1. n \in 0..Len(Missing(w))
    BY DEF Saves
  <2>. QED
    BY <2>1, MissingIs
<1>2. /\ files' \in Seq(Contents) /\ Len(new) = R + n
      /\ \A i \in 1..R : new[i] = old[i]
      /\ \A k \in 1..n : new[R + k] = held[w][R + k]
  BY SavesIs
<1>3. files \in Seq(Contents)
  BY DEF TypeOK, Contents
<1>4. /\ old \in Seq(MessageIds) /\ new \in Seq(MessageIds)
      /\ \A i \in 1..R : \E k \in 1..Len(files) : files[k] # Torn /\ old[i] = files[k]
  <2>1. \A i \in 1..R : Nth(Whole(files), i) \in Whole(files) /\ old[i] = files[Nth(Whole(files), i)]
    BY <1>3, ReadableTyped
  <2>2. \A k \in Whole(files) : k \in 1..Len(files) /\ files[k] # Torn
    BY <1>3, LenProperties DEF Whole
  <2>. QED
    BY <1>2, <1>3, <2>1, <2>2, ReadableTyped
<1>5. OwnInv(w) /\ OwnOrder(w)
  BY DEF StoreInv, CopyInv, OrderInv
<1>6. \A k \in 1..n : R + k \in 1..Len(held[w]) /\ R + k > R
  BY <1>1
<1>7. \A k \in 1..n : held[w][R + k][1] = w
  BY <1>5, <1>6 DEF OwnInv
<1>8. IsPrefix(old, new)
  <2>1. R <= Len(new)
    BY <1>1, <1>2
  <2>. HIDE DEF old, new
  <2>. QED
    BY <1>2, <1>4, <2>1, PrefixIs DEF R
<1>9. ASSUME NEW i \in (R + 1)..Len(new)
      PROVE  /\ new[i][1] = w
             /\ \A j \in 1..(i - 1) : new[j][1] = w => new[j][2] < new[i][2]
  <2>. HIDE DEF old, new, R
  <2>1. PICK k \in 1..n : i = R + k
    <3>1. i - R \in 1..n /\ i = R + (i - R)
      BY <1>1, <1>2
    <3>. QED
      BY <3>1
  <2>2. new[i] = held[w][R + k] /\ new[i][1] = w
    BY <1>2, <1>7, <2>1
  <2>3. ASSUME NEW j \in 1..(i - 1), new[j][1] = w PROVE new[j][2] < new[i][2]
    <3>1. CASE j \in 1..R
      <4>1. PICK l \in 1..Len(files) : files[l] # Torn /\ old[j] = files[l]
        BY <1>4, <3>1
      <4>2. files[l][1] = w /\ new[j] = files[l]
        BY <1>2, <2>3, <3>1, <4>1
      <4>3. files[l][2] < held[w][R + k][2]
        BY <1>5, <1>6, <4>1, <4>2 DEF OwnOrder, R, old
      <4>. QED
        BY <2>2, <4>2, <4>3
    <3>2. CASE j \notin 1..R
      <4>1. j - R \in 1..n /\ j = R + (j - R) /\ j < R + k
        BY <1>1, <2>1, <3>2
      <4>2. PICK l \in 1..n : j = R + l /\ R + l < R + k
        BY <4>1
      <4>3. new[j] = held[w][R + l] /\ held[w][R + l][1] = w /\ held[w][R + k][1] = w
        BY <1>2, <1>7, <4>2
      <4>4. held[w][R + l][2] < held[w][R + k][2]
        BY <1>5, <1>6, <4>2, <4>3 DEF OwnOrder
      <4>. QED
        BY <2>2, <4>3, <4>4
    <3>. QED
      BY <3>1, <3>2
  <2>. QED
    BY <2>2, <2>3
<1>. QED
  BY <1>8, <1>9 DEF Abstract!Adds, Abstract!IsPrefix, IsPrefix

\* Every step of the store is one that Transcript allows, or changes nothing there.
LEMMA StepsRefine ==
    ASSUME TypeOK, StoreInv, OrderInv, TypeOK', StoreInv', [Next]_vars
    PROVE  [Abstract!Next]_<<Readable(files), Read, AtWork>>
<1>. /\ files \in Seq(Contents)
     /\ stage \in [Writers -> {"idle", "open", "saved", "lost"}]
  BY DEF TypeOK, Contents
<1>1. CASE Delete
  <2>1. files' \in Subsequences(files)
    BY <1>1, DeleteKeeps
  <2>2. Readable(files') \in Subsequences(Readable(files))
    BY <2>1, ReadableShrinks
  <2>3. AtWork = {} /\ AtWork' = {} /\ Read = Readable(files)
    BY <1>1 DEF Delete, AnyOpen, Open, AtWork, Read
  <2>4. Read' = Readable(files')
    <3>1. CASE metadata' = "none" /\ files' = <<>>
      BY <3>1, ReadableNone DEF Read
    <3>2. CASE metadata' = "whole"
      BY <3>2 DEF Read
    <3>. QED
      BY <1>1, <3>1, <3>2 DEF Delete
  <2>5. Abstract!Erase
    BY <2>2, <2>3, <2>4 DEF Abstract!Erase, Abstract!Subsequences, Abstract!Keep, Abstract!Nth,
                Abstract!Rank, Abstract!Cardinality, Abstract!IsFiniteSet, AtWork, Read,
                Subsequences, Keep, Nth, Rank, Cardinality, IsFiniteSet
  <2>. QED
    BY <2>5 DEF Abstract!Next
<1>2. ASSUME NEW w \in Writers, Create(w)
      PROVE  [Abstract!Next]_<<Readable(files), Read, AtWork>>
  <2> DEFINE first == <<w, 1>>
  <2>1. /\ first \in MessageIds /\ <<first>> \in Seq(MessageIds) /\ Len(<<first>>) = 1
        /\ <<first>>[1] = first /\ Readable(files) = <<>>
        /\ \A v \in Writers : stage[v] # "open"
        /\ \A v \in Writers : v # w => stage'[v] = stage[v]
        /\ \/ Readable(files') = <<first>> /\ stage'[w] = "open"
           \/ Readable(files') = <<>> /\ stage'[w] = "lost"
    BY <1>2, CreateIs
  <2>2. metadata = "none" /\ Read = <<>>
    BY <1>2 DEF Create, Read
  <2>3. CASE Readable(files') = <<first>> /\ stage'[w] = "open"
    <3>1. metadata' = "whole"
      BY <1>2, <2>3 DEF Create, TypeOK
    <3>2. AtWork = {} /\ AtWork' = {w}
      BY <2>1, <2>3 DEF AtWork, Open
    <3>3. first[1] = w
      OBVIOUS
    <3>4. Len(<<>>) = 0 /\ <<>> \in Seq(MessageIds) /\ IsPrefix(<<>>, <<first>>)
      <4> DEFINE none == <<>>
                 one == <<first>>
      <4>1. none \in Seq(MessageIds) /\ Len(none) = 0
        OBVIOUS
      <4>2. one \in Seq(MessageIds) /\ Len(one) = 1
        BY <2>1
      <4>. HIDE DEF none, one
      <4>3. 0 <= 1 /\ \A i \in 1..0 : none[i] = one[i]
        OBVIOUS
      <4>4. IsPrefix(none, one)
        BY <4>1, <4>2, <4>3, PrefixIs
      <4>. QED
        BY <4>1, <4>4 DEF none, one
    <3>. HIDE DEF first
    <3>5. Abstract!Adds(w)
      <4>1. \A i \in 1..1 : <<first>>[i][1] = w /\ \A j \in 1..(i - 1) : FALSE
        BY <2>1, <3>3
      <4>. QED
        BY <2>1, <2>3, <3>4, <4>1 DEF Abstract!Adds, Abstract!IsPrefix, IsPrefix
    <3>6. Abstract!Write(w)
      BY <2>3, <3>1, <3>2, <3>5 DEF Abstract!Write, AtWork, Read
    <3>. QED
      BY <3>6 DEF Abstract!Next
  <2>4. CASE Readable(files') = <<>> /\ stage'[w] = "lost"
    <3>1. AtWork' = AtWork /\ Read' = Read /\ Readable(files)' = Readable(files)
      BY <2>1, <2>2, <2>4 DEF AtWork, Open, Read
    <3>. QED
      BY <3>1
  <2>. QED
    BY <2>1, <2>3, <2>4
<1>3. ASSUME NEW w \in Writers, Update(w) \/ UpdateCut(w), metadata' = "whole"
      PROVE  Abstract!Write(w)
  <2>1. PICK n, tail : Saves(w, n, tail)
    BY <1>3, UpdateKeeps
  <2>2. Open(w) /\ stage' \in {stage, [stage EXCEPT ![w] = "saved"]}
    BY <1>3 DEF Update, UpdateCut
  <2>3. w \in AtWork /\ AtWork' \in {AtWork, AtWork \ {w}}
    <3>1. CASE stage' = stage
      BY <2>2, <3>1 DEF AtWork, Open
    <3>2. CASE stage' = [stage EXCEPT ![w] = "saved"]
      BY <2>2, <3>2 DEF AtWork, Open
    <3>. QED
      BY <2>2, <3>1, <3>2
  <2>4. Read' = Readable(files')
    BY <1>3 DEF Read
  <2>5. Abstract!Adds(w)
    BY <2>1, <2>2, SavingAdds
  <2>. QED
    BY <2>3, <2>4, <2>5 DEF Abstract!Write, AtWork, Read
<1>4. ASSUME NEW w \in Writers, UpdateCut(w), metadata' # "whole"
      PROVE  Abstract!Break(w)
  <2>1. Open(w) /\ files' = files /\ stage' = stage
    BY <1>4 DEF UpdateCut
  <2>2. w \in AtWork /\ AtWork' = AtWork /\ Read' = <<>>
    BY <1>4, <2>1 DEF AtWork, Open, Read
  <2>. QED
    BY <2>1, <2>2 DEF Abstract!Break, AtWork, Read
<1>5. ASSUME NEW w \in Writers, Get(w) PROVE Abstract!Come(w)
  <2>1. files' = files /\ metadata' = metadata /\ stage' = [stage EXCEPT ![w] = "open"]
    BY <1>5 DEF Get
  <2>2. AtWork' = AtWork \cup {w} /\ Read' = Read
    BY <2>1 DEF AtWork, Open, Read
  <2>. QED
    BY <2>1, <2>2 DEF Abstract!Come, AtWork, Read
<1>6. ASSUME NEW w \in Writers, Drop(w) PROVE Abstract!Leave(w)
  <2>1. files' = files /\ metadata' = metadata /\ stage' = [stage EXCEPT ![w] = "lost"]
    BY <1>6 DEF Drop
  <2>2. AtWork' = AtWork \ {w} /\ Read' = Read
    BY <2>1 DEF AtWork, Open, Read
  <2>. QED
    BY <2>1, <2>2 DEF Abstract!Leave, AtWork, Read
<1>7. ASSUME (\E w \in Writers : AddMessage(w)) \/ UNCHANGED vars
      PROVE  UNCHANGED <<Readable(files), Read, AtWork>>
  <2>1. files' = files /\ metadata' = metadata /\ stage' = stage
    BY <1>7 DEF AddMessage, vars
  <2>. QED
    BY <2>1 DEF AtWork, Open, Read
<1>8. ASSUME NEW w \in Writers,
             Abstract!Write(w) \/ Abstract!Break(w) \/ Abstract!Come(w) \/ Abstract!Leave(w)
      PROVE  Abstract!Next
  BY <1>8 DEF Abstract!Next
<1>9. ASSUME NEW w \in Writers, Update(w) PROVE metadata' = "whole"
  BY <1>9 DEF Update
<1>. QED
  BY <1>1, <1>2, <1>3, <1>4, <1>5, <1>6, <1>7, <1>8, <1>9 DEF Next

\* FileSystemConversationStore keeps what Transcript promises: a load returns all
\* the messages that can be read or, without a whole metadata.json, none; a turn
\* adds only messages of its own, in its order and none twice, behind what is
\* stored, whoever else saves meanwhile and wherever a save is cut off; and only
\* delete_conversation takes any out.
THEOREM StoreImplementsTranscript == Spec => ImplementsTranscript
<1>1. Init => Abstract!Init /\ OrderInv
  <2> SUFFICES ASSUME Init PROVE Abstract!Init /\ OrderInv
    OBVIOUS
  <2>1. /\ Readable(files) = <<>> /\ metadata = "none"
        /\ \A w \in Writers : ~Open(w)
    BY ReadableNone DEF Init, Open
  <2>. QED
    BY <2>1 DEF Abstract!Init, OrderInv
<1>2. TypeOK /\ StoreInv /\ OrderInv /\ [Next]_vars => OrderInv'
  BY OrderKeeps
<1>3. TypeOK /\ StoreInv /\ OrderInv /\ (TypeOK /\ StoreInv)' /\ [Next]_vars
         => [Abstract!Next]_<<Readable(files), Read, AtWork>>
  BY StepsRefine
<1>. QED
  BY <1>1, <1>2, <1>3, Invariance, PTL
     DEF Spec, ImplementsTranscript, Abstract!Spec, AtWork, Read
==============================================================================

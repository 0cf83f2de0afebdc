---------------------------- MODULE ToolUseProofs ----------------------------
(***************************************************************************)
(* Theorems about ToolUse, for any users, tools, groups and registries, any *)
(* number of calls in flight, and lists of any length.                     *)
(***************************************************************************)
EXTENDS ToolUse, SequenceTheorems, FiniteSetTheorems, TLAPS

(***************************************************************************)
(* The lists of memories                                                   *)
(***************************************************************************)

\* Ordered(s): the ids in s rise.
Ordered(s) == \A i, j \in DOMAIN s : i < j => s[i].id < s[j].id

LEMMA RemoveAtProperties ==
    ASSUME NEW S, NEW s \in Seq(S), NEW i \in 1..Len(s)
    PROVE  /\ RemoveAt(s, i) \in Seq(S)
           /\ Len(RemoveAt(s, i)) = Len(s) - 1
           /\ \A j \in 1..(Len(s) - 1) :
                  /\ j < i => RemoveAt(s, i)[j] = s[j]
                  /\ j >= i => RemoveAt(s, i)[j] = s[j + 1]
<1> DEFINE front == SubSeq(s, 1, i - 1)
           back  == SubSeq(s, i + 1, Len(s))
<1>1. Len(s) \in Nat /\ i \in Nat /\ \A n \in 1..Len(s) : s[n] \in S
  BY LenProperties, ElementOfSeq
<1>2. /\ front \in Seq(S) /\ Len(front) = i - 1
      /\ \A j \in 1..(i - 1) : front[j] = s[j]
  <2>1. \A n \in 1..(i - 1) : s[n] \in S
    BY <1>1
  <2>2. /\ front \in Seq(S) /\ Len(front) = IF 1 <= i - 1 THEN i - 1 - 1 + 1 ELSE 0
        /\ \A j \in 1..(i - 1 - 1 + 1) : front[j] = s[1 + j - 1]
    BY <1>1, <2>1, SubSeqProperties
  <2>. QED
    BY <1>1, <2>2
<1>3. /\ back \in Seq(S) /\ Len(back) = Len(s) - i
      /\ \A j \in 1..(Len(s) - i) : back[j] = s[i + j]
  <2>1. \A n \in (i + 1)..Len(s) : s[n] \in S
    BY <1>1
  <2>2. /\ back \in Seq(S) /\ Len(back) = IF i + 1 <= Len(s) THEN Len(s) - (i + 1) + 1 ELSE 0
        /\ \A j \in 1..(Len(s) - (i + 1) + 1) : back[j] = s[i + 1 + j - 1]
    BY <1>1, <2>1, SubSeqProperties
  <2>. QED
    BY <1>1, <2>2
<1>. HIDE DEF front, back
<1> DEFINE both == front \o back
<1>4. RemoveAt(s, i) = both
  BY DEF RemoveAt, front, back
<1>5. /\ both \in Seq(S)
      /\ Len(both) = Len(front) + Len(back)
      /\ \A j \in 1..(Len(front) + Len(back)) : both[j] =
             IF j <= Len(front) THEN front[j] ELSE back[j - Len(front)]
  BY <1>2, <1>3, ConcatProperties
<1>. HIDE DEF both
<1>6. Len(front) + Len(back) = Len(s) - 1
  BY <1>1, <1>2, <1>3
<1>7. ASSUME NEW j \in 1..(Len(s) - 1)
      PROVE  /\ j < i => both[j] = s[j]
             /\ j >= i => both[j] = s[j + 1]
  <2>1. CASE j < i
    BY <1>1, <1>2, <1>5, <1>6, <2>1
  <2>2. CASE j >= i
    <3>1. /\ j - Len(front) \in 1..(Len(s) - i) /\ i + (j - Len(front)) = j + 1
          /\ ~(j <= Len(front))
      BY <1>1, <1>2, <2>2
    <3>2. both[j] = back[j - Len(front)]
      BY <1>5, <1>6, <3>1
    <3>3. back[j - Len(front)] = s[i + (j - Len(front))]
      BY <1>3, <3>1
    <3>4. both[j] = s[j + 1]
      BY <3>1, <3>2, <3>3
    <3>. QED
      BY <1>1, <2>2, <3>4
  <2>. QED
    BY <1>1, <2>1, <2>2
<1>. QED
  BY <1>4, <1>5, <1>6, <1>7

\* Deleting one memory keeps the others, in their order.
LEMMA RemoveAtKeeps ==
    ASSUME NEW S, NEW s \in Seq(S), NEW i \in 1..Len(s), Ordered(s),
           \A m \in S : m.id \in Int
    PROVE  /\ Ordered(RemoveAt(s, i))
           /\ Ids(RemoveAt(s, i)) \subseteq Ids(s)
           /\ Ids(s) \ Ids(RemoveAt(s, i)) \subseteq {s[i].id}
           /\ s[i].id \notin Ids(RemoveAt(s, i))
<1> DEFINE t == RemoveAt(s, i)
<1>1. /\ Len(s) \in Nat /\ i \in 1..Len(s) /\ DOMAIN s = 1..Len(s)
      /\ t \in Seq(S) /\ Len(t) = Len(s) - 1 /\ DOMAIN t = 1..Len(t)
      /\ \A j \in 1..(Len(s) - 1) : /\ j < i => t[j] = s[j]
                                    /\ j >= i => t[j] = s[j + 1]
  BY RemoveAtProperties, LenProperties
<1>. HIDE DEF t
<1>2. \A j \in DOMAIN t : /\ j < i => t[j] = s[j] /\ j \in DOMAIN s
                          /\ j >= i => t[j] = s[j + 1] /\ j + 1 \in DOMAIN s
  BY <1>1
<1>3. Ordered(t)
  <2> SUFFICES ASSUME NEW j \in DOMAIN t, NEW k \in DOMAIN t, j < k PROVE t[j].id < t[k].id
    BY DEF Ordered
  <2>1. PICK j1 \in DOMAIN s, k1 \in DOMAIN s : t[j] = s[j1] /\ t[k] = s[k1] /\ j1 < k1
    BY <1>1, <1>2
  <2>. QED
    BY <2>1 DEF Ordered
<1>4. Ids(t) \subseteq Ids(s)
  BY <1>1, <1>2 DEF Ids
<1>5. ASSUME NEW j \in DOMAIN s, j # i PROVE s[j].id \in Ids(t)
  <2>1. CASE j < i
    BY <1>1, <1>2, <2>1 DEF Ids
  <2>2. CASE j > i
    <3>1. j - 1 \in DOMAIN t /\ t[j - 1] = s[j]
      BY <1>1, <1>2, <2>2
    <3>. QED
      BY <3>1 DEF Ids
  <2>. QED
    BY <1>1, <1>5, <2>1, <2>2
<1>6. ASSUME NEW j \in DOMAIN t PROVE t[j].id # s[i].id
  <2>0. \A n \in DOMAIN s : s[n].id \in Int
    BY ElementOfSeq, <1>1
  <2>1. PICK k \in DOMAIN s : t[j] = s[k] /\ k # i
    BY <1>1, <1>2
  <2>2. s[k].id < s[i].id \/ s[i].id < s[k].id
    <3>1. i \in DOMAIN s /\ (k < i \/ i < k)
      BY <1>1, <2>1
    <3>. QED
      BY <3>1 DEF Ordered
  <2>. QED
    BY <1>1, <2>0, <2>1, <2>2
<1>. QED
  BY <1>3, <1>4, <1>5, <1>6 DEF t, Ids

\* Eviction takes the oldest: what Newest leaves out is older than all it keeps.
LEMMA NewestProperties ==
    ASSUME NEW S, NEW s \in Seq(S), Ordered(s), \A m \in S : m.id \in Int
    PROVE  /\ Newest(s) \in Seq(S)
           /\ Len(Newest(s)) <= MaxItems
           /\ Ordered(Newest(s))
           /\ Ids(Newest(s)) \subseteq Ids(s)
           /\ \A id \in Ids(s) \ Ids(Newest(s)) : \A i \in DOMAIN Newest(s) : id < Newest(s)[i].id
<1>1. Len(s) \in Nat /\ DOMAIN s = 1..Len(s) /\ \A n \in 1..Len(s) : s[n] \in S
  BY LenProperties, ElementOfSeq
<1>2. CASE Len(s) <= MaxItems
  <2>1. Newest(s) = s
    BY <1>1, <1>2, MemoryAssumption DEF Newest
  <2>. QED
    BY <1>2, <2>1
<1>3. CASE Len(s) > MaxItems
  <2> DEFINE over == Len(s) - MaxItems
             t == SubSeq(s, over + 1, Len(s))
  <2>1. over \in Nat /\ over > 0 /\ over + MaxItems = Len(s)
    BY <1>1, <1>3, MemoryAssumption
  <2>2. Newest(s) = t
    BY <1>1, <1>3, MemoryAssumption DEF Newest
  <2>3. /\ t \in Seq(S) /\ Len(t) = MaxItems
        /\ \A j \in 1..MaxItems : t[j] = s[over + j]
    <3>1. \A n \in (over + 1)..Len(s) : s[n] \in S
      BY <1>1, <2>1
    <3>2. /\ t \in Seq(S)
          /\ Len(t) = IF over + 1 <= Len(s) THEN Len(s) - (over + 1) + 1 ELSE 0
          /\ \A j \in 1..(Len(s) - (over + 1) + 1) : t[j] = s[over + 1 + j - 1]
      BY <1>1, <2>1, <3>1, SubSeqProperties
    <3>. QED
      BY <1>1, <2>1, <3>2, MemoryAssumption
  <2>. HIDE DEF over, t
  <2>4. DOMAIN t = 1..MaxItems
    BY <2>3, LenProperties
  <2>5. \A j \in DOMAIN t : over + j \in DOMAIN s /\ t[j] = s[over + j]
    BY <1>1, <2>1, <2>3, <2>4, MemoryAssumption
  <2>6. Ordered(t)
    <3> SUFFICES ASSUME NEW i \in DOMAIN t, NEW j \in DOMAIN t, i < j PROVE t[i].id < t[j].id
      BY DEF Ordered
    <3>1. over + i < over + j
      BY <2>1, <2>4
    <3>. QED
      BY <2>5, <3>1 DEF Ordered
  <2>7. Ids(t) \subseteq Ids(s)
    BY <2>5 DEF Ids
  <2>8. ASSUME NEW n \in DOMAIN s, s[n].id \notin Ids(t), NEW i \in DOMAIN t
        PROVE  s[n].id < t[i].id
    <3>1. n <= over
      <4> SUFFICES ASSUME n > over PROVE FALSE
        BY <1>1, <2>1
      <4>1. n - over \in DOMAIN t /\ over + (n - over) = n
        BY <1>1, <2>1, <2>4, MemoryAssumption
      <4>2. t[n - over] = s[n]
        BY <2>5, <4>1
      <4>. QED
        BY <2>8, <4>1, <4>2 DEF Ids
    <3>2. n < over + i
      BY <1>1, <2>1, <2>4, <3>1
    <3>. QED
      BY <2>5, <3>2 DEF Ordered
  <2>9. \A id \in Ids(s) \ Ids(t) : \A i \in DOMAIN t : id < t[i].id
    BY <2>8 DEF Ids
  <2>. QED
    BY <2>2, <2>3, <2>6, <2>7, <2>9, MemoryAssumption
<1>. QED
  BY <1>1, <1>2, <1>3, MemoryAssumption

LEMMA AppendOrdered ==
    ASSUME NEW S, NEW s \in Seq(S), NEW m \in S, Ordered(s),
           \A i \in DOMAIN s : s[i].id < m.id
    PROVE  /\ Append(s, m) \in Seq(S)
           /\ Ordered(Append(s, m))
           /\ Ids(Append(s, m)) = Ids(s) \cup {m.id}
<1> DEFINE t == Append(s, m)
<1>1. /\ t \in Seq(S) /\ Len(t) = Len(s) + 1 /\ Len(s) \in Nat
      /\ DOMAIN s = 1..Len(s) /\ DOMAIN t = 1..(Len(s) + 1)
      /\ \A i \in 1..Len(s) : t[i] = s[i]
      /\ t[Len(s) + 1] = m
  BY AppendProperties, LenProperties
<1>. HIDE DEF t
<1>2. Ordered(t)
  <2> SUFFICES ASSUME NEW i \in DOMAIN t, NEW j \in DOMAIN t, i < j PROVE t[i].id < t[j].id
    BY DEF Ordered
  <2>1. i \in DOMAIN s /\ t[i] = s[i]
    BY <1>1
  <2>2. CASE j \in DOMAIN s
    BY <1>1, <2>1, <2>2 DEF Ordered
  <2>3. CASE j = Len(s) + 1
    BY <1>1, <2>1, <2>3
  <2>. QED
    BY <1>1, <2>2, <2>3
<1>3. Ids(t) = Ids(s) \cup {m.id}
  <2>1. Ids(t) \subseteq Ids(s) \cup {m.id}
    BY <1>1 DEF Ids
  <2>2. Ids(s) \subseteq Ids(t)
    BY <1>1 DEF Ids
  <2>3. m.id \in Ids(t)
    BY <1>1 DEF Ids
  <2>. QED
    BY <2>1, <2>2, <2>3
<1>. QED
  BY <1>1, <1>2, <1>3 DEF t

\* The filters of clear_memories keep order and length.
LEMMA FilteredProperties ==
    ASSUME NEW S, NEW s \in Seq(S), Ordered(s),
           NEW left \in SUBSET DOMAIN s, NEW t \in Filtered(s, left)
    PROVE  /\ t \in Seq(S)
           /\ Len(t) <= Len(s)
           /\ Ordered(t)
           /\ Ids(t) \subseteq Ids(s)
<1> DEFINE n == Cardinality(left)
<1>1. Len(s) \in Nat /\ DOMAIN s = 1..Len(s) /\ \A i \in DOMAIN s : s[i] \in S
  BY LenProperties, ElementOfSeq
<1>2. n \in Nat /\ n <= Len(s)
  <2>1. IsFiniteSet(1..Len(s)) /\ Cardinality(1..Len(s)) = Len(s)
    <3>1. 1 \in Int /\ Len(s) \in Int
      BY <1>1
    <3>2. /\ IsFiniteSet(1..Len(s))
          /\ Cardinality(1..Len(s)) = IF 1 > Len(s) THEN 0 ELSE Len(s) - 1 + 1
      BY <3>1, FS_Interval
    <3>. QED
      BY <1>1, <3>2
  <2>. QED
    BY <1>1, <2>1, FS_Subset, FS_CardinalityType
<1>3. PICK from \in [1..n -> left] :
          /\ \A i, j \in 1..n : i < j => from[i] < from[j]
          /\ t = [i \in 1..n |-> s[from[i]]]
  BY DEF Filtered
<1>. HIDE DEF n
<1>4. DOMAIN t = 1..n /\ \A i \in 1..n : t[i] = s[from[i]] /\ from[i] \in DOMAIN s
  BY <1>3
<1>5. t \in Seq(S) /\ Len(t) = n
  BY <1>1, <1>2, <1>3, <1>4
<1>6. Ordered(t)
  BY <1>3, <1>4 DEF Ordered
<1>7. Ids(t) \subseteq Ids(s)
  BY <1>4 DEF Ids
<1>. QED
  BY <1>2, <1>5, <1>6, <1>7

------------------------------------------------------------------------------
(***************************************************************************)
(* Memories                                                                *)
(***************************************************************************)

\* KeepsNewestOf with the ids that are gone as a parameter.
NewestOf(s, mine, lostOnPurpose) ==
    /\ Len(s) <= MaxItems
    /\ Ids(s) \subseteq mine
    /\ Ordered(s)
    /\ \A lost \in mine \ (Ids(s) \cup lostOnPurpose) : \A i \in DOMAIN s : lost < s[i].id

MemoryInv ==
    /\ issued \in 0..MaxIssued
    /\ toolIds \subseteq 1..issued /\ gone \subseteq 1..issued
    /\ memories \in Seq(KeptTool) /\ texts \in Seq(Kept)
    /\ NewestOf(memories, toolIds, gone)
    /\ NewestOf(texts, (1..issued) \ toolIds, gone)

LEMMA KeepsNewestIsNewestOf ==
    KeepsNewest <=> /\ NewestOf(memories, toolIds, gone)
                    /\ NewestOf(texts, (1..issued) \ toolIds, gone)
  BY DEF KeepsNewest, KeepsNewestOf, NewestOf, Ordered

LEMMA IdsAreNumbers ==
    /\ \A m \in KeptTool : m.id \in 1..MaxIssued
    /\ \A m \in Kept : m.id \in 1..MaxIssued
  BY DEF KeptTool, Kept

\* A list that grows by the newest memory.
LEMMA NewestGrows ==
    ASSUME NEW S, \A m \in S : m.id \in Int,
           NEW s \in Seq(S), NEW n \in Nat, NEW mine \in SUBSET (1..n), NEW away,
           NewestOf(s, mine, away),
           NEW m \in S, m.id = n + 1
    PROVE  /\ Newest(Append(s, m)) \in Seq(S)
           /\ NewestOf(Newest(Append(s, m)), mine \cup {n + 1}, away)
<1> DEFINE u == Append(s, m)
           t == Newest(u)
<1>1. /\ DOMAIN s = 1..Len(s) /\ \A i \in DOMAIN s : s[i] \in S /\ s[i].id \in 1..n
  <2>1. DOMAIN s = 1..Len(s) /\ \A i \in 1..Len(s) : s[i] \in S
    BY LenProperties, ElementOfSeq
  <2>. QED
    BY <2>1 DEF NewestOf, Ids
<1>2. u \in Seq(S) /\ Ordered(u) /\ Ids(u) = Ids(s) \cup {n + 1}
  <2>1. \A i \in DOMAIN s : s[i].id < m.id
    BY <1>1
  <2>. QED
    BY <2>1, AppendOrdered DEF NewestOf
<1>. HIDE DEF u
<1>3. /\ t \in Seq(S) /\ Len(t) <= MaxItems /\ Ordered(t) /\ Ids(t) \subseteq Ids(u)
      /\ \A id \in Ids(u) \ Ids(t) : \A i \in DOMAIN t : id < t[i].id
  BY <1>2, NewestProperties
<1>. HIDE DEF t
<1>4. ASSUME NEW lost \in (mine \cup {n + 1}) \ (Ids(t) \cup away), NEW i \in DOMAIN t
      PROVE  lost < t[i].id
  <2>1. CASE lost \in Ids(u)
    BY <1>3, <1>4, <2>1
  <2>2. CASE lost \notin Ids(u)
    <3>1. lost \in mine \ (Ids(s) \cup away)
      BY <1>2, <1>4, <2>2
    <3>2. \A j \in DOMAIN s : lost < s[j].id
      BY <3>1 DEF NewestOf
    <3>3. t[i].id \in Ids(s) \cup {n + 1}
      BY <1>2, <1>3 DEF Ids
    <3>. QED
      BY <3>1, <3>2, <3>3 DEF Ids
  <2>. QED
    BY <2>1, <2>2
<1>. QED
  BY <1>2, <1>3, <1>4 DEF NewestOf, t, u

\* A list that loses memories, all of which are gone on purpose.
LEMMA NewestShrinks ==
    ASSUME NEW S, NEW s \in Seq(S), NEW t \in Seq(S), NEW mine, NEW away, NEW more,
           NewestOf(s, mine, away),
           Len(t) <= Len(s), Ordered(t), Ids(t) \subseteq Ids(s),
           away \subseteq more, Ids(s) \ Ids(t) \subseteq more
    PROVE  NewestOf(t, mine, more)
<1>1. Len(t) <= MaxItems
  BY LenProperties, MemoryAssumption DEF NewestOf
<1>2. ASSUME NEW lost \in mine \ (Ids(t) \cup more), NEW i \in DOMAIN t
      PROVE  lost < t[i].id
  <2>1. lost \in mine \ (Ids(s) \cup away)
    BY <1>2
  <2>2. PICK j \in DOMAIN s : s[j].id = t[i].id
    BY DEF Ids
  <2>. QED
    BY <2>1, <2>2 DEF NewestOf
<1>. QED
  BY <1>1, <1>2 DEF NewestOf

LEMMA NewestUnchanged ==
    ASSUME NEW s, NEW mine, NEW away, NEW more, NewestOf(s, mine, away), away \subseteq more
    PROVE  NewestOf(s, mine, more)
  BY DEF NewestOf

LEMMA MemoryInvInit == Init => MemoryInv
<1> SUFFICES ASSUME Init PROVE MemoryInv
  OBVIOUS
<1>1. memories = <<>> /\ texts = <<>> /\ issued = 0 /\ toolIds = {} /\ gone = {}
  BY DEF Init, MemoryInit
<1>2. memories \in Seq(KeptTool) /\ texts \in Seq(Kept) /\ Len(<<>>) = 0 /\ DOMAIN <<>> = {}
  BY <1>1, EmptySeq
<1>3. NewestOf(<<>>, {}, {})
  BY <1>2, MemoryAssumption DEF NewestOf, Ordered, Ids
<1>. QED
  BY <1>1, <1>2, <1>3, ToolUseAssumption DEF MemoryInv

LEMMA SaveToolKeeps ==
    ASSUME MemoryInv, NEW question \in Questions, SaveToolUsage(question, "run_sql"),
           issued < MaxIssued
    PROVE  MemoryInv'
<1> DEFINE m == [id |-> issued + 1, about |-> question, tool |-> "run_sql"]
<1>1. issued \in Nat /\ issued + 1 \in 1..MaxIssued
  BY ToolUseAssumption DEF MemoryInv
<1>2. m \in KeptTool /\ m.id = issued + 1
  BY <1>1 DEF KeptTool
<1>. HIDE DEF m
<1>3. /\ Newest(Append(memories, m)) \in Seq(KeptTool)
      /\ NewestOf(Newest(Append(memories, m)), toolIds \cup {issued + 1}, gone)
  <2>1. \A k \in KeptTool : k.id \in Int
    BY IdsAreNumbers
  <2>. QED
    BY <1>1, <1>2, <2>1, NewestGrows DEF MemoryInv
<1>4. /\ memories' = Newest(Append(memories, m))
      /\ issued' = issued + 1 /\ toolIds' = toolIds \cup {issued + 1}
      /\ UNCHANGED <<texts, gone>>
  BY DEF SaveToolUsage, m
<1>5. (1..issued') \ toolIds' = (1..issued) \ toolIds
  BY <1>1, <1>4
<1>6. toolIds' \subseteq 1..issued' /\ gone' \subseteq 1..issued' /\ issued' \in 0..MaxIssued
  BY <1>1, <1>4 DEF MemoryInv
<1>. QED
  BY <1>3, <1>4, <1>5, <1>6 DEF MemoryInv

LEMMA SaveTextKeeps ==
    ASSUME MemoryInv, NEW question \in Questions, SaveTextMemory(question), issued < MaxIssued
    PROVE  MemoryInv'
<1> DEFINE m == [id |-> issued + 1, about |-> question]
           mine == (1..issued) \ toolIds
<1>1. issued \in Nat /\ issued + 1 \in 1..MaxIssued
  BY ToolUseAssumption DEF MemoryInv
<1>2. m \in Kept /\ m.id = issued + 1
  BY <1>1 DEF Kept
<1>. HIDE DEF m
<1>3. /\ Newest(Append(texts, m)) \in Seq(Kept)
      /\ NewestOf(Newest(Append(texts, m)), mine \cup {issued + 1}, gone)
  <2>1. \A k \in Kept : k.id \in Int
    BY IdsAreNumbers
  <2>. QED
    BY <1>1, <1>2, <2>1, NewestGrows DEF MemoryInv
<1>4. /\ texts' = Newest(Append(texts, m))
      /\ issued' = issued + 1
      /\ UNCHANGED <<memories, toolIds, gone>>
  BY DEF SaveTextMemory, m
<1>5. (1..issued') \ toolIds' = mine \cup {issued + 1}
  BY <1>1, <1>4 DEF MemoryInv
<1>6. toolIds' \subseteq 1..issued' /\ gone' \subseteq 1..issued' /\ issued' \in 0..MaxIssued
  BY <1>1, <1>4 DEF MemoryInv
<1>. HIDE DEF mine
<1>. QED
  BY <1>3, <1>4, <1>5, <1>6 DEF MemoryInv

LEMMA DeleteByIdKeeps ==
    ASSUME MemoryInv, NEW id \in 1..issued, DeleteById(id)
    PROVE  MemoryInv'
<1>1. PICK i \in DOMAIN memories :
          /\ memories[i].id = id
          /\ memories' = RemoveAt(memories, i)
          /\ gone' = gone \cup {id}
          /\ UNCHANGED <<texts, issued, toolIds>>
  BY DEF DeleteById
<1>2. i \in 1..Len(memories) /\ Len(memories) \in Nat
  BY LenProperties DEF MemoryInv
<1>3. /\ memories' \in Seq(KeptTool) /\ Len(memories') = Len(memories) - 1
      /\ Ordered(memories') /\ Ids(memories') \subseteq Ids(memories)
      /\ Ids(memories) \ Ids(memories') \subseteq {id}
  <2>1. \A m \in KeptTool : m.id \in Int
    BY IdsAreNumbers
  <2>. QED
    BY <1>1, <1>2, <2>1, RemoveAtProperties, RemoveAtKeeps DEF MemoryInv, NewestOf
<1>4. NewestOf(memories', toolIds, gone')
  BY <1>1, <1>2, <1>3, NewestShrinks DEF MemoryInv
<1>5. NewestOf(texts, (1..issued) \ toolIds, gone')
  BY <1>1, NewestUnchanged DEF MemoryInv
<1>. QED
  BY <1>1, <1>3, <1>4, <1>5 DEF MemoryInv

LEMMA DeleteTextKeeps ==
    ASSUME MemoryInv, NEW id \in 1..issued, DeleteTextMemory(id)
    PROVE  MemoryInv'
<1>1. PICK i \in DOMAIN texts :
          /\ texts[i].id = id
          /\ texts' = RemoveAt(texts, i)
          /\ gone' = gone \cup {id}
          /\ UNCHANGED <<memories, issued, toolIds>>
  BY DEF DeleteTextMemory
<1>2. i \in 1..Len(texts) /\ Len(texts) \in Nat
  BY LenProperties DEF MemoryInv
<1>3. /\ texts' \in Seq(Kept) /\ Len(texts') = Len(texts) - 1
      /\ Ordered(texts') /\ Ids(texts') \subseteq Ids(texts)
      /\ Ids(texts) \ Ids(texts') \subseteq {id}
  <2>1. \A m \in Kept : m.id \in Int
    BY IdsAreNumbers
  <2>. QED
    BY <1>1, <1>2, <2>1, RemoveAtProperties, RemoveAtKeeps DEF MemoryInv, NewestOf
<1>4. NewestOf(texts', (1..issued) \ toolIds, gone')
  BY <1>1, <1>2, <1>3, NewestShrinks DEF MemoryInv
<1>5. NewestOf(memories, toolIds, gone')
  BY <1>1, NewestUnchanged DEF MemoryInv
<1>. QED
  BY <1>1, <1>3, <1>4, <1>5 DEF MemoryInv

LEMMA ClearKeeps ==
    ASSUME MemoryInv, NEW tool, NEW before, ClearMemories(tool, before)
    PROVE  MemoryInv'
<1>1. PICK left \in SUBSET DOMAIN memories : memories' \in Filtered(memories, left)
  BY DEF ClearMemories
<1>2. PICK leftText \in SUBSET DOMAIN texts : texts' \in Filtered(texts, leftText)
  BY DEF ClearMemories
<1>3. /\ gone' = gone \cup (Ids(memories) \ Ids(memories')) \cup (Ids(texts) \ Ids(texts'))
      /\ UNCHANGED <<issued, toolIds>>
  BY DEF ClearMemories
<1>4. /\ memories' \in Seq(KeptTool) /\ Len(memories') <= Len(memories)
      /\ Ordered(memories') /\ Ids(memories') \subseteq Ids(memories)
  BY <1>1, FilteredProperties DEF MemoryInv, NewestOf
<1>5. /\ texts' \in Seq(Kept) /\ Len(texts') <= Len(texts)
      /\ Ordered(texts') /\ Ids(texts') \subseteq Ids(texts)
  BY <1>2, FilteredProperties DEF MemoryInv, NewestOf
<1>6. NewestOf(memories', toolIds, gone')
  BY <1>3, <1>4, NewestShrinks DEF MemoryInv
<1>7. NewestOf(texts', (1..issued) \ toolIds, gone')
  BY <1>3, <1>5, NewestShrinks DEF MemoryInv
<1>8. gone' \subseteq 1..issued
  BY <1>3 DEF MemoryInv, NewestOf
<1>. QED
  BY <1>3, <1>4, <1>5, <1>6, <1>7, <1>8 DEF MemoryInv

------------------------------------------------------------------------------
(***************************************************************************)
(* Calls                                                                   *)
(***************************************************************************)

Untouched(k) == k.saved = {} /\ ~k.found /\ k.returned = "none"

\* What a call's trail and result are at each stage.  Nothing is returned, saved
\* or found before the tool runs, and by then the trail holds what has to precede it.
StageInv(k) ==
    /\ k.stage = "asked"    => k.trail = <<>> /\ Untouched(k) /\ k.result = "none"
    /\ k.stage = "denying"  => k.trail = <<>> /\ Untouched(k) /\ k.result = "denied"
    /\ k.stage = "granting" => /\ k.trail = <<>> /\ Untouched(k) /\ k.result = "none"
                               /\ "access" \in Audited
    /\ k.stage = "invoking" => /\ k.trail = Granted /\ Untouched(k) /\ k.result = "none"
                               /\ "invocation" \in Audited
    /\ k.stage = "running"  => k.trail = Granted \o Invoked /\ Untouched(k) /\ k.result = "none"
    /\ k.stage = "logging"  => /\ k.trail = Granted \o Invoked /\ "result" \in Audited
                               /\ k.result \in {"ok", "failed"}
                               /\ k.returned = k.result
                               /\ k.saved # {} \/ k.found => k.result = "ok"
    /\ k.stage # "done"     => ~k.loggerRaised
    /\ k.stage = "done"     => TellsEffects(k)

\* A tool that was offered is neither absent nor denied.
OfferInv(k) ==
    /\ k.stage = "asked" => k.schemas \subseteq GetSchemas(k.user)
    /\ k.stage # "asked" /\ k.offered => k.result \notin {"absent", "denied"}

CallInv(k) == k \in CallRecords /\ StageInv(k) /\ OfferInv(k)
CallsInv == \A c \in Calls : call[c] = NoCall \/ CallInv(call[c])

LEMMA TrailFacts ==
    /\ Granted \in Seq({"granted", "invoked"}) /\ Invoked \in Seq({"granted", "invoked"})
    /\ Granted \o Invoked \in Seq({"granted", "invoked"})
    /\ Granted \o Invoked \in Seq(Events)
    /\ "access" \in Audited => Granted = Append(<<>>, "granted")
    /\ "access" \notin Audited => Granted = <<>>
    /\ "invocation" \in Audited => Granted \o Invoked = Append(Granted, "invoked")
    /\ "invocation" \notin Audited => Granted \o Invoked = Granted
<1> DEFINE E == {"granted", "invoked"}
<1>1. <<>> \in Seq(E) /\ <<"granted">> \in Seq(E) /\ <<"invoked">> \in Seq(E)
  BY EmptySeq
<1>2. Granted \in Seq(E) /\ Invoked \in Seq(E)
  BY <1>1 DEF Granted, Invoked
<1>3. Granted \o Invoked \in Seq(E)
  BY <1>2, ConcatProperties
<1>4. Granted \o Invoked \in Seq(Events)
  BY <1>3, SeqMonotonic DEF Events
<1>5. <<"granted">> = Append(<<>>, "granted")
  BY <1>1
<1>6. Append(Granted, "invoked") = Granted \o <<"invoked">>
  BY <1>2, AppendIsConcat
<1>7. Granted \o <<>> = Granted
  BY <1>2, ConcatEmptySeq
<1>. QED
  BY <1>2, <1>3, <1>4, <1>5, <1>6, <1>7 DEF Granted, Invoked

\* What is recorded on a trail that holds no result yet, and after one event more.
LEMMA OneEventMore ==
    ASSUME NEW s \in Seq({"granted", "invoked"}), NEW e \in Events
    PROVE  /\ Append(s, e) \in Seq(Events) /\ s \in Seq(Events)
           /\ IsPrefix(s, s) /\ IsPrefix(s, Append(s, e))
           /\ Len(Append(s, e)) = Len(s) + 1
           /\ \A i \in DOMAIN s : s[i] \in {"granted", "invoked"}
           /\ \A i \in DOMAIN Append(s, e) : Append(s, e)[i] \in {"granted", "invoked", e}
           /\ \E i \in DOMAIN Append(s, e) : Append(s, e)[i] = e
<1> DEFINE t == Append(s, e)
<1>1. s \in Seq(Events) /\ Len(s) \in Nat /\ DOMAIN s = 1..Len(s)
  BY SeqMonotonic, LenProperties DEF Events
<1>2. /\ t \in Seq(Events) /\ Len(t) = Len(s) + 1 /\ DOMAIN t = 1..(Len(s) + 1)
      /\ \A i \in 1..Len(s) : t[i] = s[i]
      /\ t[Len(s) + 1] = e
  BY <1>1, AppendProperties, LenProperties
<1>3. \A i \in DOMAIN s : s[i] \in {"granted", "invoked"}
  BY <1>1, ElementOfSeq
<1>. HIDE DEF t
<1>4. \A i \in DOMAIN t : t[i] \in {"granted", "invoked", e}
  BY <1>1, <1>2, <1>3
<1>5. \E i \in DOMAIN t : t[i] = e
  BY <1>1, <1>2
<1>6. SubSeq(s, 1, Len(s)) = s
  BY SubSeqFull
<1>7. SubSeq(t, 1, Len(s)) = s
  <2>1. \A i \in 1..Len(s) : t[i] \in Events
    BY <1>1, <1>2, ElementOfSeq
  <2>2. /\ SubSeq(t, 1, Len(s)) \in Seq(Events)
        /\ Len(SubSeq(t, 1, Len(s))) = IF 1 <= Len(s) THEN Len(s) - 1 + 1 ELSE 0
        /\ \A i \in 1..(Len(s) - 1 + 1) : SubSeq(t, 1, Len(s))[i] = t[1 + i - 1]
    BY <1>1, <2>1, SubSeqProperties
  <2>3. Len(SubSeq(t, 1, Len(s))) = Len(s)
    BY <1>1, <2>2
  <2>4. \A i \in 1..Len(s) : SubSeq(t, 1, Len(s))[i] = s[i]
    BY <1>1, <1>2, <2>2
  <2>. QED
    BY <1>1, <2>2, <2>3, <2>4, SeqEqual
<1>8. IsPrefix(s, s) /\ IsPrefix(s, t)
  BY <1>1, <1>2, <1>6, <1>7 DEF IsPrefix
<1>. QED
  BY <1>1, <1>2, <1>3, <1>4, <1>5, <1>8 DEF t

\* At every stage the trail tells what was done.
LEMMA StageTells ==
    ASSUME NEW k \in CallRecords, StageInv(k)
    PROVE  TellsEffects(k)
<1>1. k.stage \in Stages
  BY DEF CallRecords
<1>2. CASE k.stage \in {"asked", "denying", "granting"}
  <2>1. k.trail = <<>> /\ Untouched(k) /\ k.result \in {"none", "denied"}
    BY <1>2 DEF StageInv
  <2>2. \A event : ~Recorded(k, event)
    BY <2>1 DEF Recorded
  <2>. QED
    BY <1>2, <2>1, <2>2 DEF TellsEffects, Untouched
<1>3. CASE k.stage \in {"invoking", "running", "logging"}
  <2>1. k.trail \in {Granted, Granted \o Invoked}
    BY <1>3 DEF StageInv
  <2>2. k.trail \in Seq({"granted", "invoked"})
    BY <2>1, TrailFacts
  <2>3. ~Recorded(k, "denied") /\ ~Recorded(k, "failed") /\ ~Recorded(k, "succeeded")
    BY <2>2, OneEventMore DEF Recorded, Events
  <2>4. k.stage # "logging" => Untouched(k) /\ k.result = "none"
    BY <1>3 DEF StageInv
  <2>5. k.stage = "logging" => /\ k.result \in {"ok", "failed"} /\ k.returned = k.result
                               /\ k.saved # {} \/ k.found => k.result = "ok"
    BY DEF StageInv
  <2>6. k.stage = "logging" => IsPrefix(Granted \o Invoked, k.trail)
    <3>1. k.stage = "logging" => k.trail = Granted \o Invoked
      BY DEF StageInv
    <3>2. "granted" \in Events
      BY DEF Events
    <3>3. \A t \in Seq({"granted", "invoked"}) : IsPrefix(t, t)
      BY <3>2, OneEventMore
    <3>. QED
      BY <3>1, <3>3, TrailFacts
  <2>. QED
    BY <1>3, <2>3, <2>4, <2>5, <2>6 DEF TellsEffects, Untouched
<1>4. CASE k.stage = "done"
  BY <1>4 DEF StageInv
<1>. QED
  BY <1>1, <1>2, <1>3, <1>4 DEF Stages

Typed == call \in [Calls -> CallRecords \cup {NoCall}]

\* One call changes, the others and the registry do not.
LEMMA OneCall ==
    ASSUME Typed, CallsInv, NEW c \in Calls, NEW k, CallInv(k),
           call' = [call EXCEPT ![c] = k], registry' = registry
    PROVE  Typed' /\ CallsInv'
<1>1. \A d \in Calls : call'[d] = IF d = c THEN k ELSE call[d]
  BY DEF Typed
<1>2. Typed'
  BY DEF Typed, CallInv
<1>3. ASSUME NEW d \in Calls PROVE (call[d] = NoCall \/ CallInv(call[d]))'
  <2>1. call'[d] = NoCall \/ CallInv(call'[d])
    BY <1>1 DEF CallsInv
  <2>. QED
    BY <2>1 DEF CallInv, OfferInv, GetSchemas, Permitted
<1>. QED
  BY <1>2, <1>3 DEF CallsInv

LEMMA CallAt ==
    ASSUME CallsInv, NEW c \in Calls, NEW st, At(c, st)
    PROVE  CallInv(call[c]) /\ call[c].stage = st
  BY DEF CallsInv, At

LEMMA AskKeeps ==
    ASSUME Typed, CallsInv, DOMAIN registry \subseteq Tools,
           NEW c \in Calls, NEW u \in Users, NEW about \in Questions, Ask(c, u, about)
    PROVE  Typed' /\ CallsInv'
<1> DEFINE k == [stage |-> "asked", user |-> u, schemas |-> GetSchemas(u), tool |-> NoTool,
                 offered |-> FALSE, about |-> about, trail |-> <<>>, saved |-> {},
                 found |-> FALSE, result |-> "none", returned |-> "none",
                 loggerRaised |-> FALSE]
<1>1. k \in CallRecords
  <2>1. GetSchemas(u) \in SUBSET Tools /\ <<>> \in Seq(Events)
    BY EmptySeq DEF GetSchemas
  <2>. QED
    BY <2>1 DEF CallRecords, Stages, Results
<1>2. StageInv(k) /\ OfferInv(k)
  BY DEF StageInv, OfferInv, Untouched
<1>3. call' = [call EXCEPT ![c] = k] /\ registry' = registry
  BY DEF Ask
<1>. HIDE DEF k
<1>. QED
  BY <1>1, <1>2, <1>3, OneCall DEF CallInv

LEMMA ExecuteKeeps ==
    ASSUME Typed, CallsInv, NEW c \in Calls, NEW t \in Tools, NEW valid \in BOOLEAN,
           Execute(c, t, valid)
    PROVE  Typed' /\ CallsInv'
<1> DEFINE k == call[c]
           was == t \in k.schemas
           new(st, result) == [k EXCEPT !.tool = t, !.offered = was, !.schemas = {},
                                        !.stage = Skipped(st), !.result = result]
<1>1. CallInv(k) /\ k.stage = "asked"
  BY CallAt DEF Execute
<1>2. k \in CallRecords /\ k.trail = <<>> /\ Untouched(k) /\ ~k.loggerRaised
  BY <1>1 DEF CallInv, StageInv
<1>3. PICK st \in {"done", "denying", "granting"}, result \in {"absent", "denied", "invalid", "none"} :
          /\ call' = [call EXCEPT ![c] = new(st, result)] /\ registry' = registry
          /\ \/ st = "done" /\ result \in {"absent", "invalid"}
             \/ st = "denying" /\ result = "denied"
             \/ st = "granting" /\ result = "none"
          /\ result = "absent" => t \notin DOMAIN registry
          /\ result = "denied" => t \in DOMAIN registry /\ ~Permitted(k.user, t)
  BY DEF Execute
<1> DEFINE m == new(st, result)
<1>4. Skipped(st) \in Stages /\ Skipped(st) # "asked"
  BY DEF Skipped, Stages
<1>5. m \in CallRecords
  <2>1. was \in BOOLEAN /\ t \in Tools /\ {} \in SUBSET Tools
    OBVIOUS
  <2>. HIDE DEF k, was
  <2>. QED
    BY <1>2, <1>4, <2>1 DEF CallRecords, Results
<1>. HIDE DEF k
<1>6. /\ m.stage = Skipped(st) /\ m.result = result /\ m.trail = <<>> /\ Untouched(m)
      /\ m.offered = was /\ ~m.loggerRaised
  BY <1>2 DEF CallRecords, Untouched
<1>. HIDE DEF m
<1>7. OfferInv(m)
  <2>1. k.schemas \subseteq GetSchemas(k.user)
    BY <1>1 DEF CallInv, OfferInv
  <2>2. m.offered => result \notin {"absent", "denied"}
    BY <1>3, <1>6, <2>1 DEF GetSchemas
  <2>. QED
    BY <1>4, <1>6, <2>2 DEF OfferInv
<1>8. StageInv(m)
  <2>1. \A event : ~Recorded(m, event)
    BY <1>6 DEF Recorded
  <2>2. TellsEffects(m) \/ result = "none"
    BY <1>3, <1>6, <2>1 DEF TellsEffects, Untouched
  <2>3. CASE st = "done"
    BY <1>3, <1>6, <2>2, <2>3 DEF StageInv, Skipped
  <2>4. CASE st = "denying"
    BY <1>3, <1>6, <2>2, <2>4 DEF StageInv, Skipped
  <2>5. CASE st = "granting"
    BY <1>3, <1>6, <2>5, TrailFacts DEF StageInv, Skipped
  <2>. QED
    BY <1>3, <2>3, <2>4, <2>5
<1>. QED
  BY <1>3, <1>5, <1>7, <1>8, OneCall DEF CallInv, m

LogStages == {"denying", "granting", "invoking", "logging"}

\* A call that is about to write an event.
LEMMA BeforeEvent ==
    ASSUME NEW k, CallInv(k), k.stage \in LogStages
    PROVE  /\ k \in CallRecords /\ k.trail \in Seq({"granted", "invoked"})
           /\ EventOf(k) \in Events /\ NextStage(k.stage) \in Stages
           /\ NextStage(k.stage) # "asked"
           /\ Append(k.trail, EventOf(k)) \in Seq(Events)
           /\ IsPrefix(k.trail, Append(k.trail, EventOf(k)))
           /\ Len(Append(k.trail, EventOf(k))) = Len(k.trail) + 1
           /\ \A event : (\E i \in DOMAIN Append(k.trail, EventOf(k)) :
                             Append(k.trail, EventOf(k))[i] = event)
                  => event \in {"granted", "invoked", EventOf(k)}
           /\ \E i \in DOMAIN Append(k.trail, EventOf(k)) :
                  Append(k.trail, EventOf(k))[i] = EventOf(k)
<1>1. k \in CallRecords /\ StageInv(k)
  BY DEF CallInv
<1>2. k.trail \in {<<>>, Granted, Granted \o Invoked}
  BY <1>1 DEF StageInv, LogStages
<1>3. k.trail \in Seq({"granted", "invoked"})
  BY <1>2, TrailFacts, EmptySeq
<1>4. EventOf(k) \in Events
  BY DEF EventOf, Events
<1>5. NextStage(k.stage) \in Stages /\ NextStage(k.stage) # "asked"
  BY DEF NextStage, Skipped, Stages, LogStages
<1>. QED
  BY <1>1, <1>3, <1>4, <1>5, OneEventMore

LEMMA LogsKeeps ==
    ASSUME Typed, CallsInv, NEW c \in Calls, Logs(c)
    PROVE  Typed' /\ CallsInv'
<1> DEFINE k == call[c]
           more == Append(k.trail, EventOf(k))
           m == [k EXCEPT !.trail = more, !.stage = NextStage(k.stage)]
<1>1. CallInv(k) /\ k.stage \in LogStages
  BY CallAt DEF Logs, LogStages
<1>2. call' = [call EXCEPT ![c] = m] /\ registry' = registry
  BY DEF Logs, Logged
<1>. HIDE DEF k
<1>3. /\ k \in CallRecords /\ StageInv(k) /\ OfferInv(k)
      /\ EventOf(k) \in Events /\ more \in Seq(Events)
      /\ NextStage(k.stage) \in Stages /\ NextStage(k.stage) # "asked"
      /\ IsPrefix(k.trail, more) /\ Len(more) = Len(k.trail) + 1
      /\ \A event : (\E i \in DOMAIN more : more[i] = event)
                        => event \in {"granted", "invoked", EventOf(k)}
      /\ \E i \in DOMAIN more : more[i] = EventOf(k)
  BY <1>1, BeforeEvent DEF CallInv
<1>. HIDE DEF more
<1>4. m \in CallRecords
  BY <1>3 DEF CallRecords
<1>5. /\ m.trail = more /\ m.stage = NextStage(k.stage) /\ m.saved = k.saved /\ m.found = k.found
      /\ m.result = k.result /\ m.offered = k.offered /\ m.returned = k.returned
      /\ m.loggerRaised = k.loggerRaised /\ ~k.loggerRaised
  BY <1>1, <1>3 DEF CallRecords, StageInv, LogStages
<1>. HIDE DEF m
<1>6. /\ Recorded(m, EventOf(k))
      /\ \A event : Recorded(m, event) => event \in {"granted", "invoked", EventOf(k)}
  BY <1>3, <1>5 DEF Recorded
<1>7. OfferInv(m)
  BY <1>1, <1>3, <1>5 DEF OfferInv, LogStages
<1>8. StageInv(m)
  <2>1. CASE k.stage = "denying"
    <3>1. /\ m.stage = "done" /\ EventOf(k) = "denied" /\ Untouched(m) /\ m.result = "denied"
          /\ k.trail = <<>>
      BY <1>3, <1>5, <2>1 DEF StageInv, NextStage, EventOf, Untouched
    <3>2. Len(m.trail) = 1 /\ ~Recorded(m, "failed") /\ ~Recorded(m, "succeeded")
      BY <1>3, <1>5, <1>6, <3>1, EmptySeq
    <3>. QED
      BY <3>1, <3>2 DEF StageInv, TellsEffects, Untouched
  <2>2. CASE k.stage = "granting"
    <3>1. /\ m.stage = Skipped("invoking") /\ EventOf(k) = "granted" /\ Untouched(m)
          /\ m.result = "none" /\ k.trail = <<>> /\ "access" \in Audited
      BY <1>3, <1>5, <2>2 DEF StageInv, NextStage, EventOf, Untouched
    <3>2. m.trail = Granted
      BY <1>5, <3>1, TrailFacts DEF more
    <3>. QED
      BY <1>5, <3>1, <3>2, TrailFacts DEF StageInv, Skipped
  <2>3. CASE k.stage = "invoking"
    <3>1. /\ m.stage = "running" /\ EventOf(k) = "invoked" /\ Untouched(m)
          /\ m.result = "none" /\ k.trail = Granted /\ "invocation" \in Audited
      BY <1>3, <1>5, <2>3 DEF StageInv, NextStage, EventOf, Untouched
    <3>2. m.trail = Granted \o Invoked
      BY <1>5, <3>1, TrailFacts DEF more
    <3>. QED
      BY <1>5, <3>1, <3>2 DEF StageInv
  <2>4. CASE k.stage = "logging"
    <3>1. /\ m.stage = "done" /\ k.result \in {"ok", "failed"} /\ m.result = k.result
          /\ m.returned = m.result /\ (m.saved # {} \/ m.found => m.result = "ok")
          /\ EventOf(k) = IF k.result = "ok" THEN "succeeded" ELSE "failed"
          /\ k.trail = Granted \o Invoked
      BY <1>3, <1>5, <2>4 DEF StageInv, NextStage, EventOf
    <3>2. IsPrefix(Granted \o Invoked, m.trail)
      BY <1>3, <1>5, <3>1
    <3>3. /\ ~Recorded(m, "denied")
          /\ Recorded(m, "failed") <=> m.result = "failed"
          /\ Recorded(m, "succeeded") <=> m.result = "ok"
      BY <1>6, <3>1
    <3>. QED
      BY <1>5, <3>1, <3>2, <3>3 DEF StageInv, TellsEffects
  <2>. QED
    BY <1>1, <2>1, <2>2, <2>3, <2>4 DEF LogStages
<1>. QED
  BY <1>2, <1>4, <1>7, <1>8, OneCall DEF CallInv

LEMMA LogRaisesKeeps ==
    ASSUME Typed, CallsInv, NEW c \in Calls, LogRaises(c)
    PROVE  Typed' /\ CallsInv'
<1> DEFINE k == call[c]
           more == Append(k.trail, EventOf(k))
<1>1. CallInv(k) /\ k.stage \in LogStages /\ "audit" \in Faults
  BY CallAt DEF LogRaises, LogStages
<1>2. PICK trail \in {k.trail, more} :
          /\ call' = [call EXCEPT ![c] = [k EXCEPT !.trail = trail, !.stage = "done", !.loggerRaised = TRUE,
                          !.result = IF k.stage = "logging" THEN "failed" ELSE "raised"]]
          /\ registry' = registry
  BY DEF LogRaises, Logged
<1> DEFINE m == [k EXCEPT !.trail = trail, !.stage = "done", !.loggerRaised = TRUE,
                          !.result = IF k.stage = "logging" THEN "failed" ELSE "raised"]
<1>. HIDE DEF k
<1>3. /\ k \in CallRecords /\ StageInv(k) /\ OfferInv(k)
      /\ k.trail \in Seq({"granted", "invoked"})
      /\ EventOf(k) \in Events /\ more \in Seq(Events)
      /\ IsPrefix(k.trail, more) /\ Len(more) = Len(k.trail) + 1
      /\ \A event : (\E i \in DOMAIN more : more[i] = event)
                        => event \in {"granted", "invoked", EventOf(k)}
  BY <1>1, BeforeEvent DEF CallInv
<1>. HIDE DEF more
<1>4. m \in CallRecords
  BY <1>2, <1>3 DEF CallRecords, Stages, Results
<1>5. /\ m.trail = trail /\ m.stage = "done" /\ m.saved = k.saved /\ m.found = k.found
      /\ m.result = (IF k.stage = "logging" THEN "failed" ELSE "raised")
      /\ m.returned = k.returned /\ m.loggerRaised
  BY <1>3 DEF CallRecords
<1>6. call' = [call EXCEPT ![c] = m]
  BY <1>2
<1>. HIDE DEF m
<1>7. \A event : Recorded(m, event) => event \in {"granted", "invoked", EventOf(k)}
  <2>1. \A i \in DOMAIN k.trail : k.trail[i] \in {"granted", "invoked"}
    BY <1>3, OneEventMore
  <2>2. CASE trail = k.trail
    BY <1>5, <2>1, <2>2 DEF Recorded
  <2>3. CASE trail = more
    BY <1>3, <1>5, <2>3 DEF Recorded
  <2>. QED
    BY <1>2, <2>2, <2>3
<1>8. OfferInv(m)
  BY <1>5 DEF OfferInv
<1>9. TellsEffects(m)
  <2>1. CASE k.stage = "denying"
    <3>1. EventOf(k) = "denied" /\ Untouched(k) /\ k.trail = <<>>
      BY <1>3, <2>1 DEF StageInv, EventOf
    <3>2. Recorded(m, "denied") => Len(m.trail) = 1
      <4>1. CASE trail = k.trail
        BY <1>5, <3>1, <4>1 DEF Recorded
      <4>2. CASE trail = more
        BY <1>3, <1>5, <3>1, <4>2, EmptySeq
      <4>. QED
        BY <1>2, <4>1, <4>2
    <3>. QED
      BY <1>5, <1>7, <2>1, <3>1, <3>2 DEF TellsEffects, Untouched
  <2>2. CASE k.stage \in {"granting", "invoking"}
    <3>1. EventOf(k) \in {"granted", "invoked"} /\ Untouched(k)
      BY <1>3, <2>2 DEF StageInv, EventOf
    <3>. QED
      BY <1>5, <1>7, <2>2, <3>1 DEF TellsEffects, Untouched
  <2>3. CASE k.stage = "logging"
    <3>1. /\ k.result \in {"ok", "failed"} /\ "result" \in Audited
          /\ k.returned = k.result /\ (k.saved # {} \/ k.found => k.result = "ok")
          /\ EventOf(k) = IF k.result = "ok" THEN "succeeded" ELSE "failed"
          /\ k.trail = Granted \o Invoked
      BY <1>3, <2>3 DEF StageInv, EventOf
    <3>2. IsPrefix(k.trail, k.trail)
      BY <1>3, OneEventMore
    <3>3. IsPrefix(Granted \o Invoked, m.trail)
      BY <1>2, <1>3, <1>5, <3>1, <3>2
    <3>. QED
      BY <1>1, <1>5, <1>7, <2>3, <3>1, <3>3 DEF TellsEffects
  <2>. QED
    BY <1>1, <2>1, <2>2, <2>3 DEF LogStages
<1>10. StageInv(m)
  BY <1>5, <1>9 DEF StageInv
<1>. QED
  BY <1>2, <1>4, <1>6, <1>8, <1>10, OneCall DEF CallInv

\* The tool of a running call returns.
LEMMA ReturnsKeeps ==
    ASSUME Typed, CallsInv, NEW c \in Calls, At(c, "running"),
           NEW result \in {"ok", "failed"}, NEW saved \in SUBSET (1..MaxIssued), NEW found \in BOOLEAN,
           saved # {} \/ found => result = "ok",
           Returns(c, result, saved, found), registry' = registry
    PROVE  Typed' /\ CallsInv'
<1> DEFINE k == call[c]
           m == [k EXCEPT !.result = result, !.stage = Skipped("logging"),
                          !.returned = result, !.saved = saved, !.found = found]
<1>1. CallInv(k) /\ k.stage = "running"
  BY CallAt
<1>2. call' = [call EXCEPT ![c] = m]
  BY DEF Returns
<1>. HIDE DEF k
<1>3. k \in CallRecords /\ k.trail = Granted \o Invoked /\ ~k.loggerRaised
  BY <1>1 DEF CallInv, StageInv
<1>4. m \in CallRecords
  BY <1>3 DEF CallRecords, Skipped, Stages, Results
<1>5. /\ m.trail = Granted \o Invoked /\ m.stage = Skipped("logging") /\ m.saved = saved
      /\ m.result = result /\ m.returned = result /\ m.found = found /\ ~m.loggerRaised
  BY <1>3 DEF CallRecords
<1>. HIDE DEF m
<1>6. \/ m.stage = "logging" /\ "result" \in Audited
      \/ m.stage = "done" /\ "result" \notin Audited
  BY <1>5 DEF Skipped
<1>7. OfferInv(m)
  BY <1>5, <1>6 DEF OfferInv
<1>8. StageInv(m)
  <2>1. CASE m.stage = "logging"
    BY <1>5, <1>6, <2>1 DEF StageInv
  <2>2. CASE m.stage = "done"
    <3>1. "granted" \in Events
      BY DEF Events
    <3>2. /\ \A i \in DOMAIN (Granted \o Invoked) : (Granted \o Invoked)[i] \in {"granted", "invoked"}
          /\ IsPrefix(Granted \o Invoked, Granted \o Invoked)
      BY <3>1, TrailFacts, OneEventMore
    <3>3. ~Recorded(m, "denied") /\ ~Recorded(m, "failed") /\ ~Recorded(m, "succeeded")
      BY <1>5, <3>2 DEF Recorded
    <3>4. TellsEffects(m)
      BY <1>5, <1>6, <2>2, <3>2, <3>3 DEF TellsEffects
    <3>. QED
      BY <2>2, <3>4 DEF StageInv
  <2>. QED
    BY <1>6, <2>1, <2>2
<1>. QED
  BY <1>2, <1>4, <1>7, <1>8, OneCall DEF CallInv

LEMMA ToolRaisesKeeps ==
    ASSUME Typed, CallsInv, NEW c \in Calls, ToolRaises(c)
    PROVE  Typed' /\ CallsInv'
<1> DEFINE k == call[c]
           m == [k EXCEPT !.result = "failed", !.stage = "done"]
<1>1. CallInv(k) /\ k.stage = "running"
  BY CallAt DEF ToolRaises
<1>2. call' = [call EXCEPT ![c] = m] /\ registry' = registry
  BY DEF ToolRaises
<1>. HIDE DEF k
<1>3. k \in CallRecords /\ k.trail = Granted \o Invoked /\ Untouched(k)
  BY <1>1 DEF CallInv, StageInv
<1>4. m \in CallRecords
  BY <1>3 DEF CallRecords, Stages, Results
<1>5. /\ m.trail = Granted \o Invoked /\ m.stage = "done" /\ Untouched(m) /\ m.result = "failed"
  BY <1>3 DEF CallRecords, Untouched
<1>. HIDE DEF m
<1>6. ~Recorded(m, "denied") /\ ~Recorded(m, "failed") /\ ~Recorded(m, "succeeded")
  <2>1. "granted" \in Events
    BY DEF Events
  <2>2. \A i \in DOMAIN (Granted \o Invoked) : (Granted \o Invoked)[i] \in {"granted", "invoked"}
    BY <2>1, TrailFacts, OneEventMore
  <2>. QED
    BY <1>5, <2>2 DEF Recorded
<1>7. StageInv(m) /\ OfferInv(m)
  BY <1>5, <1>6 DEF StageInv, OfferInv, TellsEffects, Untouched
<1>. QED
  BY <1>2, <1>4, <1>7, OneCall DEF CallInv

\* Registration adds tools and changes none: what was offered stays permitted.
LEMMA RegisterKeeps ==
    ASSUME Typed, CallsInv, NEW t, NEW groups, Register(t, groups)
    PROVE  Typed' /\ CallsInv'
<1>1. /\ t \notin DOMAIN registry /\ call' = call
      /\ registry' = [n \in DOMAIN registry \cup {t} |-> IF n = t THEN groups ELSE registry[n]]
  BY DEF Register
<1>2. \A u : GetSchemas(u) \subseteq GetSchemas(u)'
  BY <1>1 DEF GetSchemas, Permitted
<1>3. ASSUME NEW c \in Calls PROVE (call[c] = NoCall \/ CallInv(call[c]))'
  BY <1>1, <1>2 DEF CallsInv, CallInv, OfferInv
<1>. QED
  BY <1>1, <1>3 DEF Typed, CallsInv

------------------------------------------------------------------------------
(***************************************************************************)
(* The invariant                                                           *)
(***************************************************************************)

RegistryInv ==
    /\ DOMAIN registry \subseteq Tools
    /\ said \in [by : Users \cup {NoCall}, id : 0..MaxIssued,
                 answer : {"", "refused", "deleted", "unknown"}]

IInv == RegistryInv /\ Typed /\ CallsInv /\ MemoryInv

LEMMA NoMemoryNamed ==
    /\ 0 \in 0..MaxIssued
    /\ \A wiring \in Wirings : DOMAIN wiring \subseteq Tools
  BY ToolUseAssumption

LEMMA InitInv == Init => IInv
<1> SUFFICES ASSUME Init PROVE IInv
  OBVIOUS
<1>1. RegistryInv
  BY NoMemoryNamed DEF Init, RegistryInv
<1>2. Typed /\ CallsInv
  BY DEF Init, Typed, CallsInv
<1>. QED
  BY <1>1, <1>2, MemoryInvInit DEF IInv

LEMMA CallsUnchanged ==
    ASSUME Typed, CallsInv, call' = call, registry' = registry
    PROVE  Typed' /\ CallsInv'
<1>1. ASSUME NEW c \in Calls PROVE (call[c] = NoCall \/ CallInv(call[c]))'
  BY DEF CallsInv, CallInv, OfferInv, GetSchemas, Permitted
<1>. QED
  BY <1>1 DEF Typed, CallsInv

LEMMA MemoryUnchanged ==
    ASSUME MemoryInv, UNCHANGED memoryVars
    PROVE  MemoryInv'
  BY DEF MemoryInv, memoryVars

LEMMA RegistryUnchanged ==
    ASSUME RegistryInv, UNCHANGED <<registry, said>>
    PROVE  RegistryInv'
  BY DEF RegistryInv

\* The four tools.
LEMMA RunKeeps ==
    ASSUME IInv, NEW c \in Calls,
           RunSaveTool(c) \/ RunSaveText(c) \/ RunSearch(c) \/ RunOther(c)
    PROVE  IInv'
<1>1. CallInv(call[c]) /\ At(c, "running") /\ call[c] \in CallRecords
  BY CallAt DEF IInv, CallInv, RunSaveTool, RunSaveText, RunSearch, RunOther
<1>2. call[c].about \in Questions /\ issued \in 0..MaxIssued /\ MaxIssued \in Nat
  BY <1>1, ToolUseAssumption DEF CallRecords, IInv, MemoryInv
<1>3. RegistryInv' /\ UNCHANGED <<registry, said>>
  BY RegistryUnchanged DEF IInv, RunSaveTool, RunSaveText, RunSearch, RunOther
<1>4. MemoryInv'
  <2>1. CASE RunSaveTool(c)
    BY <1>2, <2>1, SaveToolKeeps DEF RunSaveTool, IInv
  <2>2. CASE RunSaveText(c)
    BY <1>2, <2>2, SaveTextKeeps DEF RunSaveText, IInv
  <2>3. CASE RunSearch(c) \/ RunOther(c)
    BY <2>3, MemoryUnchanged DEF RunSearch, RunOther, IInv
  <2>. QED
    BY <2>1, <2>2, <2>3
<1>5. PICK result \in {"ok", "failed"}, saved \in SUBSET (1..MaxIssued), found \in BOOLEAN :
          Returns(c, result, saved, found) /\ (saved # {} \/ found => result = "ok")
  <2>1. CASE RunSaveTool(c) \/ RunSaveText(c)
    <3>1. Returns(c, "ok", {issued + 1}, FALSE) /\ issued < MaxIssued
      BY <2>1 DEF RunSaveTool, RunSaveText
    <3>2. {issued + 1} \in SUBSET (1..MaxIssued)
      BY <1>2, <3>1
    <3>. QED
      BY <3>1, <3>2
  <2>2. CASE RunSearch(c)
    <3>1. PICK filter \in {NoTool} \cup Tools :
              Returns(c, "ok", {}, SearchSimilarUsage(call[c].about, filter, SearchLimit) # <<>>)
      BY <2>2 DEF RunSearch
    <3> DEFINE found == SearchSimilarUsage(call[c].about, filter, SearchLimit) # <<>>
    <3>2. found \in BOOLEAN /\ {} \in SUBSET (1..MaxIssued)
      OBVIOUS
    <3>. HIDE DEF found
    <3>3. Returns(c, "ok", {}, found)
      BY <3>1 DEF found
    <3>. QED
      BY <3>2, <3>3
  <2>3. CASE RunOther(c)
    <3>1. PICK result \in {"ok", "failed"} : Returns(c, result, {}, FALSE)
      BY <2>3 DEF RunOther
    <3>. QED
      BY <3>1
  <2>. QED
    BY <2>1, <2>2, <2>3
<1>6. Typed' /\ CallsInv'
  BY <1>1, <1>3, <1>5, ReturnsKeeps DEF IInv
<1>. QED
  BY <1>3, <1>4, <1>6 DEF IInv

LEMMA DeleteKeeps ==
    ASSUME IInv, NEW u \in Users, NEW id \in 1..issued, Delete(u, id)
    PROVE  IInv'
<1>1. issued \in 0..MaxIssued /\ MaxIssued \in Nat /\ id \in 0..MaxIssued /\ 0 \in 0..MaxIssued
  BY ToolUseAssumption DEF IInv, MemoryInv
<1>2. UNCHANGED <<registry, call>>
  BY DEF Delete
<1>3. PICK i \in {0, id}, answer \in {"refused", "deleted", "unknown"} : Says(u, i, answer)
  BY DEF Delete
<1>4. RegistryInv'
  BY <1>1, <1>2, <1>3 DEF IInv, RegistryInv, Says
<1>5. MemoryInv'
  <2>1. DeleteById(id) \/ DeleteTextMemory(id) \/ UNCHANGED memoryVars
    BY DEF Delete
  <2>. QED
    BY <2>1, DeleteByIdKeeps, DeleteTextKeeps, MemoryUnchanged DEF IInv
<1>. QED
  BY <1>2, <1>4, <1>5, CallsUnchanged DEF IInv

LEMMA ClearStep ==
    ASSUME IInv, Clear
    PROVE  IInv'
<1>1. /\ UNCHANGED <<registry, call>> /\ said' = [by |-> NoCall, id |-> 0, answer |-> ""]
      /\ \E tool, before : ClearMemories(tool, before)
  BY DEF Clear
<1>2. RegistryInv'
  BY <1>1, NoMemoryNamed DEF IInv, RegistryInv
<1>. QED
  BY <1>1, <1>2, ClearKeeps, CallsUnchanged DEF IInv

LEMMA StepInv == IInv /\ [Next]_vars => IInv'
<1> SUFFICES ASSUME IInv, [Next]_vars PROVE IInv'
  OBVIOUS
<1>1. ASSUME NEW t \in Tools, NEW groups \in AccessChoices[t], Register(t, groups)
      PROVE  IInv'
  <2>1. RegistryInv' /\ UNCHANGED memoryVars
    BY <1>1 DEF IInv, RegistryInv, Register
  <2>. QED
    BY <1>1, <2>1, RegisterKeeps, MemoryUnchanged DEF IInv
<1>2. ASSUME NEW c \in Calls, NEW u \in Users, NEW about \in Questions, Ask(c, u, about)
      PROVE  IInv'
  <2>1. UNCHANGED <<registry, said>> /\ UNCHANGED memoryVars
    BY <1>2 DEF Ask
  <2>. QED
    BY <1>2, <2>1, AskKeeps, RegistryUnchanged, MemoryUnchanged DEF IInv, RegistryInv
<1>3. ASSUME NEW c \in Calls, NEW t \in Tools, NEW valid \in BOOLEAN, Execute(c, t, valid)
      PROVE  IInv'
  <2>1. UNCHANGED <<registry, said>> /\ UNCHANGED memoryVars
    BY <1>3 DEF Execute
  <2>. QED
    BY <1>3, <2>1, ExecuteKeeps, RegistryUnchanged, MemoryUnchanged DEF IInv
<1>4. ASSUME NEW c \in Calls, Logs(c) \/ LogRaises(c) \/ ToolRaises(c)
      PROVE  IInv'
  <2>1. UNCHANGED <<registry, said>> /\ UNCHANGED memoryVars
    BY <1>4 DEF Logs, LogRaises, ToolRaises
  <2>2. Typed' /\ CallsInv'
    BY <1>4, LogsKeeps, LogRaisesKeeps, ToolRaisesKeeps DEF IInv
  <2>. QED
    BY <2>1, <2>2, RegistryUnchanged, MemoryUnchanged DEF IInv
<1>5. CASE UNCHANGED vars
  <2>1. UNCHANGED <<registry, said>> /\ UNCHANGED memoryVars /\ UNCHANGED <<registry, call>>
    BY <1>5 DEF vars, memoryVars
  <2>. QED
    BY <2>1, CallsUnchanged, RegistryUnchanged, MemoryUnchanged DEF IInv
<1>. QED
  BY <1>1, <1>2, <1>3, <1>4, <1>5, RunKeeps, DeleteKeeps, ClearStep DEF Next

THEOREM Invariance == Spec => []IInv
  BY InitInv, StepInv, PTL DEF Spec

------------------------------------------------------------------------------
(***************************************************************************)
(* The properties                                                          *)
(***************************************************************************)

\* Every reachable state is well typed, however many calls are in flight and
\* whatever is registered, raised, deleted and cleared.
THEOREM TypeCorrect == Spec => []TypeOK
<1>1. IInv => TypeOK
  BY DEF IInv, TypeOK, RegistryInv, Typed, MemoryInv
<1>. QED
  BY Invariance, <1>1, PTL

\* DemoAgentMemory's lists hold the newest memories that were not deleted, and
\* never more than max_items of them.
THEOREM NewestAreKept == Spec => []KeepsNewest
<1>1. IInv => KeepsNewest
  BY KeepsNewestIsNewestOf DEF IInv, MemoryInv
<1>. QED
  BY Invariance, <1>1, PTL

\* What ToolRegistry.execute leaves on the audit trail, and tells the model, is
\* what it did, wherever a logger or a tool raises.
THEOREM TrailIsTrue == Spec => []TrailTellsEffects
<1>1. IInv => TrailTellsEffects
  BY StageTells DEF IInv, CallsInv, CallInv, TrailTellsEffects
<1>. QED
  BY Invariance, <1>1, PTL

\* A tool whose schema get_schemas offered is not refused by execute, whatever
\* is registered in between.
THEOREM OfferedToolsAreRun == Spec => []OfferedToolsRun
<1>1. IInv => OfferedToolsRun
  <2> SUFFICES ASSUME IInv, NEW c \in Calls, call[c] # NoCall,
                      call[c].result \in {"absent", "denied"}
               PROVE  ~call[c].offered
    BY DEF OfferedToolsRun
  <2>1. CallInv(call[c])
    BY DEF IInv, CallsInv
  <2>2. call[c].stage # "asked"
    BY <2>1 DEF CallInv, StageInv
  <2>. QED
    BY <2>1, <2>2 DEF CallInv, OfferInv
<1>. QED
  BY Invariance, <1>1, PTL

\* A full list to which one is added loses its first, another list none.
LEMMA FirstOut ==
    ASSUME NEW S, NEW s \in Seq(S), NEW m \in S, Len(s) <= MaxItems
    PROVE  /\ Ids(s) \ Ids(Newest(Append(s, m))) \subseteq {s[1].id}
           /\ Len(s) # MaxItems => Ids(s) \subseteq Ids(Newest(Append(s, m)))
<1> DEFINE u == Append(s, m)
           t == Newest(u)
<1>1. /\ Len(s) \in Nat /\ DOMAIN s = 1..Len(s)
      /\ u \in Seq(S) /\ Len(u) = Len(s) + 1 /\ DOMAIN u = 1..(Len(s) + 1)
      /\ \A i \in 1..Len(s) : u[i] = s[i]
      /\ \A i \in 1..(Len(s) + 1) : u[i] \in S
  BY AppendProperties, LenProperties, ElementOfSeq
<1>. HIDE DEF u
<1>2. CASE Len(s) < MaxItems
  <2>1. t = u
    BY <1>1, <1>2, MemoryAssumption DEF Newest
  <2>2. Ids(s) \subseteq Ids(u)
    BY <1>1 DEF Ids
  <2>. QED
    BY <2>1, <2>2 DEF u
<1>3. CASE Len(s) = MaxItems
  <2>1. t = SubSeq(u, 2, Len(s) + 1)
    BY <1>1, <1>3, MemoryAssumption DEF Newest
  <2>2. /\ Len(t) = Len(s) /\ DOMAIN t = 1..Len(s)
        /\ \A j \in 1..Len(s) : t[j] = u[j + 1]
    <3>1. \A i \in 2..(Len(s) + 1) : u[i] \in S
      BY <1>1
    <3>2. /\ t \in Seq(S)
          /\ Len(t) = IF 2 <= Len(s) + 1 THEN Len(s) + 1 - 2 + 1 ELSE 0
          /\ \A j \in 1..(Len(s) + 1 - 2 + 1) : t[j] = u[2 + j - 1]
      BY <1>1, <2>1, <3>1, SubSeqProperties
    <3>3. DOMAIN t = 1..Len(t)
      BY <3>2, LenProperties
    <3>. QED
      BY <1>1, <3>2, <3>3
  <2>. HIDE DEF t
  <2>3. ASSUME NEW i \in DOMAIN s, i # 1 PROVE s[i].id \in Ids(t)
    <3>1. i - 1 \in DOMAIN t /\ t[i - 1] = u[i] /\ u[i] = s[i]
      BY <1>1, <2>2, <2>3
    <3>. QED
      BY <3>1 DEF Ids
  <2>. QED
    BY <1>3, <2>3 DEF Ids, u, t
<1>4. Len(s) < MaxItems \/ Len(s) = MaxItems
  <2>1. Len(s) \in Nat /\ MaxItems \in Nat
    BY <1>1, MemoryAssumption
  <2>2. \A x, y \in Nat : x <= y => x < y \/ x = y
    OBVIOUS
  <2>. QED
    BY <2>1, <2>2
<1>. QED
  BY <1>2, <1>3, <1>4

OneAtMost(left, ids) == Cardinality(left) <= 1 /\ left \subseteq ids

LEMMA OneLeaves ==
    ASSUME NEW left, NEW id, NEW ids, left \subseteq {id}, left # {} => id \in ids
    PROVE  OneAtMost(left, ids)
<1>1. left = {} \/ left = {id}
  OBVIOUS
<1>. QED
  BY <1>1, FS_EmptySet, FS_Singleton DEF OneAtMost

Held == Ids(memories) \cup Ids(texts)
Oldest == {s[1].id : s \in {s \in {memories, texts} : Len(s) = MaxItems}}

LEMMA SaveToolDrops ==
    ASSUME MemoryInv, NEW question \in Questions, issued < MaxIssued,
           SaveToolUsage(question, "run_sql")
    PROVE  OneAtMost(Held \ Held', Oldest)
<1> DEFINE m == [id |-> issued + 1, about |-> question, tool |-> "run_sql"]
<1>1. m \in KeptTool /\ memories \in Seq(KeptTool) /\ Len(memories) <= MaxItems
  BY ToolUseAssumption DEF MemoryInv, KeptTool, NewestOf
<1>2. memories' = Newest(Append(memories, m)) /\ texts' = texts
  BY DEF SaveToolUsage
<1>. HIDE DEF m
<1>3. /\ Ids(memories) \ Ids(memories') \subseteq {memories[1].id}
      /\ Len(memories) # MaxItems => Ids(memories) \subseteq Ids(memories')
  BY <1>1, <1>2, FirstOut
<1>4. Held \ Held' \subseteq Ids(memories) \ Ids(memories')
  BY <1>2 DEF Held
<1>5. Len(memories) = MaxItems => memories[1].id \in Oldest
  BY DEF Oldest
<1>. QED
  BY <1>3, <1>4, <1>5, OneLeaves

LEMMA SaveTextDrops ==
    ASSUME MemoryInv, NEW question \in Questions, issued < MaxIssued,
           SaveTextMemory(question)
    PROVE  OneAtMost(Held \ Held', Oldest)
<1> DEFINE m == [id |-> issued + 1, about |-> question]
<1>1. m \in Kept /\ texts \in Seq(Kept) /\ Len(texts) <= MaxItems
  BY ToolUseAssumption DEF MemoryInv, Kept, NewestOf
<1>2. texts' = Newest(Append(texts, m)) /\ memories' = memories
  BY DEF SaveTextMemory
<1>. HIDE DEF m
<1>3. /\ Ids(texts) \ Ids(texts') \subseteq {texts[1].id}
      /\ Len(texts) # MaxItems => Ids(texts) \subseteq Ids(texts')
  BY <1>1, <1>2, FirstOut
<1>4. Held \ Held' \subseteq Ids(texts) \ Ids(texts')
  BY <1>2 DEF Held
<1>5. Len(texts) = MaxItems => texts[1].id \in Oldest
  BY DEF Oldest
<1>. QED
  BY <1>3, <1>4, <1>5, OneLeaves

\* A deletion takes exactly the id it was asked for: no text has the id of a
\* tool use.
LEMMA DeletesOne ==
    ASSUME MemoryInv, NEW id,
           \/ DeleteById(id)
           \/ id \notin Ids(memories) /\ DeleteTextMemory(id)
    PROVE  Held \ Held' = {id} /\ issued' = issued
<1>1. Ids(memories) \cap Ids(texts) = {}
  BY DEF MemoryInv, NewestOf
<1>2. CASE DeleteById(id)
  <2>1. PICK i \in DOMAIN memories :
            /\ memories[i].id = id /\ memories' = RemoveAt(memories, i)
            /\ texts' = texts /\ issued' = issued
    BY <1>2 DEF DeleteById
  <2>2. i \in 1..Len(memories) /\ memories \in Seq(KeptTool) /\ Ordered(memories)
    BY LenProperties DEF MemoryInv, NewestOf
  <2>3. \A m \in KeptTool : m.id \in Int
    BY IdsAreNumbers
  <2>4. /\ Ids(memories') \subseteq Ids(memories) /\ Ids(memories) \ Ids(memories') \subseteq {id}
        /\ id \notin Ids(memories')
    BY <2>1, <2>2, <2>3, RemoveAtKeeps
  <2>5. id \in Ids(memories)
    BY <2>1 DEF Ids
  <2>. QED
    BY <1>1, <2>1, <2>4, <2>5 DEF Held
<1>3. CASE id \notin Ids(memories) /\ DeleteTextMemory(id)
  <2>1. PICK i \in DOMAIN texts :
            /\ texts[i].id = id /\ texts' = RemoveAt(texts, i)
            /\ memories' = memories /\ issued' = issued
    BY <1>3 DEF DeleteTextMemory
  <2>2. i \in 1..Len(texts) /\ texts \in Seq(Kept) /\ Ordered(texts)
    BY LenProperties DEF MemoryInv, NewestOf
  <2>3. \A m \in Kept : m.id \in Int
    BY IdsAreNumbers
  <2>4. /\ Ids(texts') \subseteq Ids(texts) /\ Ids(texts) \ Ids(texts') \subseteq {id}
        /\ id \notin Ids(texts')
    BY <2>1, <2>2, <2>3, RemoveAtKeeps
  <2>5. id \in Ids(texts)
    BY <2>1 DEF Ids
  <2>. QED
    BY <1>1, <1>3, <2>1, <2>4, <2>5 DEF Held
<1>. QED
  BY <1>2, <1>3

\* What OnlyAdminsForget says of a step.
StepForgets ==
    LET left == Held \ Held'
    IN  /\ issued' # issued => OneAtMost(left, Oldest)
        /\ issued' = issued /\ left # {} =>
               said'.by = NoCall \/ (Admin(said'.by) /\ said'.answer = "deleted" /\ left = {said'.id})
        /\ said'.answer = "deleted" /\ said' # said => left = {said'.id}

LEMMA ForgetStep ==
    ASSUME IInv, Next
    PROVE  StepForgets
<1>0. MemoryInv
  BY DEF IInv
<1>1. CASE UNCHANGED memoryVars /\ said' = said
  <2>1. Held' = Held /\ issued' = issued
    BY <1>1 DEF memoryVars, Held
  <2>. QED
    BY <1>1, <2>1 DEF StepForgets
<1>2. ASSUME NEW c \in Calls, RunSaveTool(c) \/ RunSaveText(c) PROVE StepForgets
  <2>1. call[c] \in CallRecords
    BY <1>2, CallAt DEF IInv, CallInv, RunSaveTool, RunSaveText
  <2>2. call[c].about \in Questions
    BY <2>1 DEF CallRecords
  <2>3. issued \in Nat /\ issued' = issued + 1 /\ said' = said /\ issued < MaxIssued
    <3>1. issued \in Nat
      BY <1>0, ToolUseAssumption DEF MemoryInv
    <3>2. issued' = issued + 1 /\ said' = said /\ issued < MaxIssued
      BY <1>2 DEF RunSaveTool, RunSaveText, SaveToolUsage, SaveTextMemory
    <3>. QED
      BY <3>1, <3>2
  <2>4. OneAtMost(Held \ Held', Oldest)
    BY <1>0, <1>2, <2>2, <2>3, SaveToolDrops, SaveTextDrops DEF RunSaveTool, RunSaveText
  <2>. QED
    BY <2>3, <2>4 DEF StepForgets
<1>3. ASSUME NEW u \in Users, NEW id \in 1..issued, Delete(u, id) PROVE StepForgets
  <2>1. CASE /\ "/delete" \in Commands(u) /\ Says(u, id, "deleted")
             /\ \/ DeleteById(id)
                \/ id \notin Ids(memories) /\ DeleteTextMemory(id)
    <3>1. Admin(u)
      BY <2>1 DEF Commands
    <3>2. Held \ Held' = {id} /\ issued' = issued
      BY <1>0, <2>1, DeletesOne
    <3>. QED
      BY <2>1, <3>1, <3>2 DEF StepForgets, Says
  <2>2. CASE UNCHANGED memoryVars /\ (Says(u, 0, "refused") \/ Says(u, 0, "unknown"))
    <3>1. Held' = Held /\ issued' = issued
      BY <2>2 DEF memoryVars, Held
    <3>. QED
      BY <2>2, <3>1 DEF StepForgets, Says
  <2>. QED
    BY <1>3, <2>1, <2>2 DEF Delete
<1>4. CASE Clear
  <2>1. said'.by = NoCall /\ said'.answer = "" /\ issued' = issued
    BY <1>4 DEF Clear, ClearMemories
  <2>. QED
    BY <2>1 DEF StepForgets
<1>5. ASSUME NEW t \in Tools, NEW groups \in AccessChoices[t], Register(t, groups)
      PROVE  StepForgets
  BY <1>1, <1>5 DEF Register
<1>6. ASSUME NEW c \in Calls, NEW u \in Users, NEW about \in Questions, Ask(c, u, about)
      PROVE  StepForgets
  BY <1>1, <1>6 DEF Ask
<1>7. ASSUME NEW c \in Calls, NEW t \in Tools, NEW valid \in BOOLEAN, Execute(c, t, valid)
      PROVE  StepForgets
  BY <1>1, <1>7 DEF Execute
<1>8. ASSUME NEW c \in Calls,
             Logs(c) \/ LogRaises(c) \/ RunSearch(c) \/ RunOther(c) \/ ToolRaises(c)
      PROVE  StepForgets
  BY <1>1, <1>8 DEF Logs, LogRaises, RunSearch, RunOther, ToolRaises
<1>. QED
  BY <1>2, <1>3, <1>4, <1>5, <1>6, <1>7, <1>8 DEF Next

\* No step of the registry, the tools or the commands lets a memory go but by
\* eviction of the oldest, by an administrator's command or by clearing.
THEOREM NobodyElseForgets == Spec => OnlyAdminsForget
<1>1. IInv /\ [Next]_vars => [StepForgets]_vars
  BY ForgetStep
<1>2. StepForgets => LET held  == Ids(memories) \cup Ids(texts)
                         left  == held \ (Ids(memories') \cup Ids(texts'))
       IN  /\ issued' # issued =>
                  /\ Cardinality(left) <= 1
                  /\ left \subseteq {s[1].id : s \in {s \in {memories, texts} : Len(s) = MaxItems}}
           /\ issued' = issued /\ left # {} =>
                  said'.by = NoCall \/ (Admin(said'.by) /\ said'.answer = "deleted" /\ left = {said'.id})
           /\ said'.answer = "deleted" /\ said' # said => left = {said'.id}
  BY DEF StepForgets, OneAtMost, Held, Oldest
<1>. QED
  BY Invariance, <1>1, <1>2, PTL DEF Spec, OnlyAdminsForget
------------------------------------------------------------------------------
(***************************************************************************)
(* What the pages and prompts show                                         *)
(***************************************************************************)

\* Distinct values at n positions are n values.
LEMMA Counted ==
    ASSUME NEW n \in Nat, NEW f, f \in [1..n -> Int],
           \A i, j \in 1..n : i # j => f[i] # f[j]
    PROVE  /\ IsFiniteSet({f[i] : i \in 1..n})
           /\ Cardinality({f[i] : i \in 1..n}) = n
<1> DEFINE T == {f[i] : i \in 1..n}
<1>1. IsFiniteSet(1..n) /\ Cardinality(1..n) = n
  <2>1. 1 \in Int /\ n \in Int
    OBVIOUS
  <2>2. IsFiniteSet(1..n) /\ Cardinality(1..n) = IF 1 > n THEN 0 ELSE n - 1 + 1
    BY <2>1, FS_Interval
  <2>. QED
    BY <2>2
<1>2. f \in Surjection(1..n, T) /\ f \in Injection(1..n, T)
  BY DEF Surjection, Injection, IsInjective
<1>. HIDE DEF T
<1>3. IsFiniteSet(T) /\ (Cardinality(T) = Cardinality(1..n) <=> f \in Injection(1..n, T))
  BY <1>1, <1>2, FS_Surjection
<1>. QED
  BY <1>1, <1>2, <1>3 DEF T

LEMMA ToSetOfBoth ==
    ASSUME NEW S, NEW s \in Seq(S), NEW t \in Seq(S)
    PROVE  ToSet(s \o t) = ToSet(s) \cup ToSet(t)
<1> DEFINE both == s \o t
<1>1. /\ Len(s) \in Nat /\ Len(t) \in Nat /\ DOMAIN s = 1..Len(s) /\ DOMAIN t = 1..Len(t)
      /\ both \in Seq(S) /\ DOMAIN both = 1..(Len(s) + Len(t))
      /\ \A i \in 1..(Len(s) + Len(t)) :
             both[i] = IF i <= Len(s) THEN s[i] ELSE t[i - Len(s)]
  BY LenProperties, ConcatProperties
<1>. HIDE DEF both
<1>2. ToSet(both) \subseteq ToSet(s) \cup ToSet(t)
  <2> SUFFICES ASSUME NEW i \in DOMAIN both PROVE both[i] \in ToSet(s) \cup ToSet(t)
    BY DEF ToSet
  <2>1. CASE i <= Len(s)
    BY <1>1, <2>1 DEF ToSet
  <2>2. CASE ~(i <= Len(s))
    <3>1. i - Len(s) \in DOMAIN t /\ both[i] = t[i - Len(s)]
      BY <1>1, <2>2
    <3>. QED
      BY <3>1 DEF ToSet
  <2>. QED
    BY <2>1, <2>2
<1>3. ASSUME NEW i \in DOMAIN s PROVE s[i] \in ToSet(both)
  <2>1. i \in DOMAIN both /\ both[i] = s[i]
    BY <1>1
  <2>. QED
    BY <2>1 DEF ToSet
<1>4. ASSUME NEW i \in DOMAIN t PROVE t[i] \in ToSet(both)
  <2>1. Len(s) + i \in DOMAIN both /\ both[Len(s) + i] = t[i]
    BY <1>1
  <2>. QED
    BY <2>1 DEF ToSet
<1>. QED
  BY <1>2, <1>3, <1>4 DEF both, ToSet

\* The newest of a list, up to a limit.
LEMMA RecentProperties ==
    ASSUME NEW S, \A m \in S : m.id \in Int, NEW s \in Seq(S), Ordered(s), NEW limit \in Nat
    PROVE  LET shown == ToSet(Recent(s, limit)) IN
           /\ Recent(s, limit) \in Seq(Int)
           /\ shown \subseteq Ids(s)
           /\ Cardinality(shown) =
                  IF Cardinality(Ids(s)) < limit THEN Cardinality(Ids(s)) ELSE limit
           /\ \A id \in shown, other \in Ids(s) \ shown : other < id
<1> DEFINE n == IF Len(s) < limit THEN Len(s) ELSE limit
           f == [r \in 1..n |-> s[Len(s) + 1 - r].id]
           g == [i \in 1..Len(s) |-> s[i].id]
<1>1. Len(s) \in Nat /\ DOMAIN s = 1..Len(s) /\ \A i \in 1..Len(s) : s[i] \in S /\ s[i].id \in Int
  BY LenProperties, ElementOfSeq
<1>2. n \in Nat /\ n <= Len(s) /\ \A r \in 1..n : Len(s) + 1 - r \in 1..Len(s)
  BY <1>1
<1>3. Recent(s, limit) = f
  BY DEF Recent
<1>4. \A i, j \in 1..Len(s) : i # j => s[i].id # s[j].id
  <2> SUFFICES ASSUME NEW i \in 1..Len(s), NEW j \in 1..Len(s), i # j PROVE s[i].id # s[j].id
    OBVIOUS
  <2>1. i < j \/ j < i
    BY <1>1
  <2>. QED
    BY <1>1, <2>1 DEF Ordered
<1>5. g \in [1..Len(s) -> Int] /\ \A i, j \in 1..Len(s) : i # j => g[i] # g[j]
  BY <1>1, <1>4
<1>6. Ids(s) = {g[i] : i \in 1..Len(s)}
  BY <1>1 DEF Ids
<1>7. Cardinality(Ids(s)) = Len(s)
  BY <1>1, <1>5, <1>6, Counted
<1>8. f \in [1..n -> Int] /\ \A i, j \in 1..n : i # j => f[i] # f[j]
  <2>1. f \in [1..n -> Int]
    BY <1>1, <1>2
  <2>2. ASSUME NEW i \in 1..n, NEW j \in 1..n, i # j PROVE f[i] # f[j]
    <3>1. Len(s) + 1 - i # Len(s) + 1 - j
      BY <1>1, <1>2, <2>2
    <3>. QED
      BY <1>2, <1>4, <3>1
  <2>. QED
    BY <2>1, <2>2
<1>. HIDE DEF n, g
<1>9. DOMAIN f = 1..n /\ ToSet(f) = {f[r] : r \in 1..n}
  BY DEF ToSet
<1>10. \A r \in 1..n : f[r] = s[Len(s) + 1 - r].id
  OBVIOUS
<1>. HIDE DEF f
<1>11. Cardinality(ToSet(f)) = n
  BY <1>2, <1>8, <1>9, Counted
<1>12. ToSet(f) \subseteq Ids(s)
  BY <1>1, <1>2, <1>9, <1>10 DEF Ids
<1>13. f \in Seq(Int)
  BY <1>2, <1>8, SeqDef
<1>14. ASSUME NEW id \in ToSet(f), NEW other \in Ids(s) \ ToSet(f) PROVE other < id
  <2>1. PICK r \in 1..n : id = s[Len(s) + 1 - r].id
    BY <1>9, <1>10
  <2>2. PICK j \in 1..Len(s) : other = s[j].id
    BY <1>1 DEF Ids
  <2>3. ~(Len(s) + 1 - j \in 1..n)
    <3>1. SUFFICES ASSUME Len(s) + 1 - j \in 1..n PROVE FALSE
      OBVIOUS
    <3>2. Len(s) + 1 - (Len(s) + 1 - j) = j
      BY <1>1
    <3>3. f[Len(s) + 1 - j] = s[j].id
      BY <1>10, <3>1, <3>2
    <3>. QED
      BY <1>9, <1>14, <2>2, <3>1, <3>3
  <2>4. j < Len(s) + 1 - r
    BY <1>1, <1>2, <2>3
  <2>. QED
    BY <1>1, <1>2, <2>1, <2>2, <2>4 DEF Ordered
<1>. QED
  BY <1>3, <1>7, <1>11, <1>12, <1>13, <1>14 DEF n

\* Of any two hits one comes first, so that every place is taken.
LEMMA PlacesTaken ==
    ASSUME NEW s \in Seq(Kept), NEW query \in Questions, NEW hits \in SUBSET DOMAIN s
    PROVE  /\ Cardinality(hits) \in Nat
           /\ \A r \in 1..Cardinality(hits) : \E i \in hits : Place(s, query, hits, i) = r
<1> DEFINE value(i) == Similarity[query][s[i].about]
           upto(i)  == {j \in hits : j = i \/ Better(s, query, j, i)}
           n == Cardinality(hits)
           place == [i \in hits |-> Cardinality(upto(i))]
<1>1. Len(s) \in Nat /\ DOMAIN s = 1..Len(s) /\ \A i \in 1..Len(s) : s[i] \in Kept
  BY LenProperties, ElementOfSeq
<1>2. IsFiniteSet(hits) /\ n \in Nat
  <2>1. 1 \in Int /\ Len(s) \in Int
    BY <1>1
  <2>2. IsFiniteSet(1..Len(s))
    BY <2>1, FS_Interval
  <2>. QED
    BY <1>1, <2>2, FS_Subset, FS_CardinalityType
<1>3. \A i \in hits : value(i) \in Int /\ i \in Int
  <2> SUFFICES ASSUME NEW i \in hits PROVE value(i) \in Int /\ i \in Int
    OBVIOUS
  <2>1. i \in 1..Len(s) /\ s[i] \in Kept
    BY <1>1
  <2>2. s[i].about \in Questions
    BY <2>1 DEF Kept
  <2>. QED
    BY <2>1, <2>2, MemoryAssumption
<1>4. \A i, j \in hits : Better(s, query, i, j) <=> \/ value(i) > value(j)
                                                    \/ value(i) = value(j) /\ i < j
  BY DEF Better
<1>. HIDE DEF value
<1>5. \A i \in hits : /\ upto(i) \in SUBSET hits /\ i \in upto(i)
                      /\ IsFiniteSet(upto(i)) /\ Cardinality(upto(i)) \in 1..n
  <2> SUFFICES ASSUME NEW i \in hits
               PROVE  /\ upto(i) \in SUBSET hits /\ i \in upto(i)
                      /\ IsFiniteSet(upto(i)) /\ Cardinality(upto(i)) \in 1..n
    OBVIOUS
  <2>1. upto(i) \in SUBSET hits /\ i \in upto(i)
    OBVIOUS
  <2>. HIDE DEF upto
  <2>2. /\ IsFiniteSet(upto(i)) /\ Cardinality(upto(i)) <= n
        /\ Cardinality(upto(i)) \in Nat
    BY <1>2, <2>1, FS_Subset, FS_CardinalityType
  <2>3. Cardinality(upto(i)) # 0
    BY <2>1, <2>2, FS_EmptySet
  <2>. QED
    BY <1>2, <2>1, <2>2, <2>3
<1>6. ASSUME NEW i \in hits, NEW j \in hits, Better(s, query, i, j)
      PROVE  Cardinality(upto(i)) # Cardinality(upto(j))
  <2>1. upto(i) \subseteq upto(j) /\ j \notin upto(i)
    <3>1. ASSUME NEW k \in hits, k = i \/ Better(s, query, k, i) PROVE Better(s, query, k, j)
      BY <1>3, <1>4, <1>6, <3>1
    <3>2. ~Better(s, query, j, i) /\ j # i
      BY <1>3, <1>4, <1>6
    <3>. QED
      BY <3>1, <3>2
  <2>2. upto(i) \in SUBSET upto(j) /\ upto(i) # upto(j)
    BY <1>5, <2>1
  <2>3. IsFiniteSet(upto(j))
    BY <1>5
  <2>. HIDE DEF upto
  <2>. QED
    BY <2>2, <2>3, FS_Subset
<1>7. ASSUME NEW i \in hits, NEW j \in hits, i # j PROVE place[i] # place[j]
  <2>1. Better(s, query, i, j) \/ Better(s, query, j, i)
    BY <1>3, <1>4, <1>7
  <2>. QED
    BY <1>6, <2>1
<1>8. place \in Injection(hits, 1..n)
  <2>1. place \in [hits -> 1..n]
    BY <1>5
  <2>. HIDE DEF place
  <2>. QED
    BY <1>7, <2>1 DEF Injection, IsInjective
<1>9. \A i \in hits : place[i] = Place(s, query, hits, i)
  BY DEF Place
<1>. HIDE DEF place, upto
<1>10. IsFiniteSet(1..n) /\ Cardinality(1..n) = n
  <2>. HIDE DEF n
  <2>1. 1 \in Int /\ n \in Int
    BY <1>2
  <2>2. IsFiniteSet(1..n) /\ Cardinality(1..n) = IF 1 > n THEN 0 ELSE n - 1 + 1
    BY <2>1, FS_Interval
  <2>. QED
    BY <1>2, <2>2
<1>11. place \in Surjection(hits, 1..n)
  BY <1>8, <1>10, FS_Injection
<1>. HIDE DEF n
<1>12. \A r \in 1..n : \E i \in hits : place[i] = r
  BY <1>11 DEF Surjection
<1>. QED
  BY <1>2, <1>9, <1>12 DEF n

\* A search finds memories of the list.
LEMMA FoundAreHeld ==
    ASSUME NEW s \in Seq(Kept), NEW query \in Questions, NEW limit \in Nat
    PROVE  ToSet(Top(s, query, DOMAIN s, limit)) \subseteq Ids(s)
<1> DEFINE hits == {i \in DOMAIN s : Similarity[query][s[i].about] >= Threshold}
           count == Cardinality(hits)
           shown == IF count < limit THEN count ELSE limit
           at(r) == CHOOSE i \in hits : Place(s, query, hits, i) = r
<1>1. hits \in SUBSET DOMAIN s
  OBVIOUS
<1>2. Top(s, query, DOMAIN s, limit) = [r \in 1..shown |-> s[at(r)].id]
  BY DEF Top
<1>. HIDE DEF hits
<1>3. count \in Nat /\ \A r \in 1..count : at(r) \in hits
  BY <1>1, PlacesTaken
<1>. HIDE DEF count
<1>4. \A r \in 1..shown : at(r) \in DOMAIN s
  BY <1>1, <1>3
<1>. HIDE DEF shown, at
<1> DEFINE found == [r \in 1..shown |-> s[at(r)].id]
<1>5. DOMAIN found = 1..shown /\ \A r \in 1..shown : found[r] = s[at(r)].id
  OBVIOUS
<1>. HIDE DEF found
<1>6. \A r \in DOMAIN found : found[r] \in Ids(s)
  BY <1>4, <1>5 DEF Ids
<1>7. Top(s, query, DOMAIN s, limit) = found
  BY <1>2 DEF found
<1>. QED
  BY <1>6, <1>7 DEF ToSet

\* No list holds a memory that was deleted or cleared.
GoneInv == Held \cap gone = {}

LEMMA GoneBegins == Init => GoneInv
<1> SUFFICES ASSUME Init PROVE gone = {}
  BY DEF GoneInv
<1>. QED
  BY DEF Init, MemoryInit

\* The id of a new memory is no old one.
LEMMA SavingAdds ==
    ASSUME NEW S, \A k \in S : k.id \in Int,
           NEW s \in Seq(S), Ordered(s), NEW m \in S, \A i \in DOMAIN s : s[i].id < m.id
    PROVE  Ids(Newest(Append(s, m))) \subseteq Ids(s) \cup {m.id}
<1> DEFINE t == Append(s, m)
<1>1. t \in Seq(S) /\ Ordered(t) /\ Ids(t) = Ids(s) \cup {m.id}
  BY AppendOrdered
<1>. HIDE DEF t
<1>2. Ids(Newest(t)) \subseteq Ids(t)
  BY <1>1, NewestProperties
<1>. QED
  BY <1>1, <1>2 DEF t

LEMMA SavedIsNotGone ==
    ASSUME MemoryInv, GoneInv, NEW question \in Questions, issued < MaxIssued,
           SaveToolUsage(question, "run_sql") \/ SaveTextMemory(question)
    PROVE  GoneInv'
<1> DEFINE tool == [id |-> issued + 1, about |-> question, tool |-> "run_sql"]
           text == [id |-> issued + 1, about |-> question]
<1>1. issued \in Nat /\ issued + 1 \in 1..MaxIssued
  BY ToolUseAssumption DEF MemoryInv
<1>2. tool \in KeptTool /\ text \in Kept /\ tool.id = issued + 1 /\ text.id = issued + 1
  BY <1>1 DEF KeptTool, Kept
<1>3. Held \subseteq 1..issued /\ gone \subseteq 1..issued
  BY DEF MemoryInv, NewestOf, Held
<1>4. /\ \A i \in DOMAIN memories : memories[i].id < tool.id
      /\ \A i \in DOMAIN texts : texts[i].id < text.id
  BY <1>1, <1>2, <1>3 DEF Held, Ids
<1>. HIDE DEF tool, text
<1>5. (\A k \in KeptTool : k.id \in Int) /\ (\A k \in Kept : k.id \in Int)
  BY IdsAreNumbers
<1>6. CASE SaveToolUsage(question, "run_sql")
  <2>1. Ids(Newest(Append(memories, tool))) \subseteq Ids(memories) \cup {issued + 1}
    <3>1. memories \in Seq(KeptTool) /\ Ordered(memories)
      BY DEF MemoryInv, NewestOf
    <3>. QED
      BY <1>2, <1>4, <1>5, <3>1, SavingAdds
  <2>2. memories' = Newest(Append(memories, tool)) /\ texts' = texts /\ gone' = gone
    BY <1>6 DEF SaveToolUsage, tool
  <2>3. Held' \subseteq Held \cup {issued + 1}
    BY <2>1, <2>2 DEF Held
  <2>4. issued + 1 \notin gone
    BY <1>1, <1>3
  <2>. QED
    BY <2>2, <2>3, <2>4 DEF GoneInv
<1>7. CASE SaveTextMemory(question)
  <2>1. Ids(Newest(Append(texts, text))) \subseteq Ids(texts) \cup {issued + 1}
    <3>1. texts \in Seq(Kept) /\ Ordered(texts)
      BY DEF MemoryInv, NewestOf
    <3>. QED
      BY <1>2, <1>4, <1>5, <3>1, SavingAdds
  <2>2. texts' = Newest(Append(texts, text)) /\ memories' = memories /\ gone' = gone
    BY <1>7 DEF SaveTextMemory, text
  <2>3. Held' \subseteq Held \cup {issued + 1}
    BY <2>1, <2>2 DEF Held
  <2>4. issued + 1 \notin gone
    BY <1>1, <1>3
  <2>. QED
    BY <2>2, <2>3, <2>4 DEF GoneInv
<1>. QED
  BY <1>6, <1>7

\* Deleting and clearing only take memories out.
LEMMA NothingNew ==
    ASSUME MemoryInv,
           \/ \E id \in 1..issued : DeleteById(id) \/ DeleteTextMemory(id)
           \/ \E tool, before : ClearMemories(tool, before)
    PROVE  Ids(memories') \subseteq Ids(memories) /\ Ids(texts') \subseteq Ids(texts)
<1>1. (\A k \in KeptTool : k.id \in Int) /\ (\A k \in Kept : k.id \in Int)
  BY IdsAreNumbers
<1>2. /\ memories \in Seq(KeptTool) /\ Ordered(memories) /\ DOMAIN memories = 1..Len(memories)
      /\ texts \in Seq(Kept) /\ Ordered(texts) /\ DOMAIN texts = 1..Len(texts)
  BY LenProperties DEF MemoryInv, NewestOf
<1>3. ASSUME NEW id \in 1..issued, DeleteById(id)
      PROVE  Ids(memories') \subseteq Ids(memories) /\ Ids(texts') \subseteq Ids(texts)
  <2>1. PICK i \in DOMAIN memories : memories' = RemoveAt(memories, i) /\ texts' = texts
    BY <1>3 DEF DeleteById
  <2>. QED
    BY <1>1, <1>2, <2>1, RemoveAtKeeps
<1>4. ASSUME NEW id \in 1..issued, DeleteTextMemory(id)
      PROVE  Ids(memories') \subseteq Ids(memories) /\ Ids(texts') \subseteq Ids(texts)
  <2>1. PICK i \in DOMAIN texts : texts' = RemoveAt(texts, i) /\ memories' = memories
    BY <1>4 DEF DeleteTextMemory
  <2>. QED
    BY <1>1, <1>2, <2>1, RemoveAtKeeps
<1>5. ASSUME NEW tool, NEW before, ClearMemories(tool, before)
      PROVE  Ids(memories') \subseteq Ids(memories) /\ Ids(texts') \subseteq Ids(texts)
  <2>1. PICK left \in SUBSET DOMAIN memories : memories' \in Filtered(memories, left)
    BY <1>5 DEF ClearMemories
  <2>2. PICK leftText \in SUBSET DOMAIN texts : texts' \in Filtered(texts, leftText)
    BY <1>5 DEF ClearMemories
  <2>. QED
    BY <1>2, <2>1, <2>2, FilteredProperties
<1>. QED
  BY <1>3, <1>4, <1>5

LEMMA GoneStaysOut == IInv /\ GoneInv /\ [Next]_vars => GoneInv'
<1> SUFFICES ASSUME IInv, GoneInv, [Next]_vars PROVE GoneInv'
  OBVIOUS
<1>0. MemoryInv
  BY DEF IInv
<1>1. CASE UNCHANGED memoryVars
  BY <1>1 DEF memoryVars, GoneInv, Held
<1>2. ASSUME NEW c \in Calls, RunSaveTool(c) \/ RunSaveText(c) PROVE GoneInv'
  <2>1. call[c] \in CallRecords
    BY <1>2, CallAt DEF IInv, CallInv, RunSaveTool, RunSaveText
  <2>2. call[c].about \in Questions
    BY <2>1 DEF CallRecords
  <2>. QED
    BY <1>0, <1>2, <2>2, SavedIsNotGone DEF RunSaveTool, RunSaveText
<1>3. ASSUME NEW u \in Users, NEW id \in 1..issued, Delete(u, id) PROVE GoneInv'
  <2>1. CASE DeleteById(id) \/ (id \notin Ids(memories) /\ DeleteTextMemory(id))
    <3>1. Held' \subseteq Held
      BY <1>0, <2>1, NothingNew DEF Held
    <3>2. Held \ Held' = {id}
      BY <1>0, <2>1, DeletesOne
    <3>3. gone' = gone \cup {id}
      BY <2>1 DEF DeleteById, DeleteTextMemory
    <3>. QED
      BY <3>1, <3>2, <3>3 DEF GoneInv
  <2>. QED
    BY <1>1, <1>3, <2>1 DEF Delete
<1>4. CASE Clear
  <2>1. PICK tool \in {NoTool, "run_sql"}, before \in {1 + issued \div 2, issued + 1} :
            ClearMemories(tool, before)
    BY <1>4 DEF Clear
  <2>2. Ids(memories') \subseteq Ids(memories) /\ Ids(texts') \subseteq Ids(texts)
    BY <1>0, <2>1, NothingNew
  <2>3. gone' = gone \cup (Ids(memories) \ Ids(memories')) \cup (Ids(texts) \ Ids(texts'))
    BY <2>1 DEF ClearMemories
  <2>4. Ids(memories) \cap Ids(texts) = {}
    BY <1>0 DEF MemoryInv, NewestOf
  <2>. QED
    BY <2>2, <2>3, <2>4 DEF GoneInv, Held
<1>5. CASE UNCHANGED vars
  BY <1>1, <1>5 DEF vars, memoryVars
<1>6. ASSUME NEW t \in Tools, NEW groups \in AccessChoices[t], Register(t, groups)
      PROVE  GoneInv'
  BY <1>1, <1>6 DEF Register
<1>7. ASSUME NEW c \in Calls, NEW u \in Users, NEW about \in Questions, Ask(c, u, about)
      PROVE  GoneInv'
  BY <1>1, <1>7 DEF Ask
<1>8. ASSUME NEW c \in Calls, NEW t \in Tools, NEW valid \in BOOLEAN, Execute(c, t, valid)
      PROVE  GoneInv'
  BY <1>1, <1>8 DEF Execute
<1>9. ASSUME NEW c \in Calls,
             Logs(c) \/ LogRaises(c) \/ RunSearch(c) \/ RunOther(c) \/ ToolRaises(c)
      PROVE  GoneInv'
  BY <1>1, <1>9 DEF Logs, LogRaises, RunSearch, RunOther, ToolRaises
<1>. QED
  BY <1>2, <1>3, <1>4, <1>5, <1>6, <1>7, <1>8, <1>9 DEF Next

\* What PagesKeepTheirWord says of the /memories page and the context.
MemoriesShown ==
    /\ \A query \in Questions : ToSet(ContextFor(query)) \cap gone = {}
    /\ ToSet(MemoriesPage) \cap gone = {}
    /\ \A kind \in {toolIds, (1..issued) \ toolIds} :
           LET shown == ToSet(MemoriesPage) \cap kind
               held  == (Ids(memories) \cup Ids(texts)) \cap kind
           IN  /\ Cardinality(shown) = (IF Cardinality(held) < ListLimit THEN Cardinality(held) ELSE ListLimit)
               /\ \A id \in shown, other \in held \ shown : other < id

LEMMA NewestAreShown ==
    ASSUME MemoryInv, GoneInv
    PROVE  MemoriesShown
<1> DEFINE tools == Recent(memories, ListLimit)
           notes == Recent(texts, ListLimit)
<1>1. (\A k \in KeptTool : k.id \in Int) /\ (\A k \in Kept : k.id \in Int)
  BY IdsAreNumbers
<1>2. /\ memories \in Seq(KeptTool) /\ Ordered(memories) /\ Ids(memories) \subseteq toolIds
      /\ texts \in Seq(Kept) /\ Ordered(texts) /\ Ids(texts) \subseteq (1..issued) \ toolIds
  BY DEF MemoryInv, NewestOf
<1>3. ListLimit \in Nat /\ ContextLimit \in Nat
  BY ToolUseAssumption
<1>4. /\ tools \in Seq(Int) /\ ToSet(tools) \subseteq Ids(memories)
      /\ Cardinality(ToSet(tools)) = (IF Cardinality(Ids(memories)) < ListLimit
                                      THEN Cardinality(Ids(memories)) ELSE ListLimit)
      /\ \A id \in ToSet(tools), other \in Ids(memories) \ ToSet(tools) : other < id
  BY <1>1, <1>2, <1>3, RecentProperties
<1>5. /\ notes \in Seq(Int) /\ ToSet(notes) \subseteq Ids(texts)
      /\ Cardinality(ToSet(notes)) = (IF Cardinality(Ids(texts)) < ListLimit
                                      THEN Cardinality(Ids(texts)) ELSE ListLimit)
      /\ \A id \in ToSet(notes), other \in Ids(texts) \ ToSet(notes) : other < id
  BY <1>1, <1>2, <1>3, RecentProperties
<1>6. ToSet(MemoriesPage) = ToSet(notes) \cup ToSet(tools)
  <2>1. MemoriesPage = notes \o tools
    BY DEF MemoriesPage
  <2>. HIDE DEF notes, tools
  <2>. QED
    BY <1>4, <1>5, <2>1, ToSetOfBoth
<1>. HIDE DEF notes, tools
<1>7. /\ ToSet(MemoriesPage) \cap toolIds = ToSet(tools)
      /\ (Ids(memories) \cup Ids(texts)) \cap toolIds = Ids(memories)
      /\ ToSet(MemoriesPage) \cap ((1..issued) \ toolIds) = ToSet(notes)
      /\ (Ids(memories) \cup Ids(texts)) \cap ((1..issued) \ toolIds) = Ids(texts)
  <2>. DEFINE others == (1..issued) \ toolIds
  <2>1. others \cap toolIds = {}
    OBVIOUS
  <2>2. Ids(texts) \subseteq others
    BY <1>2
  <2>. HIDE DEF others
  <2>3. /\ ToSet(MemoriesPage) \cap toolIds = ToSet(tools)
        /\ (Ids(memories) \cup Ids(texts)) \cap toolIds = Ids(memories)
        /\ ToSet(MemoriesPage) \cap others = ToSet(notes)
        /\ (Ids(memories) \cup Ids(texts)) \cap others = Ids(texts)
    BY <1>2, <1>4, <1>5, <1>6, <2>1, <2>2
  <2>. QED
    BY <2>3 DEF others
<1>8. ToSet(MemoriesPage) \cap gone = {}
  BY <1>4, <1>5, <1>6 DEF GoneInv, Held
<1>9. ASSUME NEW query \in Questions PROVE ToSet(ContextFor(query)) \cap gone = {}
  <2>1. ToSet(ContextFor(query)) \subseteq Ids(texts)
    BY <1>2, <1>3, FoundAreHeld DEF ContextFor, SearchTextMemories
  <2>. QED
    BY <2>1 DEF GoneInv, Held
<1>. DEFINE Shows(kind) ==
           LET shown == ToSet(MemoriesPage) \cap kind
               held  == (Ids(memories) \cup Ids(texts)) \cap kind
           IN  /\ Cardinality(shown) = (IF Cardinality(held) < ListLimit THEN Cardinality(held) ELSE ListLimit)
               /\ \A id \in shown, other \in held \ shown : other < id
<1>10. Shows(toolIds)
  BY <1>4, <1>7
<1>11. Shows((1..issued) \ toolIds)
  BY <1>5, <1>7
<1>. HIDE DEF Shows
<1>12. \A kind \in {toolIds, (1..issued) \ toolIds} : Shows(kind)
  BY <1>10, <1>11
<1>. QED
  BY <1>8, <1>9, <1>12 DEF MemoriesShown, Shows

\* What it says of the setup pages of u.
SetupShown(u) ==
    LET page == StatusPage(u)  starter == StarterUi(u)
        green == {card \in DOMAIN page.cards : page.cards[card] = "success"}
    IN  /\ page.verdict = "excellent" <=> green = {"sql", "memory", "viz"}
        /\ page.verdict = "excellent" <=> page.guidance = {}
        /\ page.guidance \cap green = {}
        /\ "sql" \in green <=> \E t \in SqlTools : Runs(u, t)
        /\ "memory" \in green <=> Runs(u, SearchTool) /\ Runs(u, SaveTool)
        /\ page.memoryLine = "complete" <=> "memory" \in green
        /\ starter.status = "success" => {"sql", "memory"} \subseteq green
        /\ starter.status \in {"error", "setup required"} <=> page.verdict = "action"
        /\ starter.buttons \subseteq Commands(u)

\* The cards of an analysis: which are green, and what goes with them.
Green(cards) == {card \in DOMAIN cards : cards[card] = "success"}

LEMMA GreenCards ==
    ASSUME NEW a
    PROVE  Green(StatusCards(a)) = (IF a.sql THEN {"sql"} ELSE {})
               \cup (IF a.memory THEN {"memory"} ELSE {}) \cup (IF a.viz THEN {"viz"} ELSE {})
<1> DEFINE cards == StatusCards(a)
<1>1. /\ DOMAIN cards = {"sql", "memory", "viz"}
      /\ cards["sql"] = IF a.sql THEN "success" ELSE "error"
      /\ cards["memory"] = IF a.memory THEN "success" ELSE "warning"
      /\ cards["viz"] = IF a.viz THEN "success" ELSE "info"
  BY DEF StatusCards
<1>. HIDE DEF cards
<1>. QED
  BY <1>1 DEF Green, cards

LEMMA SetupIsShown ==
    ASSUME NEW u
    PROVE  SetupShown(u)
<1> DEFINE a == AnalyzeSetup(GetSchemas(u))
           page == StatusPage(u)
           starter == StarterUi(u)
           green == Green(page.cards)
<1>1. /\ a.sql \in BOOLEAN /\ a.memory \in BOOLEAN /\ a.viz \in BOOLEAN
      /\ a.complete = (a.sql /\ a.memory /\ a.viz)
  BY DEF AnalyzeSetup
<1>2. a.sql <=> \E t \in SqlTools : Runs(u, t)
  BY DEF AnalyzeSetup, GetSchemas, Runs
<1>3. a.memory <=> Runs(u, SearchTool) /\ Runs(u, SaveTool)
  BY DEF AnalyzeSetup, GetSchemas, Runs
<1>4. /\ page.verdict = IF a.complete THEN "excellent" ELSE IF a.sql THEN "good" ELSE "action"
      /\ page.memoryLine = IF a.memory THEN "complete" ELSE IF a.partial THEN "incomplete" ELSE "missing"
      /\ page.cards = StatusCards(a)
      /\ page.guidance = Guidance(a)
  BY DEF StatusPage
<1>5. starter = IF Admin(u) THEN AdminCard(a) ELSE UserCard(a)
  BY DEF StarterUi
<1>. HIDE DEF a, page, starter
<1>6. green = (IF a.sql THEN {"sql"} ELSE {})
          \cup (IF a.memory THEN {"memory"} ELSE {}) \cup (IF a.viz THEN {"viz"} ELSE {})
  BY <1>4, GreenCards
<1>. HIDE DEF green
<1>7. /\ "sql" \in green <=> a.sql
      /\ "memory" \in green <=> a.memory
      /\ "viz" \in green <=> a.viz
      /\ green \subseteq {"sql", "memory", "viz"}
  BY <1>6
<1>8. page.verdict = "excellent" <=> green = {"sql", "memory", "viz"}
  <2>1. page.verdict = "excellent" <=> a.sql /\ a.memory /\ a.viz
    BY <1>1, <1>4
  <2>2. green = {"sql", "memory", "viz"} <=> a.sql /\ a.memory /\ a.viz
    BY <1>7
  <2>. QED
    BY <2>1, <2>2
<1>9. page.verdict = "excellent" <=> page.guidance = {}
  BY <1>1, <1>4 DEF Guidance
<1>10. page.guidance \cap green = {}
  BY <1>4, <1>7 DEF Guidance
<1>11. page.memoryLine = "complete" <=> "memory" \in green
  BY <1>4, <1>7
<1>12. starter.status = IF Admin(u) THEN (IF ~a.sql THEN "error" ELSE IF a.memory THEN "success" ELSE "warning")
                        ELSE (IF a.sql THEN "welcome" ELSE "setup required")
  BY <1>5 DEF AdminCard, UserCard
<1>13. starter.status = "success" => {"sql", "memory"} \subseteq green
  BY <1>7, <1>12
<1>14. starter.status \in {"error", "setup required"} <=> page.verdict = "action"
  <2>1. starter.status \in {"error", "setup required"} <=> ~a.sql
    BY <1>12
  <2>2. page.verdict = "action" <=> ~a.sql
    BY <1>1, <1>4
  <2>. QED
    BY <2>1, <2>2
<1>15. starter.buttons \subseteq Commands(u)
  BY <1>5 DEF AdminCard, UserCard, Commands
<1>. QED
  BY <1>2, <1>3, <1>7, <1>8, <1>9, <1>10, <1>11, <1>13, <1>14, <1>15
     DEF SetupShown, Green, green, page, starter

\* Whatever is registered, saved, evicted, deleted and cleared, the pages and
\* cards of DefaultWorkflowHandler say what is so, and neither they nor the
\* enhancer's context bring back a memory that was deleted.
THEOREM PagesAreTrue == Spec => []PagesKeepTheirWord
<1>1. IInv /\ GoneInv => PagesKeepTheirWord
  <2> SUFFICES ASSUME IInv, GoneInv PROVE PagesKeepTheirWord
    OBVIOUS
  <2>1. MemoriesShown
    BY NewestAreShown DEF IInv
  <2>2. \A u \in Users : SetupShown(u)
    BY SetupIsShown
  <2>. QED
    BY <2>1, <2>2 DEF PagesKeepTheirWord, MemoriesShown, SetupShown
<1>2. Init => GoneInv
  BY GoneBegins
<1>3. IInv /\ GoneInv /\ [Next]_vars => GoneInv'
  BY GoneStaysOut
<1>. QED
  BY Invariance, <1>1, <1>2, <1>3, PTL DEF Spec

==============================================================================

------------------------------ MODULE PartsProofs ------------------------------
(***************************************************************************)
(* Theorems about the parts that share no state: each is proved of its own *)
(* steps, for any constants the assumptions of Parts allow, and holds in   *)
(* Parts, where a step is one of a single part.                            *)
(***************************************************************************)
EXTENDS Parts, OperatorProofs
------------------------------------------------------------------------------
\* Whatever happens is a step of a part, or leaves it as it is.
LEMMA StepsOfParts ==
    ASSUME [Next]_vars
    PROVE  /\ [Catalog!Next]_catalogVars
           /\ [Migration!Next]_importVars
           /\ [Slots!Next]_gateVars
           /\ [Analysis!Next]_runVars
           /\ [ModelCalls!Next]_requestVars
           /\ [Browser!SearchNext]_searchVars
           /\ [Browser!StreamNext]_streamVars
           /\ [Evaluation!Next]_comparisonVars
<1>1. CASE UNCHANGED vars
  BY <1>1 DEF vars
<1>2. CASE InCatalog
  BY <1>2 DEF InCatalog
<1>3. CASE InImport
  BY <1>3 DEF InImport
<1>4. CASE InGate
  BY <1>4 DEF InGate
<1>5. CASE InRun
  BY <1>5 DEF InRun
<1>6. CASE InRequest
  BY <1>6 DEF InRequest
<1>7. CASE InSearch
  <2>1. Browser!SearchNext => UNCHANGED streamVars
    BY DEF Browser!SearchNext, Browser!Type, Browser!Search, Browser!Listed, Browser!SearchFails,
           Browser!streamVars, streamVars
  <2>. QED
    BY <1>7, <2>1 DEF InSearch
<1>8. CASE InStream
  <2>1. Browser!StreamNext => UNCHANGED searchVars
    BY DEF Browser!StreamNext, Browser!Send, Browser!Emit, Browser!Close, Browser!Put,
           Browser!Break, Browser!Read, Browser!Over, Browser!searchVars, searchVars
  <2>. QED
    BY <1>8, <2>1 DEF InStream
<1>9. CASE InComparison
  BY <1>9 DEF InComparison
<1>. QED
  BY <1>1, <1>2, <1>3, <1>4, <1>5, <1>6, <1>7, <1>8, <1>9 DEF Next

\* The library that a part brings along is the library.
LEMMA SameKeep ==
    /\ \A D : Migration!InOrder(D) = InOrder(D) /\ Browser!InOrder(D) = InOrder(D)
    /\ \A s, D : Browser!Keep(s, D) = Keep(s, D) /\ ModelCalls!Keep(s, D) = Keep(s, D)
  BY DEF InOrder, Keep, Nth, Rank, Cardinality, IsFiniteSet,
         Migration!InOrder, Migration!Nth, Migration!Rank,
         Migration!Cardinality, Migration!IsFiniteSet,
         Browser!InOrder, Browser!Keep, Browser!Nth, Browser!Rank,
         Browser!Cardinality, Browser!IsFiniteSet,
         ModelCalls!Keep, ModelCalls!Nth, ModelCalls!Rank,
         ModelCalls!Cardinality, ModelCalls!IsFiniteSet
------------------------------------------------------------------------------
(***************************************************************************)
(* The cache migration: any files, questions and keys, however often it is *)
(* run                                                                     *)
(***************************************************************************)

\* A file to import is a number above 0, and its key one of the table's.
LEMMA ImportedIs ==
    \A f \in Migration!Importable :
        /\ f \in Files /\ f \in Nat /\ f > 0
        /\ QuestionIn[f] \in Migration!Questions /\ Migration!KeyIn(f) \in Migration!Keys
<1>1. PICK n \in Nat : Files = 1..n
  BY MigrationAssumption, FS_CardinalityType
<1>. QED
  BY <1>1, MigrationAssumption
     DEF Migration!Importable, Migration!KeyIn, Migration!Keys, Migration!Questions

LEMMA ImportTyped ==
    /\ Migration!Init => Migration!TypeOK
    /\ Migration!TypeOK /\ [Migration!Next]_importVars => Migration!TypeOK'
<1>0. Migration!Empty \in [Migration!Keys -> Migration!Importable \cup {Migration!NoRow}]
  BY DEF Migration!Empty
<1>1. Migration!Init => Migration!TypeOK
  <2> SUFFICES ASSUME Migration!Init PROVE Migration!TypeOK
    OBVIOUS
  <2>1. scriptRuns \in 0..MaxRuns
    BY MigrationAssumption DEF Migration!Init
  <2>2. logged \in [Migration!Questions -> Nat] /\ noted \in [Migration!Questions -> Nat]
    BY DEF Migration!Init
  <2>3. todo \in Seq(Files)
    BY EmptySeq DEF Migration!Init
  <2>4. stored \in [Migration!Keys -> Migration!Importable \cup {Migration!NoRow, Migration!Live}]
    BY DEF Migration!Init, Migration!Empty
  <2>. QED
    BY <1>0, <2>1, <2>2, <2>3, <2>4 DEF Migration!Init, Migration!TypeOK
<1>2. ASSUME Migration!TypeOK, Migration!Start PROVE Migration!TypeOK'
  <2>1. PICK n \in Nat : Files = 1..n
    BY MigrationAssumption, FS_CardinalityType
  <2>2. todo' = InOrder(onDisk) /\ onDisk \in SUBSET (1..n)
    BY <1>2, <2>1, SameKeep DEF Migration!Start, Migration!TypeOK
  <2>3. onDisk \subseteq Files
    BY <1>2 DEF Migration!TypeOK
  <2>4. todo' \in Seq(Files)
    BY <2>2, <2>3, InOrderTyped
  <2>5. scriptRuns' \in 0..MaxRuns
    BY <1>2, MigrationAssumption DEF Migration!Start, Migration!TypeOK
  <2>. QED
    BY <1>2, <2>4, <2>5 DEF Migration!Start, Migration!TypeOK
<1>3. ASSUME Migration!TypeOK, Migration!Import PROVE Migration!TypeOK'
  <2> DEFINE f == Head(todo)
  <2>1. f \in Files /\ Tail(todo) \in Seq(Files)
    BY <1>3, HeadTailProperties DEF Migration!Import, Migration!TypeOK
  <2>. HIDE DEF f
  <2>2. QuestionIn[f] # NoQuestion => f \in Migration!Importable
    BY <2>1 DEF Migration!Importable
  <2>3. CASE QuestionIn[f] = NoQuestion
    BY <1>3, <2>1, <2>3 DEF f, Migration!Import, Migration!TypeOK
  <2>4. CASE QuestionIn[f] # NoQuestion
    <3>1. /\ written' = [written EXCEPT ![Migration!KeyIn(f)] = f]
          /\ onDisk' \subseteq onDisk /\ unlinked' \subseteq unlinked \cup {f}
          /\ noted' \in {noted, [noted EXCEPT ![QuestionIn[f]] = 1]}
      BY <1>3, <2>4 DEF f, Migration!Import, Migration!Removes
    <3>2. written' \in [Migration!Keys -> Migration!Importable \cup {Migration!NoRow}]
      BY <1>3, <2>2, <2>4, <3>1 DEF Migration!TypeOK
    <3>3. noted' \in [Migration!Questions -> Nat]
      BY <1>3, <3>1 DEF Migration!TypeOK
    <3>4. onDisk' \subseteq Files /\ unlinked' \subseteq Migration!Importable
      BY <1>3, <2>2, <2>4, <3>1 DEF Migration!TypeOK
    <3>. QED
      BY <1>3, <2>1, <3>2, <3>3, <3>4 DEF f, Migration!Import, Migration!TypeOK
  <2>. QED
    BY <2>3, <2>4
<1>4. ASSUME Migration!TypeOK, Migration!Commit PROVE Migration!TypeOK'
  <2>1. logged' \in [Migration!Questions -> Nat] /\ noted' \in [Migration!Questions -> Nat]
    BY <1>4 DEF Migration!Commit, Migration!Over, Migration!TypeOK
  <2>2. stored' \in [Migration!Keys -> Migration!Importable \cup {Migration!NoRow, Migration!Live}]
    BY <1>4 DEF Migration!Commit, Migration!Now, Migration!TypeOK
  <2>. QED
    BY <1>0, <1>4, <2>1, <2>2 DEF Migration!Commit, Migration!Over, Migration!TypeOK
<1>5. ASSUME Migration!TypeOK, Migration!Fails PROVE Migration!TypeOK'
  <2>1. noted' \in [Migration!Questions -> Nat]
    BY <1>5 DEF Migration!Fails, Migration!Over
  <2>2. orphaned' \subseteq Migration!Importable
    BY <1>5 DEF Migration!Fails, Migration!TypeOK
  <2>3. todo' \in Seq(Files)
    BY <1>5, EmptySeq DEF Migration!Fails, Migration!Over
  <2>. QED
    BY <1>0, <1>5, <2>1, <2>2, <2>3 DEF Migration!Fails, Migration!Over, Migration!TypeOK
<1>6. ASSUME Migration!TypeOK, Migration!LivePut PROVE Migration!TypeOK'
  <2>1. stored' \in [Migration!Keys -> Migration!Importable \cup {Migration!NoRow, Migration!Live}]
    BY <1>6 DEF Migration!LivePut, Migration!TypeOK
  <2>. QED
    BY <1>6, <2>1 DEF Migration!LivePut, Migration!TypeOK
<1>7. ASSUME Migration!TypeOK, UNCHANGED importVars PROVE Migration!TypeOK'
  BY <1>7 DEF importVars, Migration!TypeOK
<1>. QED
  BY <1>1, <1>2, <1>3, <1>4, <1>5, <1>6, <1>7 DEF Migration!Next

\* What a run has noted but not committed is of questions it has written, and
\* of none that is in the log; what is in the log has an answer.
NotedInv ==
    \A q \in Migration!Questions :
        /\ logged[q] + noted[q] <= 1
        /\ noted[q] = 1 => written[KeyOf[q]] # Migration!NoRow
        /\ logged[q] = 1 => stored[KeyOf[q]] # Migration!NoRow

\* A run reads files that are there, in their order; one that removes files has
\* all that are left still before it.
TodoInv ==
    /\ \A i \in 1..Len(todo) : todo[i] \in onDisk
    /\ \A i, j \in 1..Len(todo) : i < j => todo[i] < todo[j]
    /\ importing /\ deleting => \A f \in Migration!Importable \cap onDisk : \E i \in 1..Len(todo) : todo[i] = f
    /\ ~importing => written = Migration!Empty /\ unlinked = {} /\ todo = <<>>

Gone == Migration!Importable \ onDisk

\* Files go in their order, so what is written is never older than what is gone.
GoneInv ==
    /\ \A f \in Gone, g \in Migration!Importable \cap onDisk : f < g
    /\ \A f \in Gone : written[Migration!KeyIn(f)] # Migration!NoRow => f <= written[Migration!KeyIn(f)]
    /\ \A k \in Migration!Keys : written[k] # Migration!NoRow =>
           written[k] \in Migration!Importable /\ Migration!KeyIn(written[k]) = k
    /\ \A f \in unlinked : written[Migration!KeyIn(f)] # Migration!NoRow
    /\ \A f \in Gone \ (orphaned \cup unlinked) : Migration!StandsFor(stored[Migration!KeyIn(f)], f)

ImportInv == Migration!TypeOK /\ NotedInv /\ TodoInv /\ GoneInv

LEMMA ImportBegins == Migration!Init => ImportInv
<1> SUFFICES ASSUME Migration!Init PROVE ImportInv
  OBVIOUS
<1>1. /\ logged = [q \in Migration!Questions |-> 0] /\ noted = [q \in Migration!Questions |-> 0]
      /\ todo = <<>> /\ Len(todo) = 0 /\ ~importing /\ unlinked = {}
      /\ written = Migration!Empty /\ onDisk = Files
  BY DEF Migration!Init
<1>2. Gone = {}
  BY <1>1, ImportedIs DEF Gone
<1>3. \A k \in Migration!Keys : written[k] = Migration!NoRow
  BY <1>1 DEF Migration!Empty
<1>. QED
  BY <1>1, <1>2, <1>3, ImportTyped DEF ImportInv, NotedInv, TodoInv, GoneInv

LEMMA StartKeeps == ASSUME ImportInv, Migration!Start PROVE NotedInv' /\ TodoInv' /\ GoneInv'
<1>1. /\ onDisk' = onDisk /\ stored' = stored /\ logged' = logged /\ written' = written
      /\ noted' = noted /\ unlinked' = unlinked /\ orphaned' = orphaned /\ importing'
      /\ todo' = InOrder(onDisk)
  BY SameKeep DEF Migration!Start
<1>2. NotedInv' /\ GoneInv'
  BY <1>1 DEF ImportInv, NotedInv, GoneInv, Gone
<1>3. PICK n \in Nat : Files = 1..n
  BY MigrationAssumption, FS_CardinalityType
<1>4. onDisk \in SUBSET (1..n)
  BY <1>3 DEF ImportInv, Migration!TypeOK
<1>5. /\ Cardinality(onDisk) \in Nat /\ Len(todo') = Cardinality(onDisk)
      /\ \A i \in 1..Len(todo') : todo'[i] = Nth(onDisk, i)
  BY <1>1, <1>4, InOrderTyped
<1>6. /\ \A i \in 1..Len(todo') : todo'[i] \in onDisk
      /\ \A i, j \in 1..Len(todo') : i < j => todo'[i] < todo'[j]
  BY <1>4, <1>5, NthIs, NthOrders
<1>7. ASSUME NEW f \in onDisk PROVE \E i \in 1..Len(todo') : todo'[i] = f
  <2>1. Rank(onDisk, f) \in 1..Len(todo') /\ Nth(onDisk, Rank(onDisk, f)) = f
    BY <1>4, <1>5, NthOfRank
  <2>. QED
    BY <1>5, <2>1
<1>. QED
  BY <1>1, <1>2, <1>6, <1>7 DEF TodoInv

\* The first of the files to read, and the rest.
LEMMA HeadOfTodo ==
    ASSUME ImportInv, Migration!Import
    PROVE  /\ Head(todo) \in onDisk /\ Head(todo) \in Files /\ importing
           /\ Len(todo') \in Nat
           /\ \A i \in 1..Len(todo') : i + 1 \in 1..Len(todo) /\ todo'[i] = todo[i + 1] /\ Head(todo) < todo'[i]
           /\ \A i \in 1..Len(todo) : i = 1 \/ (i - 1 \in 1..Len(todo') /\ todo'[i - 1] = todo[i])
           /\ todo[1] = Head(todo)
<1>1. todo \in Seq(Files) /\ todo # <<>> /\ todo' = Tail(todo) /\ onDisk \subseteq Files
  BY DEF Migration!Import, ImportInv, Migration!TypeOK
<1>2. /\ Len(todo) \in Nat /\ Len(todo) > 0 /\ Len(todo') = Len(todo) - 1 /\ Head(todo) = todo[1]
      /\ \A i \in 1..Len(todo') : todo'[i] = todo[i + 1]
  BY <1>1, HeadTailProperties, LenProperties, EmptySeq
<1>3. 1 \in 1..Len(todo) /\ \A i \in 1..Len(todo') : i + 1 \in 1..Len(todo) /\ 1 < i + 1
  BY <1>2
<1>4. \A i \in 1..Len(todo) : i = 1 \/ (i - 1 \in 1..Len(todo') /\ todo'[i - 1] = todo[i])
  <2>1. ASSUME NEW i \in 1..Len(todo), i # 1 PROVE i - 1 \in 1..Len(todo') /\ i - 1 + 1 = i
    BY <1>2, <2>1
  <2>. QED
    BY <1>2, <2>1
<1>5. importing
  <2>1. importing \/ todo = <<>>
    BY DEF ImportInv, TodoInv
  <2>. QED
    BY <1>1, <2>1
<1>. QED
  BY <1>1, <1>2, <1>3, <1>4, <1>5 DEF ImportInv, TodoInv

\* An import is of one question and one file.
LEMMA ImportKeeps == ASSUME ImportInv, Migration!Import PROVE NotedInv' /\ TodoInv' /\ GoneInv'
<1> DEFINE f == Head(todo)
           q == QuestionIn[f]
           k == Migration!KeyIn(f)
<1>1. /\ stored' = stored /\ logged' = logged /\ importing' = importing
      /\ deleting' = deleting /\ orphaned' = orphaned
  BY DEF Migration!Import
<1>2. CASE q = NoQuestion
  <2>1. written' = written /\ noted' = noted /\ onDisk' = onDisk /\ unlinked' = unlinked
    BY <1>2 DEF Migration!Import
  <2>2. NotedInv' /\ GoneInv'
    BY <1>1, <2>1 DEF ImportInv, NotedInv, GoneInv, Gone
  <2>3. f \notin Migration!Importable
    BY <1>2 DEF Migration!Importable
  <2>. HIDE DEF f
  <2>4. TodoInv'
    BY <1>1, <2>1, <2>3, HeadOfTodo DEF f, ImportInv, TodoInv
  <2>. QED
    BY <2>2, <2>4
<1>3. CASE q # NoQuestion
  <2>1. /\ written' = [written EXCEPT ![k] = f]
        /\ noted' = IF logged[q] + noted[q] = 0 THEN [noted EXCEPT ![q] = 1] ELSE noted
        /\ onDisk' = IF deleting THEN onDisk \ {f} ELSE onDisk
        /\ unlinked' = IF deleting THEN unlinked \cup {f} ELSE unlinked
    BY <1>3 DEF Migration!Import, Migration!Removes
  <2>2. /\ f \in Migration!Importable /\ f \in onDisk /\ f \in Nat /\ f # Migration!NoRow
        /\ k \in Migration!Keys /\ q \in Migration!Questions /\ k = KeyOf[q]
    <3>1. f \in Files /\ f \in onDisk
      BY HeadOfTodo
    <3>. QED
      BY <1>3, <3>1, ImportedIs DEF Migration!Importable, Migration!NoRow, Migration!KeyIn
  <2>. HIDE DEF f, q
  <2>3. /\ written'[k] = f
        /\ \A h \in Migration!Keys : h # k => written'[h] = written[h]
    BY <2>1, <2>2 DEF ImportInv, Migration!TypeOK
  <2>. HIDE DEF k
  <2>4. NotedInv'
    <3>1. ASSUME NEW r \in Migration!Questions
          PROVE  /\ logged[r] + noted'[r] <= 1
                 /\ noted'[r] = 1 => written'[KeyOf[r]] # Migration!NoRow
      <4>0. KeyOf[r] \in Migration!Keys
        BY DEF Migration!Keys
      <4>1. CASE r = q /\ logged[q] + noted[q] = 0
        <5>1. noted'[r] = 1 /\ logged[r] = 0
          BY <2>1, <4>1 DEF ImportInv, Migration!TypeOK
        <5>. QED
          BY <2>2, <2>3, <4>1, <5>1
      <4>2. CASE ~(r = q /\ logged[q] + noted[q] = 0)
        <5>1. noted'[r] = noted[r]
          BY <2>1, <4>2 DEF ImportInv, Migration!TypeOK
        <5>. QED
          BY <2>2, <2>3, <4>0, <5>1 DEF ImportInv, NotedInv
      <4>. QED
        BY <4>1, <4>2
    <3>. QED
      BY <1>1, <3>1 DEF ImportInv, NotedInv
  <2>5. TodoInv'
    <3>1. \A i \in 1..Len(todo') : todo'[i] \in onDisk'
      <4>1. ASSUME NEW i \in 1..Len(todo') PROVE todo'[i] \in onDisk /\ todo'[i] # f
        <5>1. i + 1 \in 1..Len(todo) /\ todo'[i] = todo[i + 1] /\ f < todo'[i]
          BY HeadOfTodo DEF f
        <5>2. todo'[i] \in onDisk
          BY <5>1 DEF ImportInv, TodoInv
        <5>. QED
          BY <2>2, <5>1, <5>2
      <4>. QED
        BY <2>1, <4>1
    <3>2. \A i, j \in 1..Len(todo') : i < j => todo'[i] < todo'[j]
      <4>1. ASSUME NEW i \in 1..Len(todo'), NEW j \in 1..Len(todo'), i < j
            PROVE  i + 1 \in 1..Len(todo) /\ j + 1 \in 1..Len(todo) /\ i + 1 < j + 1
        BY <4>1, HeadOfTodo
      <4>. QED
        BY <4>1, HeadOfTodo DEF ImportInv, TodoInv
    <3>3. importing' /\ deleting' =>
              \A g \in Migration!Importable \cap onDisk' : \E i \in 1..Len(todo') : todo'[i] = g
      <4> SUFFICES ASSUME importing, deleting, NEW g \in Migration!Importable \cap onDisk, g # f
                   PROVE  \E i \in 1..Len(todo') : todo'[i] = g
        BY <1>1, <2>1
      <4>1. PICK i \in 1..Len(todo) : todo[i] = g
        BY DEF ImportInv, TodoInv
      <4>2. i - 1 \in 1..Len(todo') /\ todo'[i - 1] = g
        BY <4>1, HeadOfTodo DEF f
      <4>. QED
        BY <4>2
    <3>. QED
      BY <1>1, <3>1, <3>2, <3>3, HeadOfTodo DEF TodoInv
  <2>6. GoneInv'
    <3>1. \A g \in Gone' : g \in Gone \/ (g = f /\ deleting)
      BY <2>1 DEF Gone
    <3>2. \A g \in Gone' : g <= f
      BY <2>2, <3>1, ImportedIs DEF ImportInv, GoneInv, Gone
    <3>3. \A g \in Gone', h \in Migration!Importable \cap onDisk' : g < h
      <4>1. ASSUME NEW h \in Migration!Importable \cap onDisk', deleting PROVE f < h
        <5>1. h \in onDisk /\ h # f
          BY <2>1, <4>1
        <5>2. PICK i \in 1..Len(todo) : todo[i] = h
          BY <4>1, <5>1, HeadOfTodo DEF ImportInv, TodoInv
        <5>3. i # 1
          BY <5>1, <5>2, HeadOfTodo DEF f
        <5>. QED
          BY <5>2, <5>3, HeadOfTodo DEF f
      <4>2. onDisk' \subseteq onDisk
        BY <2>1
      <4>. QED
        BY <3>1, <4>1, <4>2 DEF ImportInv, GoneInv
    <3>4. \A g \in Gone' : written'[Migration!KeyIn(g)] # Migration!NoRow => g <= written'[Migration!KeyIn(g)]
      <4>1. ASSUME NEW g \in Gone', Migration!KeyIn(g) # k,
                   written'[Migration!KeyIn(g)] # Migration!NoRow
            PROVE  g <= written'[Migration!KeyIn(g)]
        <5>1. g \in Gone /\ Migration!KeyIn(g) \in Migration!Keys
          BY <3>1, <4>1, ImportedIs DEF Gone, k
        <5>. QED
          BY <2>3, <4>1, <5>1 DEF ImportInv, GoneInv
      <4>. QED
        BY <2>3, <3>2, <4>1
    <3>5. \A h \in Migration!Keys : written'[h] # Migration!NoRow =>
              written'[h] \in Migration!Importable /\ Migration!KeyIn(written'[h]) = h
      <4>1. Migration!KeyIn(f) = k
        BY DEF k
      <4>. QED
        BY <2>2, <2>3, <4>1 DEF ImportInv, GoneInv
    <3>6. \A g \in unlinked' : written'[Migration!KeyIn(g)] # Migration!NoRow
      <4>1. Migration!KeyIn(f) = k
        BY DEF k
      <4>2. \A g \in unlinked : Migration!KeyIn(g) \in Migration!Keys
        BY ImportedIs DEF ImportInv, Migration!TypeOK
      <4>. QED
        BY <2>1, <2>2, <2>3, <4>1, <4>2 DEF ImportInv, GoneInv
    <3>7. \A g \in Gone' \ (orphaned' \cup unlinked') : g \in Gone \ (orphaned \cup unlinked)
      BY <1>1, <2>1, <3>1
    <3>. QED
      BY <1>1, <3>3, <3>4, <3>5, <3>6, <3>7 DEF ImportInv, GoneInv
  <2>. QED
    BY <2>4, <2>5, <2>6
<1>. QED
  BY <1>2, <1>3

\* A commit leaves nothing to be committed.
LEMMA CommitKeeps == ASSUME ImportInv, Migration!Commit PROVE NotedInv' /\ TodoInv' /\ GoneInv'
<1>1. /\ stored' = [k \in Migration!Keys |-> Migration!Now(k)] /\ onDisk' = onDisk
      /\ logged' = [q \in Migration!Questions |-> logged[q] + noted[q]]
      /\ noted' = [q \in Migration!Questions |-> 0] /\ written' = Migration!Empty
      /\ orphaned' = orphaned /\ unlinked' = {} /\ todo' = <<>> /\ ~importing' /\ Len(todo') = 0
  BY DEF Migration!Commit, Migration!Over
<1>2. \A k \in Migration!Keys : /\ written'[k] = Migration!NoRow
                                /\ stored'[k] = IF written[k] = Migration!NoRow THEN stored[k] ELSE written[k]
  BY <1>1 DEF Migration!Empty, Migration!Now
<1>3. NotedInv'
  <2>1. ASSUME NEW q \in Migration!Questions
        PROVE  /\ logged'[q] + noted'[q] <= 1 /\ noted'[q] # 1
               /\ logged'[q] = 1 => stored'[KeyOf[q]] # Migration!NoRow
    <3>1. logged'[q] = logged[q] + noted[q] /\ noted'[q] = 0 /\ KeyOf[q] \in Migration!Keys
      BY <1>1 DEF Migration!Keys
    <3>2. logged[q] \in Nat /\ noted[q] \in Nat
      BY DEF ImportInv, Migration!TypeOK
    <3>3. logged[q] + noted[q] = 1 => logged[q] = 1 \/ noted[q] = 1
      BY <3>2
    <3>. QED
      BY <1>2, <3>1, <3>2, <3>3 DEF ImportInv, NotedInv
  <2>. QED
    BY <2>1 DEF NotedInv
<1>4. TodoInv'
  BY <1>1 DEF TodoInv
<1>5. GoneInv'
  <2>1. \A f \in Gone : f \in Migration!Importable /\ Migration!KeyIn(f) \in Migration!Keys
    BY ImportedIs DEF Gone
  <2>2. ASSUME NEW f \in Gone, f \notin orphaned
        PROVE  Migration!StandsFor(stored'[Migration!KeyIn(f)], f)
    <3>1. CASE written[Migration!KeyIn(f)] = Migration!NoRow
      BY <1>2, <2>1, <2>2, <3>1 DEF ImportInv, GoneInv
    <3>2. CASE written[Migration!KeyIn(f)] # Migration!NoRow
      <4>1. LET row == written[Migration!KeyIn(f)] IN
                row \in Migration!Importable /\ Migration!KeyIn(row) = Migration!KeyIn(f) /\ f <= row
        BY <2>1, <2>2, <3>2 DEF ImportInv, GoneInv
      <4>2. stored'[Migration!KeyIn(f)] = written[Migration!KeyIn(f)]
        BY <1>2, <2>1, <3>2
      <4>. QED
        BY <2>1, <4>1, <4>2, ImportedIs DEF Migration!StandsFor
    <3>. QED
      BY <3>1, <3>2
  <2>3. Gone' = Gone
    BY <1>1 DEF Gone
  <2>. QED
    BY <1>1, <1>2, <2>1, <2>2, <2>3 DEF ImportInv, GoneInv
<1>. QED
  BY <1>3, <1>4, <1>5

LEMMA FailsKeeps == ASSUME ImportInv, Migration!Fails PROVE NotedInv' /\ TodoInv' /\ GoneInv'
<1>1. /\ stored' = stored /\ onDisk' = onDisk /\ logged' = logged
      /\ noted' = [q \in Migration!Questions |-> 0] /\ written' = Migration!Empty
      /\ orphaned' = orphaned \cup unlinked /\ unlinked' = {} /\ todo' = <<>> /\ ~importing'
      /\ Len(todo') = 0
  BY DEF Migration!Fails, Migration!Over
<1>2. \A k \in Migration!Keys : written'[k] = Migration!NoRow
  BY <1>1 DEF Migration!Empty
<1>3. NotedInv'
  <2>1. \A q \in Migration!Questions : noted'[q] = 0 /\ logged[q] \in Nat /\ noted[q] \in Nat
    BY <1>1 DEF ImportInv, Migration!TypeOK
  <2>. QED
    BY <1>1, <2>1 DEF ImportInv, NotedInv
<1>4. GoneInv'
  <2>1. \A f \in Gone : Migration!KeyIn(f) \in Migration!Keys
    BY ImportedIs DEF Gone
  <2>2. Gone' = Gone
    BY <1>1 DEF Gone
  <2>. QED
    BY <1>1, <1>2, <2>1, <2>2 DEF ImportInv, GoneInv
<1>. QED
  BY <1>1, <1>3, <1>4 DEF TodoInv

LEMMA LivePutKeeps == ASSUME ImportInv, Migration!LivePut PROVE NotedInv' /\ TodoInv' /\ GoneInv'
<1>1. PICK k \in Migration!Keys : stored' = [stored EXCEPT ![k] = Migration!Live]
  BY DEF Migration!LivePut
<1>2. UNCHANGED <<onDisk, logged, deleting, importing, todo, written, noted, unlinked, orphaned>>
  BY DEF Migration!LivePut
<1>3. \A h \in Migration!Keys : stored'[h] \in {stored[h], Migration!Live}
  BY <1>1 DEF ImportInv, Migration!TypeOK
<1>4. Migration!Live # Migration!NoRow
  BY DEF Migration!Live, Migration!NoRow
<1>5. NotedInv'
  <2>1. \A q \in Migration!Questions : KeyOf[q] \in Migration!Keys
    BY DEF Migration!Keys
  <2>. QED
    BY <1>2, <1>3, <1>4, <2>1 DEF ImportInv, NotedInv
<1>6. GoneInv'
  <2>1. Gone' = Gone /\ \A f \in Gone : Migration!KeyIn(f) \in Migration!Keys
    BY <1>2, ImportedIs DEF Gone
  <2>2. \A f \in Gone \ (orphaned \cup unlinked) : Migration!StandsFor(stored'[Migration!KeyIn(f)], f)
    BY <1>3, <2>1 DEF ImportInv, GoneInv, Migration!StandsFor
  <2>. QED
    BY <1>2, <2>1, <2>2 DEF ImportInv, GoneInv
<1>. QED
  BY <1>2, <1>5, <1>6 DEF ImportInv, TodoInv

LEMMA ImportStep == ASSUME ImportInv, [Migration!Next]_importVars PROVE ImportInv'
<1>1. Migration!TypeOK'
  BY ImportTyped DEF ImportInv
<1>2. CASE UNCHANGED importVars
  BY <1>1, <1>2 DEF importVars, ImportInv, NotedInv, TodoInv, GoneInv, Gone
<1>3. CASE Migration!Next
  BY <1>1, <1>3, StartKeeps, ImportKeeps, CommitKeeps, FailsKeeps, LivePutKeeps
     DEF Migration!Next, ImportInv
<1>. QED
  BY <1>2, <1>3

\* However often migrate_answer_cache.py is run, and whenever it dies, it notes
\* a question once and none that has no answer, and a file it has removed has under
\* its key its own answer, a later file's or the application's: except the files
\* removed by a run that then failed.
THEOREM ImportsAreSafe == Spec => []ImportIsSafe
<1>1. Init => ImportInv
  BY ImportBegins DEF Init
<1>2. ImportInv /\ [Next]_vars => ImportInv'
  BY ImportStep, StepsOfParts
<1>3. ImportInv => ImportIsSafe
  <2> SUFFICES ASSUME ImportInv PROVE ImportIsSafe
    OBVIOUS
  <2>1. \A q \in Migration!Questions : logged[q] <= 1
    BY DEF ImportInv, NotedInv, Migration!TypeOK
  <2>2. ASSUME NEW f \in Gone, f \notin orphaned
        PROVE  Migration!StandsFor(Migration!Now(Migration!KeyIn(f)), f)
    <3>1. f \in Migration!Importable /\ Migration!KeyIn(f) \in Migration!Keys
      BY ImportedIs DEF Gone
    <3>2. CASE written[Migration!KeyIn(f)] = Migration!NoRow
      BY <2>2, <3>2 DEF ImportInv, GoneInv, Migration!Now
    <3>3. CASE written[Migration!KeyIn(f)] # Migration!NoRow
      <4>1. LET row == written[Migration!KeyIn(f)] IN
                row \in Migration!Importable /\ Migration!KeyIn(row) = Migration!KeyIn(f) /\ f <= row
        BY <2>2, <3>1, <3>3 DEF ImportInv, GoneInv
      <4>. QED
        BY <3>1, <3>3, <4>1, ImportedIs DEF Migration!StandsFor, Migration!Now
    <3>. QED
      BY <3>2, <3>3
  <2>. QED
    BY <2>1, <2>2 DEF ImportIsSafe, Migration!ImportIsSafe, ImportInv, NotedInv, Gone
<1>. QED
  BY <1>1, <1>2, <1>3, PTL DEF Spec
------------------------------------------------------------------------------
(***************************************************************************)
(* The gate: any values, messages and decisions, conversations of any      *)
(* length                                                                  *)
(***************************************************************************)

LEMMA TheSlots == Slots!Slot = {"company", "metric", "period", "basis"}
  BY DEF Slots!Slot, Slots!Order, Slots!Range

\* Merging loses no slot and adds those of what is new.
LEMMA MergeFills ==
    ASSUME NEW state, NEW new
    PROVE  Slots!Filled(Slots!Merge(state, new)) = Slots!Filled(state) \cup Slots!Filled(new)
  BY DEF Slots!Filled, Slots!Merge

\* The slot asked for is one of those that may be asked for.
LEMMA FirstOfIsOne ==
    ASSUME NEW slots, slots \subseteq Slots!Slot, slots # {}
    PROVE  Slots!FirstOf(slots) \in slots
<1> DEFINE IsFirst(i) == Slots!Order[i] \in slots /\ \A j \in 1..(i - 1) : Slots!Order[j] \notin slots
<1>1. DOMAIN Slots!Order = 1..4 /\ Slots!Order[1] = "company" /\ Slots!Order[2] = "metric"
      /\ Slots!Order[3] = "period" /\ Slots!Order[4] = "basis"
  BY DEF Slots!Order
<1>2. \E i \in DOMAIN Slots!Order : IsFirst(i)
  <2>1. CASE "company" \in slots
    <3>1. 1 \in DOMAIN Slots!Order /\ IsFirst(1)
      BY <1>1, <2>1
    <3>. QED
      BY <3>1
  <2>2. CASE "company" \notin slots /\ "metric" \in slots
    <3>1. 2 \in DOMAIN Slots!Order /\ IsFirst(2)
      <4>1. \A j \in 1..(2 - 1) : j = 1
        OBVIOUS
      <4>. QED
        BY <1>1, <2>2, <4>1
    <3>. QED
      BY <3>1
  <2>3. CASE "company" \notin slots /\ "metric" \notin slots /\ "period" \in slots
    <3>1. 3 \in DOMAIN Slots!Order /\ IsFirst(3)
      <4>1. \A j \in 1..(3 - 1) : j = 1 \/ j = 2
        OBVIOUS
      <4>. QED
        BY <1>1, <2>3, <4>1
    <3>. QED
      BY <3>1
  <2>4. CASE slots = {"basis"}
    <3>1. 4 \in DOMAIN Slots!Order /\ IsFirst(4)
      <4>1. \A j \in 1..(4 - 1) : j = 1 \/ j = 2 \/ j = 3
        OBVIOUS
      <4>. QED
        BY <1>1, <2>4, <4>1
    <3>. QED
      BY <3>1
  <2>. QED
    BY <2>1, <2>2, <2>3, <2>4, TheSlots
<1>3. IsFirst(CHOOSE i \in DOMAIN Slots!Order : IsFirst(i))
  BY <1>2
<1>. QED
  BY <1>3 DEF Slots!FirstOf

\* Nothing that is filled is missing.
LEMMA MissingAreEmpty ==
    ASSUME NEW state, NEW message
    PROVE  /\ Slots!MissingSlots(state, message) \subseteq Slots!Slot \ Slots!Filled(state)
           /\ Slots!UnresolvedSlots(state, message) \subseteq Slots!Slot \ Slots!Filled(state)
  BY TheSlots DEF Slots!MissingSlots, Slots!UnresolvedSlots

\* A question about a figure that lacks nothing is complete, or a ranking.
LEMMA CompleteOrRanking ==
    ASSUME NEW state, NEW message, "metric" \in Slots!Filled(state), ~message.ranking,
           Slots!MissingSlots(state, message) = {} \/ Slots!UnresolvedSlots(state, message) = {}
    PROVE  {"company", "period"} \subseteq Slots!Filled(state)
  BY DEF Slots!MissingSlots, Slots!UnresolvedSlots

\* The answers of the gate that are no slots.
LEMMA OtherReplies == "pass" \notin Slots!Slot /\ "own" \notin Slots!Slot
  BY TheSlots

LEMMA PassKeeps ==
    ASSUME Slots!GateAsksWhatIsMissing, NEW message \in Messages, Slots!Pass(message)
    PROVE  Slots!GateAsksWhatIsMissing'
<1> DEFINE merged == Slots!Merge(slotFile, message.slots)
<1>1. /\ slotFile' = merged /\ Slots!MissingSlots(merged, message) = {}
      /\ reply' = "pass" /\ heard' = message
      /\ told' = told \cup Slots!Filled(message.slots)
  BY DEF Slots!Pass, Slots!Hear
<1>2. Slots!Filled(merged) = Slots!Filled(slotFile) \cup Slots!Filled(message.slots)
  BY MergeFills
<1>. HIDE DEF merged
<1>3. told' \subseteq Slots!Filled(slotFile')
  BY <1>1, <1>2 DEF Slots!GateAsksWhatIsMissing
<1>4. "metric" \in Slots!Filled(slotFile') =>
          heard'.ranking \/ {"company", "period"} \subseteq Slots!Filled(slotFile')
  BY <1>1, CompleteOrRanking
<1>. QED
  BY <1>1, <1>3, <1>4, OtherReplies DEF Slots!GateAsksWhatIsMissing, Slots!Filled

LEMMA AskKeeps ==
    ASSUME Slots!GateAsksWhatIsMissing, NEW message \in Messages, Slots!Ask(message)
    PROVE  Slots!GateAsksWhatIsMissing'
<1> DEFINE merged == Slots!Merge(slotFile, message.slots)
           missing == Slots!MissingSlots(merged, message)
<1>1. /\ slotFile' = merged /\ missing # {}
      /\ reply' = Slots!FirstOf(missing)
      /\ told' = told \cup Slots!Filled(message.slots)
  BY DEF Slots!Ask, Slots!Hear
<1>2. Slots!Filled(merged) = Slots!Filled(slotFile) \cup Slots!Filled(message.slots)
  BY MergeFills
<1>3. missing \subseteq Slots!Slot \ Slots!Filled(merged)
  BY MissingAreEmpty
<1>4. reply' \in missing
  BY <1>1, <1>3, FirstOfIsOne
<1>. HIDE DEF merged, missing
<1>5. told' \subseteq Slots!Filled(slotFile')
  BY <1>1, <1>2 DEF Slots!GateAsksWhatIsMissing
<1>. QED
  BY <1>1, <1>3, <1>4, <1>5, OtherReplies DEF Slots!GateAsksWhatIsMissing, Slots!Filled

LEMMA ClarifyKeeps ==
    ASSUME Slots!GateAsksWhatIsMissing, NEW message \in Messages, NEW decision \in Decisions,
           Slots!Clarify(message, decision)
    PROVE  Slots!GateAsksWhatIsMissing'
<1> DEFINE before == Slots!Merge(slotFile, message.slots)
           merged == Slots!Merge(before, decision.slots)
           missing == Slots!MissingSlots(before, message)
           still == Slots!UnresolvedSlots(merged, message)
<1>1. /\ slotFile' = merged /\ missing # {}
      /\ guessed' = Slots!Filled(decision.slots)
      /\ reply' = IF decision.ready /\ still = {} THEN "pass"
                  ELSE IF ~decision.ready /\ decision.asks THEN "own"
                  ELSE Slots!FirstOf(IF still # {} THEN still ELSE missing)
      /\ told' = told \cup Slots!Filled(message.slots) /\ heard' = message
  BY DEF Slots!Clarify, Slots!Hear
<1>2. /\ Slots!Filled(before) = Slots!Filled(slotFile) \cup Slots!Filled(message.slots)
      /\ Slots!Filled(merged) = Slots!Filled(before) \cup Slots!Filled(decision.slots)
  BY MergeFills
<1>3. missing \subseteq Slots!Slot \ Slots!Filled(before) /\ still \subseteq Slots!Slot \ Slots!Filled(merged)
  BY MissingAreEmpty
<1>4. reply' \in {"pass", "own"} \/ reply' \in missing \/ reply' \in still
  <2>1. Slots!FirstOf(missing) \in missing
    BY <1>1, <1>3, FirstOfIsOne
  <2>2. still # {} => Slots!FirstOf(still) \in still
    BY <1>3, FirstOfIsOne
  <2>. QED
    BY <1>1, <2>1, <2>2
<1>5. told' \subseteq Slots!Filled(before)
  BY <1>1, <1>2 DEF Slots!GateAsksWhatIsMissing
<1>6. reply' = "pass" => still = {}
  <2>1. missing \subseteq Slots!Slot /\ still \subseteq Slots!Slot
    BY <1>3
  <2>2. Slots!FirstOf(IF still # {} THEN still ELSE missing) \in Slots!Slot
    <3>1. CASE still # {}
      BY <2>1, <3>1, FirstOfIsOne
    <3>2. CASE still = {}
      BY <1>1, <2>1, <3>2, FirstOfIsOne
    <3>. QED
      BY <3>1, <3>2
  <2>. QED
    BY <1>1, <2>2, OtherReplies
<1>7. reply' = "pass" /\ "metric" \in Slots!Filled(slotFile') =>
          heard'.ranking \/ {"company", "period"} \subseteq Slots!Filled(slotFile')
  BY <1>1, <1>6, CompleteOrRanking
<1>. HIDE DEF before, merged, missing, still
<1>8. reply' \in Slots!Slot => reply' \notin told' /\ (reply' \in Slots!Filled(slotFile') => reply' \in guessed')
  BY <1>1, <1>2, <1>3, <1>4, <1>5, OtherReplies
<1>. QED
  BY <1>1, <1>2, <1>5, <1>7, <1>8 DEF Slots!GateAsksWhatIsMissing

LEMMA GateStep ==
    ASSUME Slots!GateAsksWhatIsMissing, [Slots!Next]_gateVars
    PROVE  Slots!GateAsksWhatIsMissing'
<1>1. CASE Slots!StateLost
  BY <1>1, OtherReplies DEF Slots!StateLost, Slots!GateAsksWhatIsMissing
<1>2. CASE UNCHANGED gateVars
  BY <1>2 DEF gateVars, Slots!GateAsksWhatIsMissing, Slots!Filled
<1>. QED
  BY <1>1, <1>2, PassKeeps, AskKeeps, ClarifyKeeps DEF Slots!Next

\* Whatever is said, and whatever the clarifying model decides, the gate of
\* workflow.py asks for no slot it was told, and lets no figure question
\* through that lacks one, a ranking excepted.
THEOREM AsksWhatIsMissing == Spec => []GateAsksWhatIsMissing
<1>1. Init => Slots!GateAsksWhatIsMissing
  BY OtherReplies DEF Init, Slots!Init, Slots!GateAsksWhatIsMissing
<1>2. Slots!GateAsksWhatIsMissing /\ [Next]_vars => Slots!GateAsksWhatIsMissing'
  BY GateStep, StepsOfParts
<1>3. Slots!GateAsksWhatIsMissing => GateAsksWhatIsMissing
  BY DEF GateAsksWhatIsMissing
<1>. QED
  BY <1>1, <1>2, <1>3, PTL DEF Spec

LEMMA MergeTyped ==
    ASSUME NEW state \in [Slots!Slot -> Values \cup {NoValue}],
           NEW new \in [Slots!Slot -> Values \cup {NoValue}]
    PROVE  Slots!Merge(state, new) \in [Slots!Slot -> Values \cup {NoValue}]
  BY DEF Slots!Merge

LEMMA GateTyped ==
    /\ Slots!Init => Slots!TypeOK
    /\ Slots!TypeOK /\ [Slots!Next]_gateVars => Slots!TypeOK'
<1>0. /\ \A message \in Messages : message.slots \in [Slots!Slot -> Values \cup {NoValue}]
      /\ \A decision \in Decisions : decision.slots \in [Slots!Slot -> Values \cup {NoValue}]
  BY SlotsAssumption, TheSlots
<1>1. Slots!Init => Slots!TypeOK
  BY DEF Slots!Init, Slots!TypeOK, Slots!Empty
<1>2. ASSUME NEW state, NEW message, Slots!MissingSlots(state, message) # {}
      PROVE  Slots!FirstOf(Slots!MissingSlots(state, message)) \in Slots!Slot
  BY <1>2, MissingAreEmpty, FirstOfIsOne
<1>3. ASSUME Slots!TypeOK, NEW message \in Messages, Slots!Hear(message)
      PROVE  heard' \in Messages \cup {Slots!Quiet} /\ told' \subseteq Slots!Slot
  BY <1>3 DEF Slots!Hear, Slots!TypeOK, Slots!Filled
<1>4. ASSUME Slots!TypeOK, NEW message \in Messages, Slots!Pass(message) \/ Slots!Ask(message)
      PROVE  Slots!TypeOK'
  <2>1. slotFile' \in [Slots!Slot -> Values \cup {NoValue}]
    BY <1>0, <1>4, MergeTyped DEF Slots!Pass, Slots!Ask, Slots!TypeOK
  <2>2. reply' \in Slots!Slot \cup {"pass", "own"} /\ guessed' \subseteq Slots!Slot
    BY <1>2, <1>4 DEF Slots!Pass, Slots!Ask
  <2>3. Slots!Hear(message)
    BY <1>4 DEF Slots!Pass, Slots!Ask
  <2>. QED
    BY <1>3, <1>4, <2>1, <2>2, <2>3 DEF Slots!TypeOK
<1>5. ASSUME Slots!TypeOK, NEW message \in Messages, NEW decision \in Decisions,
             Slots!Clarify(message, decision)
      PROVE  Slots!TypeOK'
  <2> DEFINE before == Slots!Merge(slotFile, message.slots)
             merged == Slots!Merge(before, decision.slots)
             missing == Slots!MissingSlots(before, message)
             still == Slots!UnresolvedSlots(merged, message)
  <2>1. /\ slotFile' = merged /\ missing # {} /\ guessed' = Slots!Filled(decision.slots)
        /\ reply' = IF decision.ready /\ still = {} THEN "pass"
                    ELSE IF ~decision.ready /\ decision.asks THEN "own"
                    ELSE Slots!FirstOf(IF still # {} THEN still ELSE missing)
        /\ Slots!Hear(message)
    BY <1>5 DEF Slots!Clarify
  <2>2. merged \in [Slots!Slot -> Values \cup {NoValue}]
    BY <1>0, <1>5, MergeTyped DEF Slots!TypeOK
  <2>3. Slots!FirstOf(missing) \in Slots!Slot
    BY <1>2, <2>1
  <2>4. still # {} => Slots!FirstOf(still) \in Slots!Slot
    BY MissingAreEmpty, FirstOfIsOne
  <2>5. guessed' \subseteq Slots!Slot
    BY <2>1 DEF Slots!Filled
  <2>. HIDE DEF merged, missing, still
  <2>6. reply' \in Slots!Slot \cup {"pass", "own"}
    BY <2>1, <2>3, <2>4
  <2>. QED
    BY <1>3, <1>5, <2>1, <2>2, <2>5, <2>6 DEF Slots!TypeOK
<1>6. ASSUME Slots!TypeOK, Slots!StateLost PROVE Slots!TypeOK'
  BY <1>6 DEF Slots!StateLost, Slots!TypeOK, Slots!Empty
<1>7. ASSUME Slots!TypeOK, UNCHANGED gateVars PROVE Slots!TypeOK'
  BY <1>7 DEF gateVars, Slots!TypeOK
<1>. QED
  BY <1>1, <1>4, <1>5, <1>6, <1>7 DEF Slots!Next
------------------------------------------------------------------------------
(***************************************************************************)
(* The evaluation: any number of variants and test cases, names that need  *)
(* not be distinct, any concurrency                                        *)
(***************************************************************************)

LEMMA Sizes ==
    /\ \E n \in Nat : Variants = 1..n
    /\ \E m \in Nat : TestCases = 1..m
    /\ MaxConcurrency \in Nat
    /\ Evaluators \subseteq {"trajectory", "output", "efficiency", "judge", "custom"}
  BY EvaluationAssumption, FS_CardinalityType

LEMMA SameCount == \A S : Evaluation!Cardinality(S) = Cardinality(S)
  BY DEF Cardinality, IsFiniteSet, Evaluation!Cardinality, Evaluation!IsFiniteSet

\* A job that holds a place is not scored; no more hold one than there are.
PlaceInv ==
    /\ running \subseteq Evaluation!Jobs /\ IsFiniteSet(running)
    /\ Cardinality(running) <= MaxConcurrency
    /\ \A j \in running : scored[j] = NotYet

ScoreInv ==
    /\ ran \in [Evaluation!Jobs -> [answer : Answered, error : BOOLEAN] \cup {NotYet}]
    /\ scored \in [Evaluation!Jobs -> [Evaluators -> BOOLEAN] \cup {NotYet}]
    /\ \A j \in Evaluation!Jobs : scored[j] # NotYet =>
           /\ ran[j] # NotYet
           /\ ran[j].error /\ Evaluation!OverallPassed(j) => Evaluators \subseteq {"efficiency", "custom"}

\* Whatever is queued or yielded was put by its variant's worker, once.
StreamInv ==
    /\ queue \in Seq(Evaluation!Jobs) /\ yielded \in Seq(Evaluation!Jobs)
    /\ \A i, k \in 1..Len(queue) : queue[i] = queue[k] => i = k
    /\ \A i, k \in 1..Len(yielded) : yielded[i] = yielded[k] => i = k
    /\ \A i \in 1..Len(yielded), k \in 1..Len(queue) : yielded[i] # queue[k]
    /\ \A i \in 1..Len(queue) : queue[i][1] \in put
    /\ \A i \in 1..Len(yielded) : yielded[i][1] \in put

\* Results of every case when all is done; only a worker of a stream puts any.
EndInv ==
    /\ ~streaming => put = {} /\ queue = <<>>
    /\ ended = "done" /\ streaming => \A j \in Evaluation!Jobs : \E i \in 1..Len(yielded) : yielded[i] = j
    /\ ended = "done" /\ ~streaming =>
           \A v \in Variants : Evaluation!NamedAlone(v) =>
               /\ NameOf[v] \in DOMAIN reports /\ reports[NameOf[v]] = v
               /\ Evaluation!Through(v)

ComparisonInv == PlaceInv /\ ScoreInv /\ StreamInv /\ EndInv

LEMMA ComparisonBegins == Evaluation!Init => ComparisonInv
<1> SUFFICES ASSUME Evaluation!Init PROVE ComparisonInv
  OBVIOUS
<1>1. PlaceInv
  BY FS_EmptySet, Sizes DEF Evaluation!Init, PlaceInv
<1>2. ScoreInv
  BY DEF Evaluation!Init, ScoreInv
<1>3. queue = <<>> /\ yielded = <<>> /\ Len(queue) = 0 /\ Len(yielded) = 0
      /\ queue \in Seq(Evaluation!Jobs) /\ yielded \in Seq(Evaluation!Jobs)
  BY EmptySeq DEF Evaluation!Init
<1>4. StreamInv
  BY <1>3 DEF StreamInv
<1>5. EndInv
  BY DEF Evaluation!Init, EndInv
<1>. QED
  BY <1>1, <1>2, <1>4, <1>5 DEF ComparisonInv

\* A place is taken, or given back.
LEMMA PlacesCounted ==
    ASSUME NEW S, IsFiniteSet(S), NEW x
    PROVE  /\ IsFiniteSet(S \cup {x}) /\ IsFiniteSet(S \ {x})
           /\ Cardinality(S) \in Nat
           /\ Cardinality(S \cup {x}) \in Nat /\ Cardinality(S \cup {x}) <= Cardinality(S) + 1
           /\ Cardinality(S \ {x}) \in Nat /\ Cardinality(S \ {x}) <= Cardinality(S)
<1>1. IsFiniteSet(S \cup {x}) /\ IsFiniteSet(S \ {x})
  BY FS_AddElement, FS_RemoveElement
<1>2. /\ Cardinality(S) \in Nat /\ Cardinality(S \cup {x}) \in Nat
      /\ Cardinality(S \ {x}) \in Nat
  BY <1>1, FS_CardinalityType
<1>3. Cardinality(S \cup {x}) = IF x \in S THEN Cardinality(S) ELSE Cardinality(S) + 1
  BY FS_AddElement
<1>4. Cardinality(S \ {x}) = IF x \in S THEN Cardinality(S) - 1 ELSE Cardinality(S)
  BY FS_RemoveElement
<1>. QED
  BY <1>1, <1>2, <1>3, <1>4

LEMMA AcquireKeeps == ASSUME ComparisonInv, NEW j \in Evaluation!Jobs, Evaluation!Acquire(j) PROVE ComparisonInv'
<1>1. /\ running' = running \cup {j} /\ scored[j] = NotYet
      /\ UNCHANGED <<streaming, ran, scored, queue, put, yielded, reports, ended>>
  BY DEF Evaluation!Acquire, Evaluation!Begun
<1>2. /\ IsFiniteSet(running') /\ Cardinality(running) \in Nat /\ Cardinality(running') \in Nat
      /\ Cardinality(running') <= Cardinality(running) + 1
  BY <1>1, PlacesCounted DEF ComparisonInv, PlaceInv
<1>3. PlaceInv'
  <2>1. Cardinality(running) < MaxConcurrency /\ MaxConcurrency \in Nat
    BY SameCount, Sizes DEF Evaluation!Acquire
  <2>2. Cardinality(running') <= MaxConcurrency
    BY <1>2, <2>1
  <2>. QED
    BY <1>1, <1>2, <2>2 DEF ComparisonInv, PlaceInv
<1>4. (ScoreInv /\ StreamInv /\ EndInv)'
  BY <1>1 DEF ComparisonInv, ScoreInv, Evaluation!OverallPassed, StreamInv, EndInv, Evaluation!Through
<1>. QED
  BY <1>3, <1>4 DEF ComparisonInv

LEMMA ExecuteKeeps == ASSUME ComparisonInv, NEW j \in Evaluation!Jobs, Evaluation!Execute(j) PROVE ComparisonInv'
<1>1. UNCHANGED <<streaming, running, scored, queue, put, yielded, reports, ended>>
  BY DEF Evaluation!Execute
<1>2. scored[j] = NotYet
  BY DEF Evaluation!Execute, ComparisonInv, PlaceInv
<1>3. PICK result \in [answer : Answered, error : BOOLEAN] : ran' = [ran EXCEPT ![j] = result]
  BY DEF Evaluation!Execute
<1>4. ScoreInv'
  BY <1>1, <1>2, <1>3 DEF ComparisonInv, ScoreInv, Evaluation!OverallPassed
<1>5. (PlaceInv /\ StreamInv /\ EndInv)'
  BY <1>1 DEF ComparisonInv, PlaceInv, StreamInv, EndInv, Evaluation!Through
<1>. QED
  BY <1>4, <1>5 DEF ComparisonInv

\* Of a failed agent the trajectory, the output and the judge say no.
LEMMA FailedIsNotPassed ==
    ASSUME NEW result, result.error = TRUE, NEW expected, NEW verdicts \in [Evaluators -> BOOLEAN],
           \A e \in Evaluators : verdicts[e] \in Evaluation!Verdicts(e, result, expected),
           \A e \in Evaluators : verdicts[e]
    PROVE  Evaluators \subseteq {"efficiency", "custom"}
<1> SUFFICES ASSUME NEW e \in Evaluators, e \notin {"efficiency", "custom"} PROVE FALSE
  OBVIOUS
<1>1. e \in {"trajectory", "output", "judge"}
  BY Sizes
<1>2. verdicts[e] \in {FALSE}
  BY <1>1 DEF Evaluation!Verdicts, Evaluation!TrajectoryPasses, Evaluation!OutputPasses, Evaluation!JudgePasses
<1>. QED
  BY <1>2

LEMMA ScoreKeeps == ASSUME ComparisonInv, NEW j \in Evaluation!Jobs, Evaluation!Score(j) PROVE ComparisonInv'
<1>1. /\ UNCHANGED <<streaming, ran, queue, put, yielded, reports, ended>>
      /\ running' = running \ {j} /\ ran[j] # NotYet /\ scored[j] = NotYet
  BY DEF Evaluation!Score, ComparisonInv, PlaceInv
<1>2. PICK verdicts \in [Evaluators -> BOOLEAN] :
           /\ \A e \in Evaluators : verdicts[e] \in Evaluation!Verdicts(e, ran[j], Expected[j[2]])
           /\ scored' = [scored EXCEPT ![j] = verdicts]
  BY DEF Evaluation!Score
<1>3. \A i \in Evaluation!Jobs : scored'[i] = IF i = j THEN verdicts ELSE scored[i]
  BY <1>2 DEF ComparisonInv, ScoreInv
<1>4. ran[j].error /\ (\A e \in Evaluators : verdicts[e]) => Evaluators \subseteq {"efficiency", "custom"}
  <2>1. ran[j].error \in BOOLEAN
    BY <1>1 DEF ComparisonInv, ScoreInv
  <2>. QED
    BY <1>2, <2>1, FailedIsNotPassed
<1>5. ScoreInv'
  <2>1. scored' \in [Evaluation!Jobs -> [Evaluators -> BOOLEAN] \cup {NotYet}]
    BY <1>2 DEF ComparisonInv, ScoreInv
  <2>2. ASSUME NEW i \in Evaluation!Jobs, scored'[i] # NotYet
        PROVE  /\ ran[i] # NotYet
               /\ ran[i].error /\ Evaluation!OverallPassed(i)' => Evaluators \subseteq {"efficiency", "custom"}
    <3>1. CASE i = j
      BY <1>1, <1>3, <1>4, <3>1 DEF Evaluation!OverallPassed
    <3>2. CASE i # j
      BY <1>3, <2>2, <3>2 DEF ComparisonInv, ScoreInv, Evaluation!OverallPassed
    <3>. QED
      BY <3>1, <3>2
  <2>. QED
    BY <1>1, <2>1, <2>2 DEF ComparisonInv, ScoreInv
<1>6. PlaceInv'
  <2>1. /\ IsFiniteSet(running') /\ Cardinality(running) \in Nat /\ Cardinality(running') \in Nat
        /\ Cardinality(running') <= Cardinality(running)
    BY <1>1, PlacesCounted DEF ComparisonInv, PlaceInv
  <2>. QED
    BY <1>1, <1>3, <2>1, Sizes DEF ComparisonInv, PlaceInv
<1>7. StreamInv'
  BY <1>1 DEF ComparisonInv, StreamInv
<1>8. EndInv'
  <2>1. \A v \in Variants : Evaluation!Through(v) => Evaluation!Through(v)'
    BY <1>1, <1>3 DEF Evaluation!Through, Evaluation!JobsOf
  <2>. QED
    BY <1>1, <2>1 DEF ComparisonInv, EndInv
<1>. QED
  BY <1>5, <1>6, <1>7, <1>8 DEF ComparisonInv

LEMMA RaisesKeeps == ASSUME ComparisonInv, NEW j \in Evaluation!Jobs, Evaluation!EvaluatorRaises(j) PROVE ComparisonInv'
<1>1. /\ UNCHANGED <<streaming, ran, scored, queue, put, yielded, reports>>
      /\ running' = running \ {j} /\ (ended' = "done" => ended = "done")
  BY DEF Evaluation!EvaluatorRaises
<1>2. /\ IsFiniteSet(running') /\ Cardinality(running) \in Nat /\ Cardinality(running') \in Nat
      /\ Cardinality(running') <= Cardinality(running)
  BY <1>1, PlacesCounted DEF ComparisonInv, PlaceInv
<1>3. PlaceInv'
  BY <1>1, <1>2, Sizes DEF ComparisonInv, PlaceInv
<1>4. (ScoreInv /\ StreamInv)'
  BY <1>1 DEF ComparisonInv, ScoreInv, Evaluation!OverallPassed, StreamInv
<1>5. EndInv'
  BY <1>1 DEF ComparisonInv, EndInv, Evaluation!Through
<1>. QED
  BY <1>3, <1>4, <1>5 DEF ComparisonInv

\* Of the variants of a name there is a last one.
LEMMA LastVariant ==
    ASSUME NEW n \in Evaluation!Names
    PROVE  LET v == Evaluation!Max({w \in Variants : NameOf[w] = n})
           IN  v \in Variants /\ NameOf[v] = n
<1> DEFINE same == {w \in Variants : NameOf[w] = n}
<1>1. PICK size \in Nat : Variants = 1..size
  BY Sizes
<1>2. same \subseteq 1..size /\ same # {}
  BY <1>1 DEF Evaluation!Names
<1>3. \E v \in same : \A w \in same : v >= w
  <2> DEFINE back == {size - w : w \in same}
  <2>1. back \subseteq Nat /\ back # {}
    <3>1. \A w \in same : w \in Nat /\ size - w \in Nat
      BY <1>2
    <3>. QED
      BY <1>2, <3>1
  <2>2. PICK x \in back : \A y \in back : ~ (<<y, x>> \in OpToRel(<, Nat))
    <3>. HIDE DEF back
    <3>. QED
      BY <2>1, NatLessThanWellFounded, WFMin, Zenon
  <2>3. PICK v \in same : x = size - v
    OBVIOUS
  <2>4. \A w \in same : ~ (size - w < size - v)
    BY <2>1, <2>2, <2>3 DEF OpToRel
  <2>5. v \in Nat /\ \A w \in same : w \in Nat
    BY <1>2
  <2>. QED
    BY <2>4, <2>5
<1>4. Evaluation!Max(same) \in same
  <2>. HIDE DEF same
  <2>. QED
    BY <1>3 DEF Evaluation!Max
<1>. QED
  BY <1>4

LEMMA GatherKeeps == ASSUME ComparisonInv, Evaluation!Gather PROVE ComparisonInv'
<1>1. /\ UNCHANGED <<streaming, running, ran, scored, queue, put, yielded>>
      /\ ~streaming /\ \A v \in Variants : Evaluation!Through(v)
      /\ reports' = [n \in Evaluation!Names |-> Evaluation!Max({v \in Variants : NameOf[v] = n})]
  BY DEF Evaluation!Gather
<1>2. (PlaceInv /\ ScoreInv /\ StreamInv)'
  BY <1>1 DEF ComparisonInv, PlaceInv, ScoreInv, Evaluation!OverallPassed, StreamInv
<1>3. \A v \in Variants : Evaluation!Through(v)'
  BY <1>1 DEF Evaluation!Through
<1>4. ASSUME NEW v \in Variants, Evaluation!NamedAlone(v)
      PROVE  NameOf[v] \in DOMAIN reports' /\ reports'[NameOf[v]] = v
  <2>1. NameOf[v] \in Evaluation!Names
    BY DEF Evaluation!Names
  <2>2. reports'[NameOf[v]] \in Variants /\ NameOf[reports'[NameOf[v]]] = NameOf[v]
    BY <1>1, <2>1, LastVariant
  <2>. QED
    BY <1>1, <1>4, <2>1, <2>2 DEF Evaluation!NamedAlone
<1>5. EndInv'
  BY <1>1, <1>3, <1>4 DEF ComparisonInv, EndInv
<1>. QED
  BY <1>2, <1>5 DEF ComparisonInv

LEMMA ResultsOfVariant ==
    ASSUME NEW v \in Variants
    PROVE  /\ [t \in TestCases |-> <<v, t>>] \in Seq(Evaluation!Jobs)
           /\ \A t \in 1..Len([t \in TestCases |-> <<v, t>>]) :
                  [u \in TestCases |-> <<v, u>>][t] = <<v, t>>
  BY Sizes DEF Evaluation!Jobs

LEMMA PutKeeps == ASSUME ComparisonInv, NEW v \in Variants, Evaluation!Put(v) PROVE ComparisonInv'
<1> DEFINE results == [t \in TestCases |-> <<v, t>>]
<1>1. /\ UNCHANGED <<streaming, running, ran, scored, yielded, reports, ended>>
      /\ queue' = queue \o results /\ put' = put \cup {v} /\ v \notin put /\ streaming
  BY DEF Evaluation!Put
<1>2. results \in Seq(Evaluation!Jobs) /\ \A t \in 1..Len(results) : results[t] = <<v, t>>
  BY ResultsOfVariant
<1>. HIDE DEF results
<1>3. /\ queue \in Seq(Evaluation!Jobs) /\ Len(queue) \in Nat /\ Len(results) \in Nat
      /\ queue' \in Seq(Evaluation!Jobs) /\ Len(queue') = Len(queue) + Len(results)
      /\ \A i \in 1..Len(queue') :
             queue'[i] = IF i <= Len(queue) THEN queue[i] ELSE results[i - Len(queue)]
  BY <1>1, <1>2, ConcatProperties, LenProperties DEF ComparisonInv, StreamInv
<1>4. \A i \in 1..Len(queue') :
          \/ i \in 1..Len(queue) /\ queue'[i] = queue[i] /\ queue'[i][1] \in put
          \/ i \notin 1..Len(queue) /\ queue'[i] = <<v, i - Len(queue)>> /\ i \in Int
  <2> SUFFICES ASSUME NEW i \in 1..Len(queue'), ~(i \in 1..Len(queue))
               PROVE  queue'[i] = <<v, i - Len(queue)>>
    BY <1>3 DEF ComparisonInv, StreamInv
  <2>1. i - Len(queue) \in 1..Len(results) /\ ~(i <= Len(queue))
    BY <1>3
  <2>2. queue'[i] = results[i - Len(queue)]
    BY <1>3, <2>1
  <2>3. results[i - Len(queue)] = <<v, i - Len(queue)>>
    BY <1>2, <2>1
  <2>. QED
    BY <2>2, <2>3
<1>4a. ASSUME NEW i \in 1..Len(queue'), i \notin 1..Len(queue) PROVE queue'[i][1] = v
  <2>1. queue'[i] = <<v, i - Len(queue)>>
    BY <1>4, <1>4a
  <2>. QED
    BY <2>1
<1>5. ASSUME NEW i \in 1..Len(queue'), NEW k \in 1..Len(queue'), queue'[i] = queue'[k]
      PROVE  i = k
  <2>1. CASE i \in 1..Len(queue) /\ k \in 1..Len(queue)
    BY <1>4, <1>5, <2>1 DEF ComparisonInv, StreamInv
  <2>2. CASE i \notin 1..Len(queue) /\ k \notin 1..Len(queue)
    <3>1. queue'[i] = <<v, i - Len(queue)>> /\ queue'[k] = <<v, k - Len(queue)>> /\ i \in Int /\ k \in Int
      BY <1>4, <2>2
    <3>2. <<v, i - Len(queue)>> = <<v, k - Len(queue)>>
      BY <1>5, <3>1
    <3>3. i - Len(queue) = k - Len(queue)
      BY ONLY <3>2
    <3>. QED
      BY <1>3, <3>1, <3>3
  <2>3. CASE i \in 1..Len(queue) <=> k \notin 1..Len(queue)
    <3>1. queue'[i][1] # queue'[k][1]
      BY <1>1, <1>4, <1>4a, <2>3
    <3>. QED
      BY <1>5, <3>1
  <2>. QED
    BY <2>1, <2>2, <2>3
<1>6. StreamInv'
  <2>1. \A i \in 1..Len(queue') : queue'[i][1] \in put'
    <3>1. \A i \in 1..Len(queue') : i \in 1..Len(queue) => queue'[i][1] \in put
      BY <1>4
    <3>2. put \subseteq put' /\ v \in put'
      BY <1>1
    <3>. QED
      BY <1>4a, <3>1, <3>2
  <2>2. \A i \in 1..Len(yielded) : yielded[i][1] \in put'
    BY <1>1 DEF ComparisonInv, StreamInv
  <2>3. \A i \in 1..Len(yielded), k \in 1..Len(queue') : yielded[i] # queue'[k]
    <3> SUFFICES ASSUME NEW i \in 1..Len(yielded), NEW k \in 1..Len(queue'), yielded[i] = queue'[k]
                 PROVE  FALSE
      OBVIOUS
    <3>1. yielded[i][1] \in put
      BY DEF ComparisonInv, StreamInv
    <3>2. CASE k \in 1..Len(queue)
      BY <1>4, <3>2 DEF ComparisonInv, StreamInv
    <3>3. CASE k \notin 1..Len(queue)
      BY <1>1, <1>4a, <3>1, <3>3
    <3>. QED
      BY <3>2, <3>3
  <2>. QED
    BY <1>1, <1>3, <1>5, <2>1, <2>2, <2>3 DEF ComparisonInv, StreamInv
<1>7. (PlaceInv /\ ScoreInv /\ EndInv)'
  BY <1>1 DEF ComparisonInv, PlaceInv, ScoreInv, Evaluation!OverallPassed, EndInv, Evaluation!Through
<1>. QED
  BY <1>6, <1>7 DEF ComparisonInv

\* As many different jobs as there are, are all of them.
LEMMA AllOfThem ==
    ASSUME NEW s \in Seq(Evaluation!Jobs), \A i, k \in 1..Len(s) : s[i] = s[k] => i = k,
           Len(s) = Cardinality(Evaluation!Jobs)
    PROVE  \A j \in Evaluation!Jobs : \E i \in 1..Len(s) : s[i] = j
<1>1. IsFiniteSet(Evaluation!Jobs)
  <2>1. PICK n \in Nat, m \in Nat : Variants = 1..n /\ TestCases = 1..m
    BY Sizes
  <2>2. IsFiniteSet(1..n) /\ IsFiniteSet(1..m)
    <3>1. 1 \in Int /\ n \in Int /\ m \in Int
      OBVIOUS
    <3>. QED
      BY <3>1, FS_Interval
  <2>. QED
    BY <2>1, <2>2, FS_Product DEF Evaluation!Jobs
<1>2. s \in Injection(1..Len(s), Evaluation!Jobs)
  BY DEF Injection, IsInjective
<1>3. Cardinality(1..Len(s)) = Len(s)
  BY FS_Interval, LenProperties
<1>4. s \in Surjection(1..Len(s), Evaluation!Jobs)
  BY <1>1, <1>2, <1>3, FS_Injection
<1>. QED
  BY <1>4 DEF Surjection

LEMMA YieldKeeps == ASSUME ComparisonInv, Evaluation!Yield PROVE ComparisonInv'
<1>1. /\ UNCHANGED <<streaming, running, ran, scored, put, reports>>
      /\ queue # <<>> /\ yielded' = Append(yielded, Head(queue)) /\ queue' = Tail(queue)
      /\ ended' = IF Len(yielded) + 1 = Cardinality(Evaluation!Jobs) THEN "done" ELSE ended
  BY SameCount DEF Evaluation!Yield
<1>2. /\ queue \in Seq(Evaluation!Jobs) /\ yielded \in Seq(Evaluation!Jobs)
      /\ Len(queue) \in Nat /\ Len(yielded) \in Nat /\ Len(queue) > 0
  BY <1>1, EmptySeq, LenProperties DEF ComparisonInv, StreamInv
<1>3. /\ Head(queue) = queue[1] /\ queue[1] \in Evaluation!Jobs
      /\ queue' \in Seq(Evaluation!Jobs) /\ Len(queue') = Len(queue) - 1
      /\ \A i \in 1..Len(queue') : queue'[i] = queue[i + 1]
  BY <1>1, <1>2, HeadTailProperties
<1>4. /\ yielded' \in Seq(Evaluation!Jobs) /\ Len(yielded') = Len(yielded) + 1
      /\ \A i \in 1..Len(yielded) : yielded'[i] = yielded[i]
      /\ yielded'[Len(yielded) + 1] = queue[1]
  BY <1>1, <1>2, <1>3, AppendProperties
<1>5. \A i \in 1..Len(queue') : i + 1 \in 1..Len(queue) /\ i + 1 # 1
  BY <1>2, <1>3
<1>6. \A i \in 1..Len(yielded') : i \in 1..Len(yielded) \/ i = Len(yielded) + 1
  BY <1>2, <1>4
<1>7. 1 \in 1..Len(queue)
  BY <1>2
<1>8. \A i, k \in 1..Len(queue') : queue'[i] = queue'[k] => i = k
  <2> SUFFICES ASSUME NEW i \in 1..Len(queue'), NEW k \in 1..Len(queue'), queue'[i] = queue'[k]
               PROVE  i = k
    OBVIOUS
  <2>1. i + 1 = k + 1
    BY <1>3, <1>5 DEF ComparisonInv, StreamInv
  <2>. QED
    BY <2>1
<1>9. \A i, k \in 1..Len(yielded') : yielded'[i] = yielded'[k] => i = k
  BY <1>4, <1>6, <1>7 DEF ComparisonInv, StreamInv
<1>10. \A i \in 1..Len(yielded'), k \in 1..Len(queue') : yielded'[i] # queue'[k]
  BY <1>3, <1>4, <1>5, <1>6, <1>7 DEF ComparisonInv, StreamInv
<1>11. /\ \A i \in 1..Len(queue') : queue'[i][1] \in put
       /\ \A i \in 1..Len(yielded') : yielded'[i][1] \in put
  <2>1. \A i \in 1..Len(queue) : queue[i][1] \in put
    BY DEF ComparisonInv, StreamInv
  <2>2. \A i \in 1..Len(yielded) : yielded[i][1] \in put
    BY DEF ComparisonInv, StreamInv
  <2>3. ASSUME NEW i \in 1..Len(queue') PROVE queue'[i][1] \in put
    BY <1>3, <1>5, <2>1
  <2>4. ASSUME NEW i \in 1..Len(yielded') PROVE yielded'[i][1] \in put
    BY <1>4, <1>6, <1>7, <2>1, <2>2
  <2>. QED
    BY <2>3, <2>4
<1>12. StreamInv'
  BY <1>1, <1>3, <1>4, <1>8, <1>9, <1>10, <1>11 DEF StreamInv
<1>13. EndInv'
  <2>1. streaming
    BY <1>1 DEF ComparisonInv, EndInv
  <2>2. ASSUME ended' = "done", NEW j \in Evaluation!Jobs PROVE \E i \in 1..Len(yielded') : yielded'[i] = j
    <3>1. CASE Len(yielded) + 1 = Cardinality(Evaluation!Jobs)
      BY <1>4, <1>9, <3>1, AllOfThem
    <3>2. CASE ended = "done"
      <4>1. PICK i \in 1..Len(yielded) : yielded[i] = j
        BY <2>1, <3>2 DEF ComparisonInv, EndInv
      <4>2. i \in 1..Len(yielded')
        BY <1>2, <1>4
      <4>. QED
        BY <1>4, <4>1, <4>2
    <3>. QED
      BY <1>1, <2>2, <3>1, <3>2
  <2>. QED
    BY <1>1, <2>1, <2>2 DEF EndInv
<1>14. (PlaceInv /\ ScoreInv)'
  BY <1>1 DEF ComparisonInv, PlaceInv, ScoreInv, Evaluation!OverallPassed
<1>. QED
  BY <1>12, <1>13, <1>14 DEF ComparisonInv

LEMMA ComparisonStep == ASSUME ComparisonInv, [Evaluation!Next]_comparisonVars PROVE ComparisonInv'
<1>1. CASE UNCHANGED comparisonVars
  BY <1>1 DEF comparisonVars, ComparisonInv, PlaceInv, ScoreInv, Evaluation!OverallPassed, StreamInv,
              EndInv, Evaluation!Through
<1>. QED
  BY <1>1, AcquireKeeps, ExecuteKeeps, ScoreKeeps, RaisesKeeps, GatherKeeps, PutKeeps, YieldKeeps
     DEF Evaluation!Next

\* runner.py: whatever raises and however the jobs come in between each other, no
\* more of them are at work than allowed, and a comparison that ended has streamed
\* the result of every case once, or has it in the report of its variant, if no
\* other variant has its name; failed runs are not passed for good ones.
THEOREM AccountsAgree == Spec => []EvaluationAccounts
<1>1. Init => ComparisonInv
  BY ComparisonBegins DEF Init
<1>2. ComparisonInv /\ [Next]_vars => ComparisonInv'
  BY ComparisonStep, StepsOfParts
<1>3. ComparisonInv => EvaluationAccounts
  <2> SUFFICES ASSUME ComparisonInv PROVE Evaluation!EvaluationAccounts
    BY DEF EvaluationAccounts
  <2>1. DOMAIN yielded = 1..Len(yielded) /\ \A i \in 1..Len(yielded) : yielded[i] \in Evaluation!Jobs
    BY LenProperties DEF ComparisonInv, StreamInv
  <2>2. ended = "done" /\ streaming => Evaluation!Range(yielded) = Evaluation!Jobs
    BY <2>1 DEF ComparisonInv, EndInv, Evaluation!Range
  <2>3. Evaluation!Cardinality(running) <= MaxConcurrency
    BY SameCount DEF ComparisonInv, PlaceInv
  <2>. QED
    BY <2>1, <2>2, <2>3 DEF ComparisonInv, PlaceInv, ScoreInv, StreamInv, EndInv, Evaluation!EvaluationAccounts
<1>. QED
  BY <1>1, <1>2, <1>3, PTL DEF Spec

\* What the invariant does not say of the types.
ComparisonKinds ==
    /\ streaming \in BOOLEAN /\ broken \subseteq Evaluation!Jobs /\ put \subseteq Variants
    /\ DOMAIN reports \subseteq Evaluation!Names /\ ended \in {"no", "done", "raised"}

LEMMA KindsKept ==
    /\ Evaluation!Init => ComparisonKinds
    /\ ComparisonKinds /\ [Evaluation!Next]_comparisonVars => ComparisonKinds'
<1>1. Evaluation!Init => ComparisonKinds
  BY EmptySeq DEF Evaluation!Init, ComparisonKinds
<1>2. ASSUME ComparisonKinds, NEW j \in Evaluation!Jobs,
             Evaluation!Acquire(j) \/ Evaluation!Execute(j) \/ Evaluation!Score(j) \/ Evaluation!EvaluatorRaises(j)
      PROVE  ComparisonKinds'
  BY <1>2 DEF ComparisonKinds, Evaluation!Acquire, Evaluation!Execute, Evaluation!Score, Evaluation!EvaluatorRaises
<1>3. ASSUME ComparisonKinds, Evaluation!Gather PROVE ComparisonKinds'
  BY <1>3 DEF ComparisonKinds, Evaluation!Gather
<1>4. ASSUME ComparisonKinds, NEW v \in Variants, Evaluation!Put(v) PROVE ComparisonKinds'
  BY <1>4 DEF ComparisonKinds, Evaluation!Put
<1>5. ASSUME ComparisonKinds, Evaluation!Yield PROVE ComparisonKinds'
  BY <1>5 DEF ComparisonKinds, Evaluation!Yield
<1>6. ASSUME ComparisonKinds, UNCHANGED comparisonVars PROVE ComparisonKinds'
  BY <1>6 DEF ComparisonKinds, comparisonVars
<1>. QED
  BY <1>1, <1>2, <1>3, <1>4, <1>5, <1>6 DEF Evaluation!Next

LEMMA ComparisonTyped == ComparisonInv /\ ComparisonKinds => Evaluation!TypeOK
  BY DEF ComparisonInv, ComparisonKinds, PlaceInv, ScoreInv, StreamInv, Evaluation!TypeOK

------------------------------------------------------------------------------
(***************************************************************************)
(* The search box: any texts, any order of the answers                     *)
(***************************************************************************)

\* What is listed is the answer to the request it is said to be; when the box is
\* at rest, the latest request is for its text.
SearchInv ==
    /\ box \in Texts /\ timer \in BOOLEAN
    /\ asked \in Seq(Texts) /\ waiting \subseteq DOMAIN asked /\ list \in Texts
    /\ asked # <<>>
    /\ ~timer => asked[Len(asked)] = box
    /\ shown \in 0..Len(asked) /\ (shown # 0 => list = asked[shown])

LEMMA SearchBegins == Browser!Init => SearchInv
<1> SUFFICES ASSUME Browser!Init PROVE SearchInv
  OBVIOUS
<1>1. NoText \in Texts
  BY BrowserAssumption
<1>2. asked \in Seq(Texts) /\ Len(asked) = 1 /\ asked[1] = NoText /\ asked # <<>> /\ DOMAIN asked = {1}
  BY <1>1 DEF Browser!Init
<1>3. shown = 0 /\ shown \in 0..Len(asked)
  BY <1>2 DEF Browser!Init
<1>. QED
  BY <1>1, <1>2, <1>3 DEF Browser!Init, SearchInv

LEMMA SearchAsks == ASSUME SearchInv, Browser!Search PROVE SearchInv'
<1>1. /\ timer' = FALSE /\ asked' = Append(asked, box) /\ waiting' = waiting \cup {Len(asked) + 1}
      /\ UNCHANGED <<box, list, shown>>
  BY DEF Browser!Search
<1>2. asked \in Seq(Texts) /\ box \in Texts /\ waiting \subseteq DOMAIN asked
  BY DEF SearchInv
<1>3. /\ asked' \in Seq(Texts) /\ Len(asked) \in Nat /\ Len(asked') = Len(asked) + 1
      /\ DOMAIN asked = 1..Len(asked) /\ DOMAIN asked' = 1..(Len(asked) + 1)
      /\ asked'[Len(asked) + 1] = box /\ \A m \in 1..Len(asked) : asked'[m] = asked[m]
  BY <1>1, <1>2, AppendProperties, LenProperties
<1>4. asked' # <<>> /\ asked'[Len(asked')] = box /\ waiting' \subseteq DOMAIN asked'
  BY <1>1, <1>2, <1>3
<1>5. shown' \in 0..Len(asked') /\ (shown' # 0 => list' = asked'[shown'])
  BY <1>1, <1>3 DEF SearchInv
<1>. QED
  BY <1>1, <1>3, <1>4, <1>5 DEF SearchInv

LEMMA SearchStep == ASSUME SearchInv, [Browser!SearchNext]_searchVars PROVE SearchInv'
<1>1. CASE Browser!Type
  BY <1>1 DEF Browser!Type, SearchInv
<1>2. CASE Browser!Listed
  <2>1. PICK n \in waiting :
            list' = asked[n] /\ waiting' = waiting \ {n} /\ shown' = n /\ UNCHANGED <<box, timer, asked>>
    BY <1>2 DEF Browser!Listed
  <2>2. list' \in Texts /\ n \in 0..Len(asked)
    BY <2>1, ElementOfSeq, LenProperties DEF SearchInv
  <2>. QED
    BY <2>1, <2>2 DEF SearchInv
<1>3. CASE Browser!SearchFails
  BY <1>3 DEF Browser!SearchFails, SearchInv
<1>4. CASE UNCHANGED searchVars
  BY <1>4 DEF searchVars, SearchInv
<1>. QED
  BY <1>1, <1>2, <1>3, <1>4, SearchAsks DEF Browser!SearchNext

\* app.js: whatever is typed, and in whatever order the catalogue's answers came or
\* failed to, once the typing has stopped the answer to the latest request, if it
\* is what is listed, is that of the box.
THEOREM ListIsOfTheBox == Spec => []ListFollowsBox
<1>1. Init => SearchInv
  BY SearchBegins DEF Init
<1>2. SearchInv /\ [Next]_vars => SearchInv'
  BY SearchStep, StepsOfParts
<1>3. SearchInv => ListFollowsBox
  <2> SUFFICES ASSUME SearchInv, ~timer, shown = Len(asked) PROVE list = box
    BY DEF ListFollowsBox, Browser!ListFollowsBox
  <2>1. Len(asked) \in Nat /\ Len(asked) # 0
    BY EmptySeq, LenProperties DEF SearchInv
  <2>. QED
    BY <2>1 DEF SearchInv
<1>. QED
  BY <1>1, <1>2, <1>3, PTL DEF Spec

------------------------------------------------------------------------------
(***************************************************************************)
(* The chat stream: any number of turns and frames, cut up in any way      *)
(***************************************************************************)

Kinds == {"show", "ignore", "error", "done"}
Pieces == Nat \X {"head", "tail"}

\* Heads and tails of the frames after the h-th, in turn.
InLine(pieces, h) ==
    \A k \in Nat : k > 0 =>
        /\ 2 * k - 1 <= Len(pieces) => pieces[2 * k - 1] = <<h + k, "head">>
        /\ 2 * k <= Len(pieces) => pieces[2 * k] = <<h + k, "tail">>

ToHandle(h) == {i \in 1..h : frames[i] # "done"}

\* Of the frames, h were read to their end, and handled.
ReadUpTo(h) ==
    /\ h <= Len(frames)
    /\ InLine(buffer \o wire, h)
    /\ Len(buffer) <= 1
    /\ Len(buffer) + Len(wire) <= 2 * (Len(frames) - h)
    /\ ~cut => Len(buffer) + Len(wire) = 2 * (Len(frames) - h)
    /\ handled = InOrder(ToHandle(h))

FramesInv == frames \in Seq(Kinds) /\ wire \in Seq(Pieces) /\ buffer \in Seq(Pieces)
                 /\ \E h \in Nat : ReadUpTo(h)

\* A turn is busy until its stream is closed and read.
BusyInv ==
    /\ busy \in BOOLEAN /\ open \in BOOLEAN /\ cut \in BOOLEAN /\ turn \in 0..MaxTurns
    /\ open => busy /\ ~cut
    /\ busy => turn > 0
    /\ ~busy => ~open /\ wire = <<>>

\* The page stays with the conversation it adopted.
AdoptedInv ==
    /\ conversationId \in 1..MaxTurns \cup {NewPage}
    /\ adopted = IF conversationId = NewPage THEN {} ELSE {conversationId}
    /\ turn > 0 => serving \in 1..MaxTurns /\ (conversationId # NewPage => serving = conversationId)

StreamedInv == FramesInv /\ BusyInv /\ AdoptedInv

LEMMA InLineAt ==
    ASSUME NEW pieces, NEW h, InLine(pieces, h), NEW k \in Nat, k > 0
    PROVE  /\ 2 * k - 1 <= Len(pieces) => pieces[2 * k - 1] = <<h + k, "head">>
           /\ 2 * k <= Len(pieces) => pieces[2 * k] = <<h + k, "tail">>
  BY Zenon DEF InLine

LEMMA Joined ==
    ASSUME NEW s \in Seq(Pieces), NEW t \in Seq(Pieces)
    PROVE  /\ s \o t \in Seq(Pieces) /\ Len(s \o t) = Len(s) + Len(t)
           /\ \A i \in 1..Len(s) : (s \o t)[i] = s[i]
           /\ \A i \in 1..Len(t) : (s \o t)[Len(s) + i] = t[i]
<1>. HIDE DEF Pieces
<1>. QED
  BY ConcatIs

LEMMA Halves == \A p \in Nat : \E q \in Nat : p = 2 * q \/ p = 2 * q + 1
<1> TAKE p \in Nat
<1>1. p \div 2 \in Nat
  OBVIOUS
<1>2. p = 2 * (p \div 2) \/ p = 2 * (p \div 2) + 1
  OBVIOUS
<1>. QED
  BY <1>1, <1>2, Zenon

LEMMA NothingInLine == InLine(<<>> \o <<>>, 0)
<1>1. Len(<<>> \o <<>>) = 0
  OBVIOUS
<1>. QED
  BY <1>1 DEF InLine

LEMMA StreamBegins == Browser!Init => StreamedInv
<1> SUFFICES ASSUME Browser!Init PROVE StreamedInv
  OBVIOUS
<1>1. frames = <<>> /\ wire = <<>> /\ buffer = <<>> /\ handled = <<>> /\ ToHandle(0) = {}
  BY DEF Browser!Init, ToHandle
<1>2. ReadUpTo(0)
  <2>1. InLine(buffer \o wire, 0) /\ handled = InOrder(ToHandle(0))
    BY <1>1, NothingInLine, InOrderNone
  <2>2. Len(frames) = 0 /\ Len(buffer) = 0 /\ Len(wire) = 0
    BY <1>1
  <2>. QED
    BY <2>1, <2>2 DEF ReadUpTo
<1>3. FramesInv
  BY <1>1, <1>2, EmptySeq DEF FramesInv
<1>4. 0 \in 0..MaxTurns
  BY BrowserAssumption
<1>5. BusyInv
  BY <1>4 DEF Browser!Init, BusyInv
<1>6. AdoptedInv
  BY DEF Browser!Init, AdoptedInv
<1>. QED
  BY <1>3, <1>5, <1>6 DEF StreamedInv

LEMMA SendKeeps == ASSUME StreamedInv, Browser!Send PROVE StreamedInv'
<1>1. FramesInv'
  <2>1. frames' = <<>> /\ wire' = <<>> /\ buffer' = <<>> /\ handled' = <<>>
    BY DEF Browser!Send
  <2>2. ToHandle(0)' = {}
    BY DEF ToHandle
  <2>3. ReadUpTo(0)'
    BY <2>1, <2>2, NothingInLine, InOrderNone DEF ReadUpTo
  <2>. QED
    BY <2>1, <2>3, EmptySeq DEF FramesInv
<1>2. turn' \in 0..MaxTurns /\ turn' > 0 /\ turn + 1 \in 1..MaxTurns
  BY BrowserAssumption DEF Browser!Send, StreamedInv, BusyInv
<1>3. BusyInv'
  BY <1>2 DEF Browser!Send, BusyInv
<1>4. AdoptedInv'
  BY <1>2 DEF Browser!Send, StreamedInv, AdoptedInv
<1>. QED
  BY <1>1, <1>3, <1>4 DEF StreamedInv


\* A frame goes on the wire behind the others.
LEMMA PutKeepsLine ==
    ASSUME StreamedInv, ~cut, cut' = cut, NEW frame \in Kinds, Browser!Put(frame)
    PROVE  FramesInv'
<1>1. /\ frames \in Seq(Kinds) /\ wire \in Seq(Pieces) /\ buffer \in Seq(Pieces)
      /\ Len(frames) \in Nat /\ Len(wire) \in Nat /\ Len(buffer) \in Nat
  BY LenProperties DEF StreamedInv, FramesInv
<1>2. PICK h \in Nat : ReadUpTo(h)
  BY DEF StreamedInv, FramesInv
<1> DEFINE L == Len(frames)
           both == <<<<L + 1, "head">>, <<L + 1, "tail">>>>
           line == buffer \o wire
<1>3. /\ frames' = Append(frames, frame) /\ wire' = wire \o both
      /\ buffer' = buffer /\ handled' = handled
  BY DEF Browser!Put
<1>4. both \in Seq(Pieces) /\ Len(both) = 2 /\ both[1] = <<L + 1, "head">> /\ both[2] = <<L + 1, "tail">>
  BY <1>1 DEF Pieces
<1>5. /\ frames' \in Seq(Kinds) /\ Len(frames') = L + 1
      /\ \A i \in 1..L : frames'[i] = frames[i]
  BY <1>1, <1>3, AppendProperties
<1>. HIDE DEF both
<1>6. wire' \in Seq(Pieces) /\ Len(wire') = Len(wire) + 2
  <2>0. wire \in Seq(Pieces) /\ both \in Seq(Pieces)
    BY <1>1, <1>4
  <2>1. wire \o both \in Seq(Pieces) /\ Len(wire \o both) = Len(wire) + Len(both)
    BY <2>0, Joined
  <2>. QED
    BY <1>3, <1>4, <2>1
<1>7. /\ line \in Seq(Pieces) /\ Len(line) = Len(buffer) + Len(wire)
      /\ Len(line) \in Nat /\ Len(line) = 2 * (L - h) /\ L - h \in Nat
  <2>1. line \in Seq(Pieces) /\ Len(line) = Len(buffer) + Len(wire)
    BY <1>1, ConcatIs
  <2>2. h <= L /\ Len(buffer) + Len(wire) = 2 * (L - h)
    BY <1>2 DEF ReadUpTo
  <2>. HIDE DEF line
  <2>. QED
    BY <1>1, <2>1, <2>2
<1>8. (buffer \o wire)' = line \o both
  BY <1>1, <1>3, <1>4
<1>9. /\ Len(line \o both) = Len(line) + 2
      /\ \A i \in 1..Len(line) : (line \o both)[i] = line[i]
      /\ (line \o both)[Len(line) + 1] = <<L + 1, "head">>
      /\ (line \o both)[Len(line) + 2] = <<L + 1, "tail">>
  <2>0. line \in Seq(Pieces) /\ both \in Seq(Pieces)
    BY <1>4, <1>7
  <2>. HIDE DEF line
  <2>1. /\ Len(line \o both) = Len(line) + Len(both)
        /\ \A i \in 1..Len(line) : (line \o both)[i] = line[i]
        /\ \A i \in 1..Len(both) : (line \o both)[Len(line) + i] = both[i]
    BY <2>0, Joined
  <2>2. 1 \in 1..Len(both) /\ 2 \in 1..Len(both)
    BY <1>4
  <2>. QED
    BY <1>4, <2>1, <2>2
<1>10. InLine(line \o both, h)
  <2> SUFFICES ASSUME NEW k \in Nat, k > 0
               PROVE  /\ 2 * k - 1 <= Len(line) + 2 => (line \o both)[2 * k - 1] = <<h + k, "head">>
                      /\ 2 * k <= Len(line) + 2 => (line \o both)[2 * k] = <<h + k, "tail">>
    BY <1>9 DEF InLine
  <2>0. InLine(line, h)
    BY <1>2 DEF ReadUpTo
  <2>. HIDE DEF line, L
  <2>1. CASE k <= L - h
    <3>1. 2 * k - 1 \in 1..Len(line) /\ 2 * k \in 1..Len(line)
      BY <1>7, <2>1
    <3>2. line[2 * k - 1] = <<h + k, "head">> /\ line[2 * k] = <<h + k, "tail">>
      <4>1. 2 * k - 1 <= Len(line) /\ 2 * k <= Len(line)
        BY <1>7, <2>1
      <4>. QED
        BY <2>0, <4>1, InLineAt
    <3>. QED
      BY <1>9, <3>1, <3>2
  <2>2. CASE k = L - h + 1
    <3>1. 2 * k - 1 = Len(line) + 1 /\ 2 * k = Len(line) + 2 /\ h + k = L + 1
      BY <1>1, <1>7, <2>2 DEF L
    <3>. QED
      BY <1>9, <3>1
  <2>3. CASE k > L - h + 1
    <3>1. ~(2 * k - 1 <= Len(line) + 2) /\ ~(2 * k <= Len(line) + 2)
      BY <1>7, <2>3
    <3>. QED
      BY <3>1
  <2>4. k <= L - h \/ k = L - h + 1 \/ k > L - h + 1
    BY <1>7
  <2>. QED
    BY <2>1, <2>2, <2>3, <2>4
<1>11. ToHandle(h)' = ToHandle(h)
  BY <1>1, <1>2, <1>5 DEF ToHandle, ReadUpTo
<1>12. ReadUpTo(h)'
  <2>1. h <= L /\ Len(buffer) <= 1 /\ handled = InOrder(ToHandle(h))
    BY <1>2 DEF ReadUpTo
  <2>2. Len(buffer') + Len(wire') = 2 * (Len(frames') - h) /\ h <= Len(frames')
    BY <1>1, <1>3, <1>5, <1>6, <1>7, <2>1
  <2>3. InLine((buffer \o wire)', h)
    BY <1>8, <1>10
  <2>4. Len(buffer') + Len(wire') <= 2 * (Len(frames') - h)
    BY <1>1, <1>3, <1>5, <1>6, <2>2
  <2>. QED
    BY <1>3, <1>11, <2>1, <2>2, <2>3, <2>4 DEF ReadUpTo
<1>. QED
  BY <1>1, <1>3, <1>5, <1>6, <1>12 DEF FramesInv

LEMMA EmitKeeps == ASSUME StreamedInv, Browser!Emit \/ Browser!Close PROVE StreamedInv'
<1>1. PICK frame \in Kinds : Browser!Put(frame)
  BY DEF Browser!Emit, Browser!Close, Kinds
<1>2. open /\ (open' = open \/ open' = FALSE)
  BY DEF Browser!Emit, Browser!Close
<1>3. UNCHANGED <<busy, conversationId, turn, serving, cut, adopted>>
  BY <1>1 DEF Browser!Put
<1>4. ~cut /\ busy
  BY <1>2 DEF StreamedInv, BusyInv
<1>5. FramesInv'
  BY <1>1, <1>3, <1>4, PutKeepsLine
<1>6. BusyInv' /\ AdoptedInv'
  BY <1>2, <1>3, <1>4 DEF StreamedInv, BusyInv, AdoptedInv
<1>. QED
  BY <1>5, <1>6 DEF StreamedInv

------------------------------------------------------------------------------
LEMMA Twos ==
    ASSUME NEW q \in Nat, NEW p, p = 2 * q \/ p = 2 * q + 1, NEW k \in 1..q
    PROVE  /\ k \in Nat /\ k > 0 /\ 2 * k - 1 <= p /\ 2 * k <= p
           /\ 2 * k - 1 \in 1..p /\ 2 * k \in 1..p
  OBVIOUS

LEMMA OddOrEven ==
    ASSUME NEW q \in Nat, NEW p, p = 2 * q \/ p = 2 * q + 1, NEW i \in 1..p
    PROVE  (\E k \in 1..q : i = 2 * k - 1 \/ i = 2 * k) \/ (i = p /\ p = 2 * q + 1)
<1>1. i \in Nat /\ i >= 1 /\ i <= p
  OBVIOUS
<1>2. PICK k \in Nat : i = 2 * k \/ i = 2 * k + 1
  BY <1>1, Halves
<1>3. CASE i = 2 * k
  <2>1. k \in 1..q
    BY <1>1, <1>3
  <2>. QED
    BY <1>3, <2>1
<1>4. CASE i = 2 * k + 1 /\ k < q
  <2>1. k + 1 \in 1..q /\ i = 2 * (k + 1) - 1
    BY <1>4
  <2>. QED
    BY <2>1
<1>5. CASE i = 2 * k + 1 /\ k >= q
  BY <1>1, <1>5
<1>. QED
  BY <1>2, <1>3, <1>4, <1>5

\* What a read makes of the pieces it has: the frames whose tails are there,
\* all with their heads, and a head without its tail.
LEMMA WholeIs ==
    ASSUME NEW pieces \in Seq(Pieces), NEW h \in Nat, NEW q \in Nat, InLine(pieces, h),
           Len(pieces) = 2 * q \/ Len(pieces) = 2 * q + 1
    PROVE  /\ Browser!Whole(pieces) = [k \in 1..q |-> h + k]
           /\ \A k \in 1..q : h + k \in Browser!Heads(pieces)
<1> DEFINE p == Len(pieces)
           D == {k \in DOMAIN pieces : pieces[k][2] = "tail"}
           f == [k \in 1..q |-> 2 * k]
<1>1. DOMAIN pieces = 1..p /\ p \in Nat
  BY LenProperties
<1>2. ASSUME NEW k \in 1..q
      PROVE  /\ 2 * k - 1 \in 1..p /\ pieces[2 * k - 1] = <<h + k, "head">>
             /\ 2 * k \in 1..p /\ pieces[2 * k] = <<h + k, "tail">>
  <2>1. /\ k \in Nat /\ k > 0 /\ 2 * k - 1 <= p /\ 2 * k <= p
        /\ 2 * k - 1 \in 1..p /\ 2 * k \in 1..p
    BY Twos
  <2>. QED
    BY <2>1, Zenon DEF InLine
<1>3. ASSUME p = 2 * q + 1 PROVE pieces[p] = <<h + q + 1, "head">>
  <2>1. /\ q + 1 \in Nat /\ q + 1 > 0 /\ 2 * (q + 1) - 1 <= p
        /\ p = 2 * (q + 1) - 1 /\ h + q + 1 = h + (q + 1)
    BY <1>3
  <2>2. pieces[2 * (q + 1) - 1] = <<h + (q + 1), "head">>
    BY <2>1, Zenon DEF InLine
  <2>. QED
    BY <2>1, <2>2, Zenon
<1>4. ASSUME NEW i \in 1..p
      PROVE  \/ \E k \in 1..q : i = 2 * k - 1 \/ i = 2 * k
             \/ i = p /\ p = 2 * q + 1
  BY OddOrEven
<1>5. Lists(f, q, D)
  <2>1. \A k \in 1..q : f[k] \in D
    <3> SUFFICES ASSUME NEW k \in 1..q PROVE f[k] \in D
      OBVIOUS
    <3>1. 2 * k \in DOMAIN pieces /\ pieces[2 * k] = <<h + k, "tail">>
      BY <1>1, <1>2, Zenon
    <3>2. pieces[2 * k][2] = "tail"
      BY <3>1
    <3>. QED
      BY <3>1, <3>2 DEF f, D
  <2>2. \A i, j \in 1..q : i < j => f[i] < f[j]
    OBVIOUS
  <2>3. ASSUME NEW d \in D PROVE \E k \in 1..q : f[k] = d
    <3>1. d \in 1..p /\ pieces[d][2] = "tail"
      BY <1>1
    <3>2. ~(d = p /\ p = 2 * q + 1)
      BY <1>3, <3>1
    <3>3. PICK k \in 1..q : d = 2 * k - 1 \/ d = 2 * k
      BY <1>4, <3>1, <3>2
    <3>4. d # 2 * k - 1
      BY <1>2, <3>1
    <3>. QED
      BY <3>3, <3>4
  <2>4. f \in [1..q -> D]
    BY <2>1
  <2>. HIDE DEF f, D
  <2>. QED
    BY <2>2, <2>3, <2>4 DEF Lists
<1>6. Keep(pieces, D) = [k \in 1..q |-> <<h + k, "tail">>]
  <2>1. Keep(pieces, D) = [k \in 1..q |-> pieces[f[k]]]
    <3>1. D \in SUBSET DOMAIN pieces
      OBVIOUS
    <3>. HIDE DEF D, f, Pieces
    <3>. QED
      BY <1>5, <3>1, KeepLists
  <2>. QED
    BY <1>2, <2>1
<1>7. Browser!Whole(pieces) = [k \in 1..q |-> h + k]
  <2>1. Browser!Whole(pieces) = [i \in DOMAIN Keep(pieces, D) |-> Keep(pieces, D)[i][1]]
    BY SameKeep DEF Browser!Whole
  <2>. HIDE DEF D
  <2>2. \A i \in 1..q : <<h + i, "tail">>[1] = h + i
    OBVIOUS
  <2>3. DOMAIN Keep(pieces, D) = 1..q /\ \A i \in 1..q : Keep(pieces, D)[i] = <<h + i, "tail">>
    BY <1>6
  <2>. QED
    BY <2>1, <2>2, <2>3
<1>8. ASSUME NEW k \in 1..q PROVE h + k \in Browser!Heads(pieces)
  <2>1. <<h + k, "head">> \in Browser!Range(pieces)
    BY <1>1, <1>2 DEF Browser!Range
  <2>. QED
    BY <2>1 DEF Browser!Heads
<1>. QED
  BY <1>7, <1>8

LEMMA RestIs ==
    ASSUME NEW pieces \in Seq(Pieces), NEW h \in Nat, NEW q \in Nat, InLine(pieces, h)
    PROVE  /\ Len(pieces) = 2 * q => Browser!Rest(pieces) = <<>>
           /\ Len(pieces) = 2 * q + 1 => Browser!Rest(pieces) = <<<<h + q + 1, "head">>>>
<1>1. Len(pieces) \in Nat /\ Browser!Last(pieces) = pieces[Len(pieces)]
  BY LenProperties DEF Browser!Last
<1>2. ASSUME Len(pieces) = 2 * q PROVE Browser!Rest(pieces) = <<>>
  <2>1. CASE q = 0
    <3>1. pieces = <<>>
      BY <1>2, <2>1, EmptySeq
    <3>. QED
      BY <3>1 DEF Browser!Rest
  <2>2. CASE q > 0
    <3>1. pieces[2 * q] = <<h + q, "tail">>
      <4>1. q > 0 /\ 2 * q <= Len(pieces)
        BY <1>1, <1>2, <2>2
      <4>. QED
        BY <4>1, Zenon DEF InLine
    <3>. QED
      BY <1>1, <1>2, <3>1 DEF Browser!Rest
  <2>. QED
    BY <2>1, <2>2
<1>3. ASSUME Len(pieces) = 2 * q + 1 PROVE Browser!Rest(pieces) = <<<<h + q + 1, "head">>>>
  <2>1. /\ q + 1 \in Nat /\ q + 1 > 0 /\ h + q + 1 = h + (q + 1)
        /\ Len(pieces) = 2 * (q + 1) - 1 /\ 2 * (q + 1) - 1 <= Len(pieces)
    BY <1>3
  <2>2. pieces[2 * (q + 1) - 1] = <<h + (q + 1), "head">>
    BY <2>1, Zenon DEF InLine
  <2>3. pieces[Len(pieces)] = <<h + q + 1, "head">>
    BY <2>1, <2>2, Zenon
  <2>4. pieces # <<>>
    BY <1>1, <1>3, EmptySeq
  <2>. QED
    BY <1>1, <2>3, <2>4 DEF Browser!Rest
<1>. QED
  BY <1>2, <1>3

Wanted(all, heads) == {k \in DOMAIN all : all[k] \in heads /\ frames[all[k]] # "done"}

\* The frames a read handles are the next ones, but for the end marks.
LEMMA HandledIs ==
    ASSUME NEW h \in Nat, NEW q \in Nat, frames \in Seq(Kinds), h + q <= Len(frames),
           NEW heads, \A k \in 1..q : h + k \in heads,
           NEW all, all = [k \in 1..q |-> h + k]
    PROVE  InOrder(ToHandle(h)) \o Keep(all, Wanted(all, heads)) = InOrder(ToHandle(h + q))
<1> DEFINE D == ToHandle(h + q)
           low == ToHandle(h)
           high == {k \in 1..q : h + k \in D}
           wanted == Wanted(all, heads)
<1>1. D \in SUBSET (1..(h + q)) /\ low = {i \in D : i <= h}
  BY DEF ToHandle
<1>2. wanted = high
  <2>1. \A k \in 1..q : all[k] = h + k /\ h + k \in heads /\ h + k \in 1..(h + q)
    OBVIOUS
  <2>2. \A k \in 1..q : frames[h + k] # "done" <=> h + k \in D
    BY <2>1 DEF ToHandle
  <2>3. DOMAIN all = 1..q
    OBVIOUS
  <2>. QED
    BY <2>1, <2>2, <2>3 DEF Wanted
<1>3. high \in SUBSET (1..q) /\ Cardinality(high) \in Nat
  <2>1. high \in SUBSET (1..q)
    OBVIOUS
  <2>. HIDE DEF high
  <2>. QED
    BY <2>1, PositionsFinite
<1>4. all \in Seq(Nat) /\ DOMAIN all = 1..q /\ \A k \in 1..q : all[k] = h + k
  OBVIOUS
<1> DEFINE whole == Keep(all, high)
<1>5. /\ whole \in Seq(Nat) /\ Len(whole) = Cardinality(high)
      /\ \A n \in 1..Cardinality(high) : Nth(high, n) \in 1..q /\ whole[n] = all[Nth(high, n)]
  <2>. HIDE DEF high
  <2>. QED
    BY <1>3, <1>4, KeepTyped
<1>6. InOrder(D) = InOrder(low) \o whole
  <2>1. low = UpTo(D, h) /\ high = After(D, h, q)
    BY <1>1 DEF UpTo, After
  <2>2. whole = Shifted(high, h)
    <3>1. \A n \in 1..Cardinality(high) : all[Nth(high, n)] = h + Nth(high, n)
      BY <1>4, <1>5
    <3>. QED
      BY <3>1 DEF Keep, Shifted
  <2>. HIDE DEF low, D, high, whole
  <2>. QED
    BY <1>1, <2>1, <2>2, InOrderSplit
<1>. QED
  BY <1>1, <1>2, <1>6
------------------------------------------------------------------------------
LEMMA InLinePrefix ==
    ASSUME NEW s \in Seq(Pieces), NEW t \in Seq(Pieces), NEW h, InLine(s, h),
           Len(t) <= Len(s), \A i \in 1..Len(t) : t[i] = s[i]
    PROVE  InLine(t, h)
<1>1. Len(s) \in Nat /\ Len(t) \in Nat
  BY LenProperties
<1> SUFFICES ASSUME NEW k \in Nat, k > 0
             PROVE  /\ 2 * k - 1 <= Len(t) => t[2 * k - 1] = <<h + k, "head">>
                    /\ 2 * k <= Len(t) => t[2 * k] = <<h + k, "tail">>
  BY DEF InLine
<1>2. ASSUME 2 * k - 1 <= Len(t) PROVE t[2 * k - 1] = <<h + k, "head">>
  <2>1. 2 * k - 1 \in 1..Len(t) /\ 2 * k - 1 <= Len(s)
    BY <1>1, <1>2
  <2>2. s[2 * k - 1] = <<h + k, "head">>
    BY <2>1, Zenon DEF InLine
  <2>. QED
    BY <2>1, <2>2
<1>3. ASSUME 2 * k <= Len(t) PROVE t[2 * k] = <<h + k, "tail">>
  <2>1. 2 * k \in 1..Len(t) /\ 2 * k <= Len(s)
    BY <1>1, <1>3
  <2>2. s[2 * k] = <<h + k, "tail">>
    BY <2>1, Zenon DEF InLine
  <2>. QED
    BY <2>1, <2>2
<1>. QED
  BY <1>2, <1>3

\* The line without its first q frames.
LEMMA InLineSuffix ==
    ASSUME NEW s \in Seq(Pieces), NEW t \in Seq(Pieces), NEW h \in Nat, NEW q \in Nat, InLine(s, h),
           Len(t) + 2 * q = Len(s), \A i \in 1..Len(t) : t[i] = s[i + 2 * q]
    PROVE  InLine(t, h + q)
<1>1. Len(s) \in Nat /\ Len(t) \in Nat
  BY LenProperties
<1> SUFFICES ASSUME NEW k \in Nat, k > 0
             PROVE  /\ 2 * k - 1 <= Len(t) => t[2 * k - 1] = <<(h + q) + k, "head">>
                    /\ 2 * k <= Len(t) => t[2 * k] = <<(h + q) + k, "tail">>
  BY DEF InLine
<1>2. q + k \in Nat /\ q + k > 0 /\ h + (q + k) = (h + q) + k
  OBVIOUS
<1>3. ASSUME 2 * k - 1 <= Len(t) PROVE t[2 * k - 1] = <<(h + q) + k, "head">>
  <2>1. /\ 2 * k - 1 \in 1..Len(t) /\ 2 * (q + k) - 1 <= Len(s)
        /\ (2 * k - 1) + 2 * q = 2 * (q + k) - 1
    BY <1>1, <1>3
  <2>2. s[2 * (q + k) - 1] = <<h + (q + k), "head">>
    BY <1>2, <2>1, Zenon DEF InLine
  <2>3. t[2 * k - 1] = s[(2 * k - 1) + 2 * q]
    BY <2>1, Zenon
  <2>. QED
    BY <1>2, <2>1, <2>2, <2>3, Zenon
<1>4. ASSUME 2 * k <= Len(t) PROVE t[2 * k] = <<(h + q) + k, "tail">>
  <2>1. /\ 2 * k \in 1..Len(t) /\ 2 * (q + k) <= Len(s)
        /\ 2 * k + 2 * q = 2 * (q + k)
    BY <1>1, <1>4
  <2>2. s[2 * (q + k)] = <<h + (q + k), "tail">>
    BY <1>2, <2>1, Zenon DEF InLine
  <2>3. t[2 * k] = s[2 * k + 2 * q]
    BY <2>1, Zenon
  <2>. QED
    BY <1>2, <2>1, <2>2, <2>3, Zenon
<1>. QED
  BY <1>3, <1>4

LEMMA BreakKeeps == ASSUME StreamedInv, Browser!Break PROVE StreamedInv'
<1>1. /\ frames \in Seq(Kinds) /\ wire \in Seq(Pieces) /\ buffer \in Seq(Pieces)
      /\ Len(frames) \in Nat /\ Len(wire) \in Nat /\ Len(buffer) \in Nat
  BY LenProperties DEF StreamedInv, FramesInv
<1>2. PICK h \in Nat : ReadUpTo(h)
  BY DEF StreamedInv, FramesInv
<1>3. PICK n \in 0..Len(wire) : wire' = SubSeq(wire, 1, n)
  BY DEF Browser!Break
<1>4. /\ UNCHANGED <<busy, conversationId, turn, serving, frames, buffer, handled, adopted>>
      /\ open /\ open' = FALSE /\ cut' = TRUE
  BY DEF Browser!Break
<1>5. wire' \in Seq(Pieces) /\ Len(wire') = n /\ \A i \in 1..n : wire'[i] = wire[i]
  <2>1. 0 \in Nat /\ n \in Nat /\ 0 <= n /\ n <= Len(wire) /\ 0 + 1 = 1 /\ n - 0 = n
    BY <1>1
  <2>2. /\ SubSeq(wire, 0 + 1, n) \in Seq(Pieces) /\ Len(SubSeq(wire, 0 + 1, n)) = n - 0
        /\ \A i \in 1..(n - 0) : SubSeq(wire, 0 + 1, n)[i] = wire[0 + i]
    <3>. HIDE DEF Pieces
    <3>. QED
      BY <1>1, <2>1, SubSeqIs, Zenon
  <2>3. \A i \in 1..n : 0 + i = i
    OBVIOUS
  <2>. QED
    BY <1>3, <2>1, <2>2, <2>3
<1>6. InLine(buffer \o wire', h)
  <2>1. InLine(buffer \o wire, h)
    BY <1>2 DEF ReadUpTo
  <2>2. /\ buffer \o wire \in Seq(Pieces) /\ Len(buffer \o wire) = Len(buffer) + Len(wire)
        /\ \A i \in 1..Len(buffer) : (buffer \o wire)[i] = buffer[i]
        /\ \A i \in 1..Len(wire) : (buffer \o wire)[Len(buffer) + i] = wire[i]
    BY <1>1, Joined
  <2>3. /\ buffer \o wire' \in Seq(Pieces) /\ Len(buffer \o wire') = Len(buffer) + n
        /\ \A i \in 1..Len(buffer) : (buffer \o wire')[i] = buffer[i]
        /\ \A i \in 1..n : (buffer \o wire')[Len(buffer) + i] = wire'[i]
    BY <1>1, <1>5, Joined
  <2> DEFINE s == buffer \o wire
             t == buffer \o wire'
  <2>. HIDE DEF s, t
  <2>4. ASSUME NEW i \in 1..Len(t) PROVE t[i] = s[i]
    <3>1. i \in 1..Len(buffer) \/ (i - Len(buffer) \in 1..n /\ Len(buffer) + (i - Len(buffer)) = i)
      BY <1>1, <2>3 DEF t
    <3>2. 1..n \subseteq 1..Len(wire)
      OBVIOUS
    <3>. QED
      BY <1>5, <2>2, <2>3, <3>1, <3>2 DEF s, t
  <2>5. s \in Seq(Pieces) /\ t \in Seq(Pieces) /\ Len(t) <= Len(s) /\ InLine(s, h)
    BY <1>1, <2>1, <2>2, <2>3 DEF s, t
  <2>6. InLine(t, h)
    BY <2>4, <2>5, InLinePrefix
  <2>. QED
    BY <2>6 DEF t
<1>7. ReadUpTo(h)'
  <2>1. /\ h <= Len(frames) /\ Len(buffer) <= 1 /\ handled = InOrder(ToHandle(h))
        /\ Len(buffer) + Len(wire) <= 2 * (Len(frames) - h)
    BY <1>2 DEF ReadUpTo
  <2>2. ToHandle(h)' = ToHandle(h)
    BY <1>4 DEF ToHandle
  <2>3. (buffer \o wire)' = buffer \o wire'
    BY <1>4
  <2>4. Len(buffer) + n <= 2 * (Len(frames) - h)
    BY <1>1, <2>1
  <2>. QED
    BY <1>4, <1>5, <1>6, <2>1, <2>2, <2>3, <2>4 DEF ReadUpTo
<1>8. FramesInv'
  BY <1>1, <1>4, <1>5, <1>7 DEF FramesInv
<1>9. BusyInv' /\ AdoptedInv'
  BY <1>4 DEF StreamedInv, BusyInv, AdoptedInv
<1>. QED
  BY <1>8, <1>9 DEF StreamedInv

LEMMA OverKeeps == ASSUME StreamedInv, Browser!Over PROVE StreamedInv'
<1>1. /\ UNCHANGED <<conversationId, turn, serving, frames, open, wire, buffer, handled, cut, adopted>>
      /\ busy' = FALSE /\ ~open /\ wire = <<>>
  BY DEF Browser!Over
<1>2. FramesInv'
  BY <1>1 DEF StreamedInv, FramesInv, ReadUpTo, ToHandle
<1>3. BusyInv' /\ AdoptedInv'
  BY <1>1 DEF StreamedInv, BusyInv, AdoptedInv
<1>. QED
  BY <1>2, <1>3 DEF StreamedInv

\* The pieces a read has, and what it leaves, as stretches of the line.
LEMMA ReadCuts ==
    ASSUME wire \in Seq(Pieces), buffer \in Seq(Pieces), NEW n \in 1..Len(wire),
           NEW pieces, pieces = buffer \o SubSeq(wire, 1, n),
           NEW rest, rest = SubSeq(wire, n + 1, Len(wire)),
           NEW line, line = buffer \o wire,
           NEW p, p = Len(buffer) + n, NEW l, l = Len(buffer) + Len(wire)
    PROVE  /\ p \in Nat /\ l \in Nat /\ p <= l /\ p > 0
           /\ line \in Seq(Pieces) /\ Len(line) = l
           /\ pieces \in Seq(Pieces) /\ Len(pieces) = p /\ \A i \in 1..p : pieces[i] = line[i]
           /\ rest \in Seq(Pieces) /\ Len(rest) = l - p /\ \A i \in 1..(l - p) : rest[i] = line[p + i]
<1>1. Len(wire) \in Nat /\ Len(buffer) \in Nat /\ n \in Nat /\ n <= Len(wire) /\ n > 0
  BY LenProperties
<1>2. p \in Nat /\ l \in Nat /\ p <= l /\ p > 0
  BY <1>1
<1> DEFINE piece == SubSeq(wire, 1, n)
<1>3. piece \in Seq(Pieces) /\ Len(piece) = n /\ \A i \in 1..n : piece[i] = wire[i]
  <2>1. 0 \in Nat /\ n \in Nat /\ 0 <= n /\ n <= Len(wire) /\ 0 + 1 = 1 /\ n - 0 = n
    BY <1>1
  <2>2. /\ SubSeq(wire, 0 + 1, n) \in Seq(Pieces) /\ Len(SubSeq(wire, 0 + 1, n)) = n - 0
        /\ \A i \in 1..(n - 0) : SubSeq(wire, 0 + 1, n)[i] = wire[0 + i]
    <3>. HIDE DEF Pieces
    <3>. QED
      BY <1>1, <2>1, SubSeqIs, Zenon
  <2>3. \A i \in 1..n : 0 + i = i
    OBVIOUS
  <2>. QED
    BY <2>1, <2>2, <2>3
<1>4. /\ rest \in Seq(Pieces) /\ Len(rest) = Len(wire) - n
      /\ \A i \in 1..(Len(wire) - n) : rest[i] = wire[n + i]
  <2>1. n \in Nat /\ Len(wire) \in Nat /\ n <= Len(wire) /\ Len(wire) <= Len(wire)
    BY <1>1
  <2>. HIDE DEF Pieces
  <2>. QED
    BY <2>1, SubSeqIs, Zenon
<1>5. /\ line \in Seq(Pieces) /\ Len(line) = l
      /\ \A i \in 1..Len(buffer) : line[i] = buffer[i]
      /\ \A i \in 1..Len(wire) : line[Len(buffer) + i] = wire[i]
  BY Joined
<1>. HIDE DEF piece
<1>6. /\ pieces \in Seq(Pieces) /\ Len(pieces) = Len(buffer) + Len(piece)
      /\ \A i \in 1..Len(buffer) : pieces[i] = buffer[i]
      /\ \A i \in 1..Len(piece) : pieces[Len(buffer) + i] = piece[i]
  BY <1>3, Joined DEF piece
<1>7. ASSUME NEW i \in 1..p PROVE pieces[i] = line[i]
  <2>1. \/ i \in 1..Len(buffer)
        \/ i - Len(buffer) \in 1..n /\ i - Len(buffer) \in 1..Len(wire) /\ Len(buffer) + (i - Len(buffer)) = i
    BY <1>1
  <2>. QED
    BY <1>3, <1>5, <1>6, <2>1
<1>8. ASSUME NEW i \in 1..(l - p) PROVE rest[i] = line[p + i]
  <2>1. i \in 1..(Len(wire) - n) /\ n + i \in 1..Len(wire) /\ p + i = Len(buffer) + (n + i)
    BY <1>1
  <2>. QED
    BY <1>4, <1>5, <2>1
<1>9. Len(pieces) = p /\ Len(rest) = l - p
  BY <1>1, <1>3, <1>4, <1>6
<1>. QED
  BY <1>2, <1>4, <1>5, <1>6, <1>7, <1>8, <1>9

\* The line is what was read and what was not.
Cut(line, pieces, rest) ==
    /\ Len(pieces) <= Len(line) /\ Len(rest) = Len(line) - Len(pieces)
    /\ \A i \in 1..Len(pieces) : pieces[i] = line[i]
    /\ \A i \in 1..(Len(line) - Len(pieces)) : rest[i] = line[Len(pieces) + i]

\* What is left after a read is the line without the frames it handled.
LEMMA ReadLeaves ==
    ASSUME NEW pieces \in Seq(Pieces), NEW rest \in Seq(Pieces), NEW line \in Seq(Pieces),
           Cut(line, pieces, rest), NEW h \in Nat, NEW q \in Nat, InLine(line, h),
           Len(pieces) = 2 * q \/ Len(pieces) = 2 * q + 1
    PROVE  /\ Browser!Rest(pieces) \in Seq(Pieces) /\ Len(Browser!Rest(pieces)) <= 1
           /\ Len(Browser!Rest(pieces)) + Len(rest) = Len(line) - 2 * q
           /\ InLine(Browser!Rest(pieces) \o rest, h + q)
<1>0a. PICK p \in Nat, l \in Nat : p = Len(pieces) /\ l = Len(line)
  BY LenProperties
<1>0b. PICK left : left = Browser!Rest(pieces)
  OBVIOUS
<1>0. p = Len(pieces) /\ l = Len(line) /\ left = Browser!Rest(pieces)
  BY <1>0a, <1>0b
<1>1. /\ p \in Nat /\ l \in Nat /\ p <= l /\ Len(rest) = l - p
      /\ \A i \in 1..p : pieces[i] = line[i]
      /\ \A i \in 1..(l - p) : rest[i] = line[p + i]
      /\ p = 2 * q \/ p = 2 * q + 1
  BY <1>0 DEF Cut
<1>2. InLine(pieces, h)
  BY <1>0, <1>1, InLinePrefix
<1> SUFFICES /\ left \in Seq(Pieces) /\ Len(left) <= 1 /\ Len(left) + Len(rest) = l - 2 * q
             /\ InLine(left \o rest, h + q)
  BY <1>0
<1>3. CASE p = 2 * q
  <2>1. left = <<>>
    BY <1>0, <1>2, <1>3, RestIs
  <2>2. left \o rest = rest /\ Len(left) = 0 /\ left \in Seq(Pieces)
    BY <2>1, EmptySeq
  <2>3. Len(rest) + 2 * q = l /\ \A i \in 1..Len(rest) : i + 2 * q = p + i
    BY <1>1, <1>3
  <2>4. \A i \in 1..Len(rest) : rest[i] = line[i + 2 * q]
    BY <1>1, <2>3
  <2>5. InLine(rest, h + q)
    BY <1>0, <2>3, <2>4, InLineSuffix
  <2>. QED
    BY <1>1, <1>3, <2>2, <2>5
<1>4. CASE p = 2 * q + 1
  <2>1. left = <<<<h + q + 1, "head">>>>
    BY <1>0, <1>2, <1>4, RestIs
  <2>2. left \in Seq(Pieces) /\ Len(left) = 1 /\ left[1] = <<h + q + 1, "head">>
    BY <2>1 DEF Pieces
  <2>3. pieces[p] = <<h + q + 1, "head">>
    <3>1. /\ q + 1 \in Nat /\ q + 1 > 0 /\ h + q + 1 = h + (q + 1)
          /\ p = 2 * (q + 1) - 1 /\ 2 * (q + 1) - 1 <= p
      BY ONLY <1>1, <1>4, h \in Nat, q \in Nat
    <3>2. pieces[2 * (q + 1) - 1] = <<h + (q + 1), "head">>
      BY <1>0, <1>2, <3>1, Zenon DEF InLine
    <3>. QED
      BY <3>1, <3>2, Zenon
  <2>. HIDE DEF Pieces
  <2> DEFINE t == left \o rest
  <2>4. /\ t \in Seq(Pieces) /\ Len(t) = Len(left) + Len(rest)
        /\ \A i \in 1..Len(left) : t[i] = left[i]
        /\ \A i \in 1..Len(rest) : t[Len(left) + i] = rest[i]
    BY <2>2, Joined
  <2>. HIDE DEF t
  <2>5. Len(t) + 2 * q = l /\ Len(t) = 1 + (l - p)
    <3>1. Len(t) = 1 + Len(rest)
      BY <2>2, <2>4
    <3>2. Len(rest) = l - p
      BY <1>1
    <3>. QED
      BY ONLY <1>1, <1>4, <3>1, <3>2, q \in Nat
  <2>6. ASSUME NEW i \in 1..Len(t) PROVE t[i] = line[i + 2 * q]
    <3>1. CASE i = 1
      <4>1. 1 \in 1..Len(left) /\ p \in 1..p /\ i + 2 * q = p
        BY <1>1, <1>4, <2>2, <3>1
      <4>2. t[1] = left[1] /\ pieces[p] = line[p]
        BY <1>1, <2>4, <4>1
      <4>. QED
        BY <2>2, <2>3, <3>1, <4>1, <4>2
    <3>2. CASE i # 1
      <4>1. i - 1 \in 1..(l - p) /\ Len(left) + (i - 1) = i /\ p + (i - 1) = i + 2 * q
        BY <1>1, <1>4, <2>2, <2>5, <3>2
      <4>2. t[Len(left) + (i - 1)] = rest[i - 1] /\ rest[i - 1] = line[p + (i - 1)]
        BY <1>1, <2>4, <4>1
      <4>. QED
        BY <4>1, <4>2
    <3>. QED
      BY <3>1, <3>2
  <2>7. InLine(t, h + q)
    BY <1>0, <2>4, <2>5, <2>6, InLineSuffix
  <2>. QED
    BY <1>1, <1>4, <2>2, <2>4, <2>5, <2>7 DEF t
<1>. QED
  BY <1>1, <1>3, <1>4

LEMMA NoHalfLeft ==
    ASSUME NEW b \in Nat, b <= 1, NEW h \in Nat, NEW n \in Nat, h <= n, b = 2 * (n - h)
    PROVE  h = n
  OBVIOUS

LEMMA ReadKeeps == ASSUME StreamedInv, Browser!Read PROVE StreamedInv'
<1>1. /\ frames \in Seq(Kinds) /\ wire \in Seq(Pieces) /\ buffer \in Seq(Pieces)
      /\ Len(frames) \in Nat /\ Len(wire) \in Nat /\ Len(buffer) \in Nat
  BY LenProperties DEF StreamedInv, FramesInv
<1>2. PICK h \in Nat : ReadUpTo(h)
  BY DEF StreamedInv, FramesInv
<1>3. busy /\ UNCHANGED <<busy, turn, serving, frames, open, cut>>
  BY DEF Browser!Read
<1>4a. PICK n \in 1..Len(wire) : \E pieces, all, whole :
          /\ pieces = buffer \o SubSeq(wire, 1, n)
          /\ all = Browser!Whole(pieces)
          /\ whole = Keep(all, Wanted(all, Browser!Heads(pieces)))
          /\ wire' = SubSeq(wire, n + 1, Len(wire))
          /\ buffer' = Browser!Rest(pieces)
          /\ handled' = handled \o whole
          /\ \/ conversationId' = serving /\ adopted' = adopted \cup {serving}
             \/ conversationId' = conversationId /\ adopted' = adopted
  BY SameKeep DEF Browser!Read, Wanted
<1>4. PICK pieces, all, whole :
          /\ pieces = buffer \o SubSeq(wire, 1, n)
          /\ all = Browser!Whole(pieces)
          /\ whole = Keep(all, Wanted(all, Browser!Heads(pieces)))
          /\ wire' = SubSeq(wire, n + 1, Len(wire))
          /\ buffer' = Browser!Rest(pieces)
          /\ handled' = handled \o whole
          /\ \/ conversationId' = serving /\ adopted' = adopted \cup {serving}
             \/ conversationId' = conversationId /\ adopted' = adopted
  BY <1>4a, Zenon
<1> DEFINE line == buffer \o wire
           rest == wire'
           p == Len(buffer) + n
           l == Len(buffer) + Len(wire)
<1>5. /\ p \in Nat /\ l \in Nat /\ p <= l /\ p > 0
      /\ line \in Seq(Pieces) /\ Len(line) = l
      /\ pieces \in Seq(Pieces) /\ Len(pieces) = p /\ \A i \in 1..p : pieces[i] = line[i]
      /\ rest \in Seq(Pieces) /\ Len(rest) = l - p /\ \A i \in 1..(l - p) : rest[i] = line[p + i]
  <2>. HIDE DEF line, p, l
  <2>. QED
    BY <1>1, <1>4, ReadCuts DEF line, p, l
<1>6. PICK q \in Nat : p = 2 * q \/ p = 2 * q + 1
  BY <1>5, Halves
<1>7. /\ h <= Len(frames) /\ InLine(line, h) /\ handled = InOrder(ToHandle(h))
      /\ l <= 2 * (Len(frames) - h) /\ (~cut => l = 2 * (Len(frames) - h))
  BY <1>2 DEF ReadUpTo
<1>. HIDE DEF line, p, l, rest
<1>8. /\ buffer' \in Seq(Pieces) /\ Len(buffer') <= 1 /\ Len(buffer') + Len(rest) = l - 2 * q
      /\ InLine(buffer' \o rest, h + q)
  <2>. HIDE DEF Pieces
  <2>1. buffer' = Browser!Rest(pieces) /\ p = Len(pieces) /\ l = Len(line)
    BY <1>4, <1>5
  <2>2. Cut(line, pieces, rest) /\ (Len(pieces) = 2 * q \/ Len(pieces) = 2 * q + 1)
    BY <1>5, <1>6 DEF Cut
  <2>3. /\ Browser!Rest(pieces) \in Seq(Pieces) /\ Len(Browser!Rest(pieces)) <= 1
        /\ Len(Browser!Rest(pieces)) + Len(rest) = Len(line) - 2 * q
        /\ InLine(Browser!Rest(pieces) \o rest, h + q)
    BY <1>5, <1>7, <2>2, ReadLeaves
  <2>. QED
    BY <2>1, <2>3
<1>9. InLine(pieces, h)
  <2>1. Len(pieces) <= Len(line) /\ \A i \in 1..Len(pieces) : pieces[i] = line[i]
    BY <1>5
  <2>. QED
    BY <1>5, <1>7, <2>1, InLinePrefix
<1>10. h + q \in Nat /\ h + q <= Len(frames)
  BY <1>1, <1>5, <1>6, <1>7
<1>11. handled' = InOrder(ToHandle(h + q))
  <2>1. Len(pieces) = 2 * q \/ Len(pieces) = 2 * q + 1
    BY <1>5, <1>6
  <2>2. all = [k \in 1..q |-> h + k] /\ \A k \in 1..q : h + k \in Browser!Heads(pieces)
    BY <1>4, <1>5, <1>9, <2>1, WholeIs
  <2>3. InOrder(ToHandle(h)) \o whole = InOrder(ToHandle(h + q))
    BY <1>1, <1>4, <1>10, <2>2, HandledIs
  <2>. QED
    BY <1>4, <1>7, <2>3
<1>12. ReadUpTo(h + q)'
  <2>1. ToHandle(h + q)' = ToHandle(h + q) /\ (buffer \o wire)' = buffer' \o rest
    BY <1>3 DEF ToHandle, rest
  <2>2. Len(buffer') + Len(wire') = l - 2 * q
    BY <1>8 DEF rest
  <2>3. /\ l - 2 * q <= 2 * (Len(frames) - (h + q))
        /\ ~cut => l - 2 * q = 2 * (Len(frames) - (h + q))
    BY <1>1, <1>5, <1>7
  <2>. QED
    BY <1>3, <1>8, <1>10, <1>11, <2>1, <2>2, <2>3 DEF ReadUpTo
<1>13. FramesInv'
  BY <1>1, <1>3, <1>5, <1>8, <1>10, <1>12 DEF FramesInv, rest
<1>14. BusyInv'
  BY <1>3 DEF StreamedInv, BusyInv
<1>15. AdoptedInv'
  <2>1. turn > 0 /\ serving \in 1..MaxTurns /\ serving # NewPage
    BY <1>3, BrowserAssumption DEF StreamedInv, BusyInv, AdoptedInv
  <2>2. CASE conversationId' = serving /\ adopted' = adopted \cup {serving}
    <3>1. adopted' = {serving}
      BY <2>1, <2>2 DEF StreamedInv, AdoptedInv
    <3>. QED
      BY <1>3, <2>1, <2>2, <3>1 DEF AdoptedInv
  <2>3. CASE conversationId' = conversationId /\ adopted' = adopted
    BY <1>3, <2>3 DEF StreamedInv, AdoptedInv
  <2>. QED
    BY <1>4, <2>2, <2>3
<1>. QED
  BY <1>13, <1>14, <1>15 DEF StreamedInv

LEMMA StreamedStep == StreamedInv /\ [Browser!StreamNext]_streamVars => StreamedInv'
<1> SUFFICES ASSUME StreamedInv, [Browser!StreamNext]_streamVars PROVE StreamedInv'
  OBVIOUS
<1>1. CASE UNCHANGED streamVars
  BY <1>1 DEF streamVars, StreamedInv, FramesInv, ReadUpTo, ToHandle, BusyInv, AdoptedInv
<1>. QED
  BY <1>1, SendKeeps, EmitKeeps, BreakKeeps, ReadKeeps, OverKeeps DEF Browser!StreamNext

\* What was handled is what is to be handled, so far.
LEMMA HandledSoFar ==
    ASSUME NEW h \in Nat, NEW n \in Nat, h <= n, frames \in Seq(Kinds), n = Len(frames)
    PROVE  /\ {InOrder(ToHandle(h))[i] : i \in DOMAIN InOrder(ToHandle(h))} = ToHandle(h)
           /\ IsPrefix(InOrder(ToHandle(h)), InOrder(ToHandle(n)))
<1>1. ToHandle(h) \in SUBSET (1..h) /\ ToHandle(n) \in SUBSET (1..n)
  BY DEF ToHandle
<1>2. {InOrder(ToHandle(h))[i] : i \in DOMAIN InOrder(ToHandle(h))} = ToHandle(h)
  BY <1>1, InOrderAll
<1>3. PICK q \in Nat : q = n - h
  <2>1. n - h \in Nat
    OBVIOUS
  <2>. QED
    BY <2>1
<1>4. n = h + q
  BY <1>3
<1>5. UpTo(ToHandle(n), h) = ToHandle(h) /\ After(ToHandle(n), h, q) \in SUBSET (1..q)
  BY <1>4 DEF UpTo, After, ToHandle
<1> DEFINE more == Shifted(After(ToHandle(n), h, q), h)
           soFar == InOrder(ToHandle(h))
<1>6. InOrder(ToHandle(n)) = soFar \o more
  BY <1>1, <1>4, <1>5, InOrderSplit
<1>7. soFar \in Seq(Nat)
  <2>1. ToHandle(h) \subseteq Nat
    BY <1>1
  <2>. QED
    BY <1>1, <2>1, InOrderTyped
<1>8. more \in Seq(Nat)
  <2> DEFINE D == After(ToHandle(n), h, q)
  <2>1. D \in SUBSET (1..q)
    BY <1>5
  <2>. HIDE DEF D
  <2>2. Cardinality(D) \in Nat /\ \A i \in 1..Cardinality(D) : Nth(D, i) \in D
    BY <2>1, PositionsFinite, NthIs
  <2>3. \A i \in 1..Cardinality(D) : h + Nth(D, i) \in Nat
    <3>1. \A d \in D : h + d \in Nat
      BY <2>1
    <3>. QED
      BY <2>2, <3>1
  <2>4. Shifted(D, h) \in Seq(Nat)
    BY <2>2, <2>3 DEF Shifted
  <2>. QED
    BY <2>4 DEF D
<1>. HIDE DEF more, soFar
<1>9. IsPrefix(soFar, soFar \o more)
  <2>1. Len(soFar) \in Nat /\ Len(more) \in Nat
    BY <1>7, <1>8, LenProperties
  <2>2. /\ soFar \o more \in Seq(Nat) /\ Len(soFar \o more) = Len(soFar) + Len(more)
        /\ \A i \in 1..Len(soFar) : (soFar \o more)[i] = soFar[i]
    BY <1>7, <1>8, ConcatIs
  <2>3. Len(soFar) <= Len(soFar \o more)
    BY <2>1, <2>2
  <2>. QED
    BY <1>7, <2>2, <2>3, PrefixIs
<1>. QED
  BY <1>2, <1>6, <1>9 DEF soFar

\* app.js, server.py: however the network cuts the stream, and wherever it breaks,
\* the page handles whole frames, each once and in order, all of them when nothing
\* broke, and stays in the first conversation it was given.
THEOREM FramesArriveWhole == Spec => []FramesHandledWhole
<1>1. Init => StreamedInv
  BY StreamBegins DEF Init
<1>2. StreamedInv /\ [Next]_vars => StreamedInv'
  BY StreamedStep, StepsOfParts
<1>3. StreamedInv => FramesHandledWhole
  <2> SUFFICES ASSUME StreamedInv PROVE Browser!FramesHandledWhole
    BY DEF FramesHandledWhole
  <2>1. PICK h \in Nat : ReadUpTo(h)
    BY DEF StreamedInv, FramesInv
  <2>2. frames \in Seq(Kinds) /\ Len(frames) \in Nat /\ Len(buffer) \in Nat /\ DOMAIN frames = 1..Len(frames)
    BY LenProperties DEF StreamedInv, FramesInv
  <2>3. h <= Len(frames) /\ handled = InOrder(ToHandle(h))
    BY <2>1 DEF ReadUpTo
  <2>4. {i \in DOMAIN frames : frames[i] # "done"} = ToHandle(Len(frames))
    BY <2>2 DEF ToHandle
  <2>5. /\ Browser!Range(handled) = ToHandle(h)
        /\ Browser!IsPrefix(handled, Browser!InOrder(ToHandle(Len(frames))))
    BY <2>2, <2>3, HandledSoFar, SameKeep DEF Browser!Range, Browser!IsPrefix, IsPrefix
  <2>6. ASSUME turn > 0, ~busy, ~cut PROVE h = Len(frames)
    <3>1. wire = <<>> /\ Len(wire) = 0
      BY <2>6, EmptySeq DEF StreamedInv, BusyInv
    <3>2. Len(buffer) <= 1 /\ Len(buffer) + Len(wire) = 2 * (Len(frames) - h)
      BY <2>1, <2>6 DEF ReadUpTo
    <3>3. Len(frames) - h \in Nat /\ Len(buffer) = 2 * (Len(frames) - h)
      BY <2>2, <2>3, <3>1, <3>2
    <3>. QED
      BY <2>2, <2>3, <3>2, <3>3, NoHalfLeft
  <2>7. Browser!Cardinality(adopted) <= 1 /\ conversationId \in adopted \cup {NewPage}
    <3>1. Browser!Cardinality(adopted) = Cardinality(adopted)
      BY DEF Browser!Cardinality, Browser!IsFiniteSet, Cardinality, IsFiniteSet
    <3>2. adopted = {} \/ adopted = {conversationId}
      BY DEF StreamedInv, AdoptedInv
    <3>3. Cardinality({}) = 0 /\ Cardinality({conversationId}) = 1
      BY FS_EmptySet, FS_Singleton
    <3>4. Cardinality(adopted) <= 1
      BY <3>2, <3>3
    <3>. QED
      BY <3>1, <3>4 DEF StreamedInv, AdoptedInv
  <2>. QED
    BY <2>4, <2>5, <2>6, <2>7 DEF Browser!FramesHandledWhole
<1>. QED
  BY <1>1, <1>2, <1>3, PTL DEF Spec
------------------------------------------------------------------------------
(***************************************************************************)
(* Runs and charts: any conversations, queries, tables and arguments       *)
(***************************************************************************)

Names == UNION {{table.rows[i].company : i \in DOMAIN table.rows} : table \in Results}
Row == [company : Names, at : Int, value : Int \cup {NoValue}]
Table == [period : BOOLEAN, numeric : BOOLEAN, rows : Seq(Row)]

LEMMA TablesTyped ==
    /\ Results \subseteq Table /\ DOMAIN OwnerOf = Conversations
    /\ MaxRows \in Nat /\ MaxCsv \in Nat
  BY AnalysisAssumption DEF Names, Row, Table

\* Of finitely many numbers, one is the largest.
LEMMA LargestIs ==
    ASSUME NEW n \in Nat, NEW D \in SUBSET (1..n), NEW f, \A d \in D : f[d] \in Int, D # {}
    PROVE  \E d \in D : \A e \in D : f[d] >= f[e]
<1> DEFINE Fails(m) == {d \in D : d <= m} # {} /\ ~\E d \in D : d <= m /\ \A e \in D : e <= m => f[d] >= f[e]
           bad == {m \in Nat : Fails(m)}
<1>1. bad = {}
  <2> SUFFICES ASSUME bad # {} PROVE FALSE
    OBVIOUS
  <2>1. PICK m \in bad : \A l \in bad : ~ (<<l, m>> \in OpToRel(<, Nat))
    <3>1. bad \subseteq Nat
      OBVIOUS
    <3>. HIDE DEF bad
    <3>. QED
      BY <3>1, NatLessThanWellFounded, WFMin, Zenon
  <2>2. m \in Nat /\ \A l \in bad : ~ (l < m)
    BY <2>1 DEF OpToRel
  <2>3. Fails(m)
    OBVIOUS
  <2>4. m # 0
    <3>1. PICK d \in D : d <= m
      BY <2>3
    <3>. QED
      BY <2>2, <3>1
  <2>5. m - 1 \in Nat /\ m - 1 < m /\ ~Fails(m - 1)
    <3>. HIDE DEF Fails
    <3>1. m - 1 \in Nat /\ m - 1 < m
      BY <2>2, <2>4
    <3>. QED
      BY <2>2, <3>1
  <2>6. CASE {d \in D : d <= m - 1} = {}
    <3>1. \A d \in D : d <= m => d = m
      BY <2>2, <2>6
    <3>2. PICK d \in D : d <= m
      BY <2>3
    <3>3. \A e \in D : e <= m => f[d] >= f[e]
      BY <3>1, <3>2
    <3>. QED
      BY <2>3, <3>2, <3>3
  <2>7. CASE {d \in D : d <= m - 1} # {}
    <3>1. PICK d \in D : d <= m - 1 /\ \A e \in D : e <= m - 1 => f[d] >= f[e]
      BY <2>5, <2>7
    <3>2. \A e \in D : e <= m => e = m \/ e <= m - 1
      BY <2>2
    <3>3. d <= m
      BY <2>2, <3>1
    <3>4. CASE m \in D /\ f[m] >= f[d]
      <4>1. \A e \in D : e <= m => f[m] >= f[e]
        BY <3>1, <3>2, <3>4
      <4>. QED
        BY <2>2, <2>3, <3>4, <4>1
    <3>5. CASE ~(m \in D /\ f[m] >= f[d])
      <4>1. \A e \in D : e <= m => f[d] >= f[e]
        BY <3>1, <3>2, <3>5
      <4>. QED
        BY <2>3, <3>3, <4>1
    <3>. QED
      BY <3>4, <3>5
  <2>. QED
    BY <2>6, <2>7
<1>2. \A d \in D : d <= n
  OBVIOUS
<1>3. ~Fails(n)
  BY <1>1
<1>. QED
  BY <1>2, <1>3

LEMMA LargestFigure ==
    ASSUME NEW rows \in Seq(Row), NEW k, NEW v \in Analysis!Largest(rows, k)
    PROVE  \/ Analysis!FiguresOf(rows, k) = {} /\ v = NoValue
           \/ \E i \in Analysis!FiguresOf(rows, k) :
                  v = rows[i].value /\ \A j \in Analysis!FiguresOf(rows, k) : rows[j].value <= v
<1> DEFINE known == Analysis!FiguresOf(rows, k)
           values == {rows[i].value : i \in known}
<1>1. CASE known = {}
  BY <1>1 DEF Analysis!Largest
<1>2. CASE known # {}
  <2>1. Len(rows) \in Nat /\ known \in SUBSET (1..Len(rows)) /\ \A i \in known : rows[i].value \in Int
    <3>1. DOMAIN rows = 1..Len(rows) /\ \A i \in 1..Len(rows) : rows[i] \in Row
      BY ElementOfSeq, LenProperties
    <3>. QED
      BY <3>1, LenProperties DEF Analysis!FiguresOf, Row
  <2> DEFINE f == [i \in known |-> rows[i].value]
  <2>2. \E d \in known : \A e \in known : f[d] >= f[e]
    <3>1. \A d \in known : f[d] \in Int
      BY <2>1
    <3>. HIDE DEF f, known
    <3>. QED
      BY <1>2, <2>1, <3>1, LargestIs
  <2>3. \E x \in values : \A y \in values : x >= y
    BY <2>2
  <2>4. Analysis!Max(values) \in values /\ \A y \in values : Analysis!Max(values) >= y
    BY <2>3 DEF Analysis!Max
  <2>5. v = Analysis!Max(values)
    BY <1>2 DEF Analysis!Largest
  <2>6. v \in values /\ \A i \in known : v >= rows[i].value
    <3>. HIDE DEF known
    <3>. QED
      BY <2>4, <2>5
  <2>7. PICK i \in known : v = rows[i].value
    BY <2>6
  <2>8. \A j \in known : rows[j].value <= v
    <3>. HIDE DEF known, values
    <3>. QED
      BY <2>1, <2>6, <2>7
  <2>. QED
    BY <2>7, <2>8
<1>. QED
  BY <1>1, <1>2

LEMMA LatestFigure ==
    ASSUME NEW rows \in Seq(Row), NEW k, NEW v \in Analysis!Latest(rows, k)
    PROVE  \/ Analysis!FiguresOf(rows, k) = {} /\ v = NoValue
           \/ \E j \in Analysis!FiguresOf(rows, k) :
                  v = rows[j].value /\ \A i \in Analysis!FiguresOf(rows, k) : rows[i].at <= rows[j].at
  BY DEF Analysis!Latest

\* Bars, one for each company, of figures in the rows.
OneBarEach(rows, bars) ==
    /\ {bar.company : bar \in bars} = Analysis!CompaniesIn(rows)
    /\ \A a, b \in bars : a.company = b.company => a = b
    /\ \A bar \in bars :
           /\ bar.company \in Analysis!CompaniesIn(rows)
           /\ bar.value # NoValue => bar \in Analysis!BarsOf(rows)

LEMMA PickedBars ==
    ASSUME NEW rows \in Seq(Row), NEW pick, NEW bars,
           bars = {[company |-> k, value |-> pick[k]] : k \in Analysis!CompaniesIn(rows)},
           \A k \in Analysis!CompaniesIn(rows) : \/ pick[k] = NoValue
                \/ \E i \in Analysis!FiguresOf(rows, k) : pick[k] = rows[i].value
    PROVE  OneBarEach(rows, bars)
<1>1. \A a, b \in bars : a.company = b.company => a = b
  OBVIOUS
<1>2. ASSUME NEW bar \in bars
      PROVE  /\ bar.company \in Analysis!CompaniesIn(rows)
             /\ bar.value # NoValue => bar \in Analysis!BarsOf(rows)
  <2>1. PICK k \in Analysis!CompaniesIn(rows) : bar = [company |-> k, value |-> pick[k]]
    OBVIOUS
  <2>2. bar.company = k /\ bar.value = pick[k]
    BY <2>1
  <2>3. ASSUME pick[k] # NoValue PROVE bar \in Analysis!BarsOf(rows)
    <3>1. PICK i \in Analysis!FiguresOf(rows, k) : pick[k] = rows[i].value
      BY <2>3
    <3>2. i \in DOMAIN rows /\ rows[i].company = k
      BY DEF Analysis!FiguresOf
    <3>3. rows[i] \in Analysis!Range(rows)
      BY <3>2 DEF Analysis!Range
    <3>. QED
      BY <2>1, <3>1, <3>2, <3>3 DEF Analysis!BarsOf
  <2>. QED
    BY <2>2, <2>3
<1>3. ASSUME NEW k \in Analysis!CompaniesIn(rows)
      PROVE  \E bar \in bars : bar.company = k
  <2>1. [company |-> k, value |-> pick[k]] \in bars
    OBVIOUS
  <2>. QED
    BY <2>1
<1>4. {bar.company : bar \in bars} = Analysis!CompaniesIn(rows)
  BY <1>2, <1>3
<1>. QED
  BY <1>1, <1>2, <1>4 DEF OneBarEach

LEMMA LatestBars ==
    ASSUME NEW rows \in Seq(Row), NEW bars \in Analysis!OneEach(rows, Analysis!Latest)
    PROVE  /\ OneBarEach(rows, bars)
           /\ \A bar \in bars : \A i \in Analysis!FiguresOf(rows, bar.company) :
                  \E j \in Analysis!FiguresOf(rows, bar.company) :
                      rows[j].value = bar.value /\ rows[j].at >= rows[i].at
<1>1. PICK pick : /\ bars = {[company |-> k, value |-> pick[k]] : k \in Analysis!CompaniesIn(rows)}
                  /\ \A k \in Analysis!CompaniesIn(rows) : pick[k] \in Analysis!Latest(rows, k)
  BY DEF Analysis!OneEach
<1>2. OneBarEach(rows, bars)
  <2>1. ASSUME NEW k \in Analysis!CompaniesIn(rows)
        PROVE  pick[k] = NoValue \/ \E i \in Analysis!FiguresOf(rows, k) : pick[k] = rows[i].value
    BY <1>1, LatestFigure
  <2>. QED
    BY <1>1, <2>1, PickedBars
<1>3. ASSUME NEW bar \in bars, NEW i \in Analysis!FiguresOf(rows, bar.company)
      PROVE  \E j \in Analysis!FiguresOf(rows, bar.company) :
                 rows[j].value = bar.value /\ rows[j].at >= rows[i].at
  <2>1. bar.company \in Analysis!CompaniesIn(rows) /\ bar.value \in Analysis!Latest(rows, bar.company)
    BY <1>1
  <2>2. PICK j \in Analysis!FiguresOf(rows, bar.company) :
            bar.value = rows[j].value /\ \A h \in Analysis!FiguresOf(rows, bar.company) : rows[h].at <= rows[j].at
    BY <2>1, LatestFigure
  <2>3. rows[i].at \in Int /\ rows[j].at \in Int
    <3>1. DOMAIN rows = 1..Len(rows) /\ \A h \in 1..Len(rows) : rows[h] \in Row
      BY ElementOfSeq, LenProperties
    <3>2. rows[i] \in Row /\ rows[j] \in Row
      BY <3>1 DEF Analysis!FiguresOf
    <3>. QED
      BY <3>2 DEF Row
  <2>. QED
    BY <2>2, <2>3
<1>. QED
  BY <1>2, <1>3

LEMMA LargestBars ==
    ASSUME NEW rows \in Seq(Row), NEW bars \in Analysis!OneEach(rows, Analysis!Largest)
    PROVE  /\ OneBarEach(rows, bars)
           /\ \A bar \in bars : \A i \in Analysis!FiguresOf(rows, bar.company) : rows[i].value <= bar.value
<1>1. PICK pick : /\ bars = {[company |-> k, value |-> pick[k]] : k \in Analysis!CompaniesIn(rows)}
                  /\ \A k \in Analysis!CompaniesIn(rows) : pick[k] \in Analysis!Largest(rows, k)
  BY DEF Analysis!OneEach
<1>2. ASSUME NEW k \in Analysis!CompaniesIn(rows)
      PROVE  pick[k] = NoValue \/ \E i \in Analysis!FiguresOf(rows, k) : pick[k] = rows[i].value
  BY <1>1, LargestFigure
<1>3. ASSUME NEW bar \in bars, NEW i \in Analysis!FiguresOf(rows, bar.company)
      PROVE  rows[i].value <= bar.value
  <2>1. bar.company \in Analysis!CompaniesIn(rows) /\ bar.value \in Analysis!Largest(rows, bar.company)
    BY <1>1
  <2>. QED
    BY <2>1, LargestFigure
<1>. QED
  BY <1>1, <1>2, <1>3, PickedBars

\* The charts of a table: whatever it is asked for, bars of its rows; a ranking as
\* RankingShowsLatest has it.
LEMMA AllRowsDrawn ==
    ASSUME NEW rows, NEW bars, bars = Analysis!BarsOf(rows)
    PROVE  {bar.company : bar \in bars} = Analysis!CompaniesIn(rows)
<1>1. \A row \in Analysis!Range(rows) : [company |-> row.company, value |-> row.value].company = row.company
  OBVIOUS
<1>2. {bar.company : bar \in bars} = {row.company : row \in Analysis!Range(rows)}
  BY <1>1 DEF Analysis!BarsOf
<1>. QED
  BY <1>2 DEF Analysis!Range, Analysis!CompaniesIn

LEMMA DrawnFromRows ==
    ASSUME NEW table \in Table, NEW wanted, NEW bars \in Analysis!FramesOf(table, wanted)
    PROVE  /\ {bar.company : bar \in bars} = Analysis!CompaniesIn(table.rows)
           /\ \A bar \in bars : /\ bar.company \in Analysis!CompaniesIn(table.rows)
                                /\ bar.value # NoValue => bar \in Analysis!BarsOf(table.rows)
<1>1. table.rows \in Seq(Row)
  BY DEF Table
<1>2. CASE bars \in Analysis!OneEach(table.rows, Analysis!Latest)
  BY <1>1, <1>2, LatestBars DEF OneBarEach
<1>3. CASE bars \in Analysis!OneEach(table.rows, Analysis!Largest)
  BY <1>1, <1>3, LargestBars DEF OneBarEach
<1>4. CASE bars = Analysis!BarsOf(table.rows)
  <2>1. {bar.company : bar \in bars} = Analysis!CompaniesIn(table.rows)
    BY <1>4, AllRowsDrawn
  <2>. QED
    BY <1>4, <2>1
<1>5. \/ bars \in Analysis!OneEach(table.rows, Analysis!Latest)
      \/ bars \in Analysis!OneEach(table.rows, Analysis!Largest)
      \/ bars = Analysis!BarsOf(table.rows)
  BY DEF Analysis!FramesOf
<1>. QED
  BY <1>2, <1>3, <1>4, <1>5

Ranked(table, bars) ==
    Analysis!IsRanking(table) =>
        /\ {bar.company : bar \in bars} = Analysis!CompaniesIn(table.rows)
        /\ table.period \/ table.numeric => \A a, b \in bars : a.company = b.company => a = b
        /\ table.period => \A bar \in bars :
               \A i \in Analysis!FiguresOf(table.rows, bar.company) :
                   \E j \in Analysis!FiguresOf(table.rows, bar.company) :
                       table.rows[j].value = bar.value /\ table.rows[j].at >= table.rows[i].at
        /\ ~table.period /\ table.numeric => \A bar \in bars :
               \A i \in Analysis!FiguresOf(table.rows, bar.company) : table.rows[i].value <= bar.value
        /\ ~table.period /\ ~table.numeric => bars = Analysis!BarsOf(table.rows)

LEMMA RankingDrawn ==
    ASSUME NEW table \in Table, NEW wanted, NEW bars \in Analysis!FramesOf(table, wanted),
           "hbar" \in Analysis!KindsOf(table, wanted)
    PROVE  Ranked(table, bars)
<1>0. SUFFICES ASSUME Analysis!IsRanking(table)
               PROVE  Ranked(table, bars)
  BY DEF Ranked
<1>1. table.rows \in Seq(Row)
  BY DEF Table
<1>2. Analysis!Grouped(table, wanted)
  <2>1. CASE wanted \in {"", "bar", "hbar"}
    BY <1>0, <2>1 DEF Analysis!Grouped
  <2>2. CASE wanted \notin {"", "bar", "hbar"}
    BY <2>2 DEF Analysis!KindsOf, Analysis!Grouped
  <2>. QED
    BY <2>1, <2>2
<1>3. {bar.company : bar \in bars} = Analysis!CompaniesIn(table.rows)
  BY DrawnFromRows
<1>4. CASE table.period
  <2>1. bars \in Analysis!OneEach(table.rows, Analysis!Latest)
    BY <1>2, <1>4 DEF Analysis!FramesOf
  <2>. QED
    BY <1>1, <1>3, <1>4, <2>1, LatestBars DEF OneBarEach, Ranked
<1>5. CASE ~table.period /\ table.numeric
  <2>1. bars \in Analysis!OneEach(table.rows, Analysis!Largest)
    BY <1>2, <1>5 DEF Analysis!FramesOf
  <2>. QED
    BY <1>1, <1>3, <1>5, <2>1, LargestBars DEF OneBarEach, Ranked
<1>6. CASE ~table.period /\ ~table.numeric
  <2>1. bars = Analysis!BarsOf(table.rows)
    BY <1>6 DEF Analysis!FramesOf
  <2>. QED
    BY <1>3, <1>6, <2>1 DEF Ranked
<1>. QED
  BY <1>4, <1>5, <1>6
------------------------------------------------------------------------------
\* The tables in the files: those a query gave, up to the cap.
Capped == {[table EXCEPT !.rows = Analysis!CapRows(@)] : table \in Results}
Allowed == {q \in Queries : Analysis!IsAllowed(q)}

LEMMA CapIs ==
    ASSUME NEW rows \in Seq(Row)
    PROVE  Analysis!CapRows(rows) \in Seq(Row) /\ Len(Analysis!CapRows(rows)) <= MaxRows
<1> DEFINE n == IF Len(rows) > MaxRows THEN MaxRows ELSE Len(rows)
<1>1. n \in Nat /\ n <= Len(rows) /\ n <= MaxRows /\ 0 \in Nat /\ 0 <= n /\ 0 + 1 = 1 /\ n - 0 = n
  BY TablesTyped, LenProperties
<1>. HIDE DEF n
<1>2. SubSeq(rows, 0 + 1, n) \in Seq(Row) /\ Len(SubSeq(rows, 0 + 1, n)) = n - 0
  BY <1>1, SubSeqIs, Zenon
<1>3. Analysis!CapRows(rows) = SubSeq(rows, 1, n)
  BY DEF Analysis!CapRows, n
<1>. QED
  BY <1>1, <1>2, <1>3

LEMMA CappedTyped == \A table \in Capped : table \in Table /\ Len(table.rows) <= MaxRows
<1> SUFFICES ASSUME NEW given \in Results, NEW table, table = [given EXCEPT !.rows = Analysis!CapRows(@)]
             PROVE  table \in Table /\ Len(table.rows) <= MaxRows
  BY DEF Capped
<1>1. given \in Table /\ given.rows \in Seq(Row)
  BY TablesTyped DEF Table
<1>2. Analysis!CapRows(given.rows) \in Seq(Row) /\ Len(Analysis!CapRows(given.rows)) <= MaxRows
  BY <1>1, CapIs
<1>. HIDE DEF Row
<1>. QED
  BY <1>1, <1>2 DEF Table
------------------------------------------------------------------------------
EntryFields == {"sql", "rows", "file", "computed", "companies", "chart"}
Told == {"", "chart", "fallback", "error"}

FilesInv ==
    /\ csv \in Seq([owner : Analysis!Range(OwnerOf), table : Capped]) /\ Len(csv) <= MaxCsv
    /\ inflight \subseteq Conversations \X Allowed
    /\ advice \in [Conversations -> Told]

\* What is kept is of one run: an allowed query and the rows it wrote.
KeptOf(c) ==
    /\ DOMAIN kept[c] = EntryFields
    /\ kept[c].sql \in Allowed \cup {Analysis!NoQuery}
    /\ kept[c].sql # Analysis!NoQuery => kept[c].computed = kept[c].sql.arith
    /\ kept[c].companies = Analysis!CompaniesIn(kept[c].rows)
    /\ kept[c].file \in 0..Len(csv) /\ (kept[c].file = 0 <=> kept[c].rows = <<>>)
    /\ kept[c].file # 0 => /\ kept[c].rows = csv[kept[c].file].table.rows
                           /\ csv[kept[c].file].owner = OwnerOf[c]

\* A chart is one that may be drawn from its file.
ChartOf(c) ==
    LET chart == kept[c].chart
    IN  /\ chart.file \in 0..Len(csv)
        /\ chart.file = 0 => chart.bars = {}
        /\ chart.file # 0 =>
               /\ csv[chart.file].owner = OwnerOf[c]
               /\ \E wanted \in Charts :
                      /\ chart.kind \in Analysis!KindsOf(csv[chart.file].table, wanted)
                      /\ chart.bars \in Analysis!FramesOf(csv[chart.file].table, wanted)

RunsInv ==
    /\ FilesInv /\ DOMAIN kept = Conversations
    /\ \A c \in Conversations : KeptOf(c) /\ ChartOf(c)

LEMMA NothingIs ==
    ASSUME NEW k, k = Analysis!Nothing
    PROVE  /\ DOMAIN k = EntryFields /\ k.sql = Analysis!NoQuery /\ k.rows = <<>>
           /\ k.companies = {} /\ Analysis!CompaniesIn(<<>>) = {}
           /\ k.file = 0 /\ k.chart.file = 0 /\ k.chart.bars = {}
<1>1. /\ DOMAIN k = EntryFields /\ k.sql = Analysis!NoQuery /\ k.rows = <<>> /\ k.companies = {}
      /\ k.file = 0 /\ k.chart = Analysis!NoChart
  BY DEF Analysis!Nothing, Analysis!NoFile, EntryFields
<1>2. k.chart.file = 0 /\ k.chart.bars = {}
  <2> DEFINE chart == k.chart
  <2>1. chart = [file |-> 0, kind |-> "", bars |-> {}]
    BY <1>1, Zenon DEF Analysis!NoFile, Analysis!NoChart
  <2>. HIDE DEF chart
  <2>2. chart.file = 0
    BY <2>1
  <2>3. chart.bars = {}
    BY <2>1
  <2>. QED
    BY <2>2, <2>3 DEF chart
<1>3. Analysis!CompaniesIn(<<>>) = {}
  BY DEF Analysis!CompaniesIn
<1>. QED
  BY <1>1, <1>2, <1>3

LEMMA RunsBegin == Analysis!Init => RunsInv
<1> SUFFICES ASSUME Analysis!Init PROVE RunsInv
  OBVIOUS
<1>1. FilesInv
  <2>1. csv = <<>> /\ inflight = {} /\ advice = [c \in Conversations |-> ""] /\ Len(csv) = 0
    BY DEF Analysis!Init
  <2>2. csv \in Seq([owner : Analysis!Range(OwnerOf), table : Capped])
    BY <2>1, EmptySeq, Zenon
  <2>3. Len(csv) <= MaxCsv
    <3>1. MaxCsv \in Nat
      BY TablesTyped
    <3>2. 0 <= MaxCsv
      BY <3>1
    <3>. QED
      BY <2>1, <3>2, Zenon
  <2>4. inflight \subseteq Conversations \X Allowed /\ advice \in [Conversations -> Told]
    BY <2>1 DEF Told
  <2>. QED
    BY <2>2, <2>3, <2>4 DEF FilesInv
<1>2. Len(csv) \in Nat /\ kept = [c \in Conversations |-> Analysis!Nothing]
  BY DEF Analysis!Init
<1>3. ASSUME NEW c \in Conversations PROVE KeptOf(c) /\ ChartOf(c)
  <2>1. kept[c] = Analysis!Nothing /\ 0 \in 0..Len(csv)
    BY <1>2
  <2>. QED
    BY <2>1, NothingIs DEF KeptOf, ChartOf
<1>. QED
  BY <1>1, <1>2, <1>3 DEF RunsInv

\* What a conversation keeps stays right while files are added.
LEMMA EntryStays ==
    ASSUME NEW c, KeptOf(c), ChartOf(c), kept'[c] = kept[c],
           Len(csv) \in Nat, Len(csv') \in Nat, Len(csv) <= Len(csv'),
           \A i \in 1..Len(csv) : csv'[i] = csv[i]
    PROVE  KeptOf(c)' /\ ChartOf(c)'
<1>1. ASSUME NEW f \in 0..Len(csv) PROVE f \in 0..Len(csv') /\ (f # 0 => csv'[f] = csv[f])
  OBVIOUS
<1>2. KeptOf(c)'
  <2>1. kept[c].file \in 0..Len(csv)
    BY DEF KeptOf
  <2>2. kept[c].file \in 0..Len(csv') /\ (kept[c].file # 0 => csv'[kept[c].file] = csv[kept[c].file])
    BY <1>1, <2>1
  <2>. QED
    BY <2>2 DEF KeptOf
<1>3. ChartOf(c)'
  <2>1. kept[c].chart.file \in 0..Len(csv)
    BY DEF ChartOf
  <2>2. /\ kept[c].chart.file \in 0..Len(csv')
        /\ kept[c].chart.file # 0 => csv'[kept[c].chart.file] = csv[kept[c].chart.file]
    BY <1>1, <2>1
  <2>. QED
    BY <2>2 DEF ChartOf
<1>. QED
  BY <1>2, <1>3

LEMMA RunKeeps ==
    ASSUME RunsInv, NEW c \in Conversations, NEW q \in Queries, Analysis!Run(c, q) \/ Analysis!QueryFails(c, q)
    PROVE  RunsInv'
<1>1. csv' = csv /\ kept' = kept
  BY DEF Analysis!Run, Analysis!QueryFails
<1>2. inflight' \subseteq Conversations \X Allowed
  BY DEF RunsInv, FilesInv, Analysis!Run, Analysis!QueryFails, Allowed
<1>3. advice' \in [Conversations -> Told]
  BY DEF RunsInv, FilesInv, Told, Analysis!Run, Analysis!QueryFails
<1>4. FilesInv'
  BY <1>1, <1>2, <1>3 DEF RunsInv, FilesInv
<1>. QED
  BY <1>1, <1>4 DEF RunsInv, KeptOf, ChartOf

LEMMA TakeKeeps ==
    ASSUME RunsInv, NEW c \in Conversations, Analysis!Take(c)
    PROVE  RunsInv'
<1>1. csv' = csv /\ inflight' = inflight /\ advice' = advice /\ kept' = [kept EXCEPT ![c] = Analysis!Nothing]
  BY DEF Analysis!Take
<1>2. FilesInv' /\ Len(csv) \in Nat /\ Len(csv') = Len(csv)
  BY <1>1, LenProperties DEF RunsInv, FilesInv
<1>3. ASSUME NEW d \in Conversations PROVE KeptOf(d)' /\ ChartOf(d)'
  <2>1. CASE d = c
    <3>1. kept'[d] = Analysis!Nothing
      BY <1>1, <2>1 DEF RunsInv
    <3>2. 0 \in 0..Len(csv')
      BY <1>2
    <3>. QED
      BY <3>1, <3>2, NothingIs DEF KeptOf, ChartOf
  <2>2. CASE d # c
    <3>1. kept'[d] = kept[d]
      BY <1>1, <2>2 DEF RunsInv
    <3>. QED
      BY <1>1, <3>1 DEF RunsInv, KeptOf, ChartOf
  <2>. QED
    BY <2>1, <2>2
<1>4. DOMAIN kept' = Conversations
  BY <1>1 DEF RunsInv
<1>. QED
  BY <1>2, <1>3, <1>4 DEF RunsInv

LEMMA ChartKeeps ==
    ASSUME RunsInv, NEW c \in Conversations, NEW f \in DOMAIN csv, NEW wanted \in Charts, Analysis!Chart(c, f, wanted)
    PROVE  RunsInv'
<1>1. PICK bars \in Analysis!FramesOf(csv[f].table, wanted), kind \in Analysis!KindsOf(csv[f].table, wanted) :
          kept' = [kept EXCEPT ![c].chart = [file |-> f, kind |-> kind, bars |-> bars]]
  BY DEF Analysis!Chart
<1>2. csv' = csv /\ inflight' = inflight /\ advice' = advice /\ csv[f].owner = OwnerOf[c]
  BY DEF Analysis!Chart
<1>3. FilesInv' /\ Len(csv) \in Nat /\ f \in 1..Len(csv)
  BY <1>2, LenProperties DEF RunsInv, FilesInv
<1> DEFINE new == [file |-> f, kind |-> kind, bars |-> bars]
<1>4. new.file = f /\ new.kind = kind /\ new.bars = bars
  OBVIOUS
<1>5. kept' = [kept EXCEPT ![c].chart = new]
  BY <1>1
<1>. HIDE DEF new
<1>6. ASSUME NEW d \in Conversations PROVE KeptOf(d)' /\ ChartOf(d)'
  <2>1. CASE d = c
    <3>0. KeptOf(c) /\ DOMAIN kept[c] = {"sql", "rows", "file", "computed", "companies", "chart"}
      BY DEF RunsInv, KeptOf, EntryFields
    <3>1. /\ kept'[d].chart = new /\ DOMAIN kept'[d] = DOMAIN kept[c]
          /\ kept'[d].sql = kept[c].sql /\ kept'[d].rows = kept[c].rows /\ kept'[d].file = kept[c].file
          /\ kept'[d].computed = kept[c].computed /\ kept'[d].companies = kept[c].companies
      BY <1>5, <2>1, <3>0 DEF RunsInv
    <3>2. KeptOf(d)'
      BY <1>2, <2>1, <3>0, <3>1 DEF KeptOf
    <3>3. f \in 0..Len(csv) /\ f # 0
      BY <1>3
    <3>4. ChartOf(d)'
      BY <1>2, <1>4, <2>1, <3>1, <3>3 DEF ChartOf
    <3>. QED
      BY <3>2, <3>4
  <2>2. CASE d # c
    <3>1. kept'[d] = kept[d]
      BY <1>5, <2>2 DEF RunsInv
    <3>. QED
      BY <1>2, <3>1 DEF RunsInv, KeptOf, ChartOf
  <2>. QED
    BY <2>1, <2>2
<1>7. DOMAIN kept' = Conversations
  BY <1>5 DEF RunsInv
<1>. QED
  BY <1>3, <1>6, <1>7 DEF RunsInv

\* A query comes back: its rows, if it has any, go to a file and are kept.
LEMMA ReturnKeeps ==
    ASSUME RunsInv, NEW c \in Conversations, NEW q \in Queries, NEW given \in Results,
           Analysis!Return(c, q, given)
    PROVE  RunsInv'
<1> DEFINE rows == Analysis!CapRows(given.rows)
           table == [given EXCEPT !.rows = rows]
           file == [owner |-> OwnerOf[c], table |-> table]
           hasRows == q.lead \in {"select", "with"} /\ rows # <<>>
           entry == Analysis!Remember(kept[c], q, IF hasRows THEN rows ELSE <<>>,
                                      IF hasRows THEN Len(csv) + 1 ELSE Analysis!NoFile)
           newAdvice == IF q.lead \in {"select", "with"} /\ rows = <<>> THEN "fallback" ELSE "chart"
<1>1. /\ <<c, q>> \in inflight /\ inflight' = inflight \ {<<c, q>>}
      /\ (hasRows => Len(csv) < MaxCsv)
      /\ csv' = IF hasRows THEN Append(csv, file) ELSE csv
      /\ kept' = [kept EXCEPT ![c] = entry]
      /\ advice' = [advice EXCEPT ![c] = newAdvice]
  BY DEF Analysis!Return
<1>2. table \in Capped /\ table.rows = rows
  <2>1. given \in Table
    BY TablesTyped
  <2>2. table.rows = rows
    BY <2>1 DEF Table
  <2>. QED
    BY <2>2 DEF Capped
<1>3. file \in [owner : Analysis!Range(OwnerOf), table : Capped] /\ file.table = table /\ file.owner = OwnerOf[c]
  <2>1. OwnerOf[c] \in Analysis!Range(OwnerOf)
    BY TablesTyped DEF Analysis!Range
  <2>. HIDE DEF table
  <2>. QED
    BY <1>2, <2>1
<1>4. /\ entry.sql = q /\ entry.computed = q.arith /\ DOMAIN entry = EntryFields
      /\ entry.chart = kept[c].chart
      /\ hasRows => entry.rows = rows /\ entry.file = Len(csv) + 1
      /\ ~hasRows => entry.rows = <<>> /\ entry.file = 0
      /\ entry.companies = Analysis!CompaniesIn(entry.rows)
  <2>1. DOMAIN kept[c] = {"sql", "rows", "file", "computed", "companies", "chart"}
    BY DEF RunsInv, KeptOf, EntryFields
  <2>. HIDE DEF rows, hasRows
  <2>. QED
    BY <2>1 DEF Analysis!Remember, Analysis!NoFile, EntryFields
<1>. HIDE DEF rows, table, file, entry, newAdvice
<1>5. q \in Allowed
  BY <1>1 DEF RunsInv, FilesInv
<1>6. /\ Len(csv) \in Nat /\ Len(csv') \in Nat /\ Len(csv) <= Len(csv')
      /\ \A i \in 1..Len(csv) : csv'[i] = csv[i]
      /\ hasRows => Len(csv') = Len(csv) + 1 /\ csv'[Len(csv) + 1] = file
      /\ csv' \in Seq([owner : Analysis!Range(OwnerOf), table : Capped]) /\ Len(csv') <= MaxCsv
  <2> DEFINE S == [owner : Analysis!Range(OwnerOf), table : Capped]
  <2>0. csv \in Seq(S) /\ Len(csv) <= MaxCsv /\ Len(csv) \in Nat /\ file \in S
    BY <1>3, LenProperties DEF RunsInv, FilesInv
  <2>. HIDE DEF S
  <2>1. CASE hasRows
    <3>1. csv' = Append(csv, file) /\ Len(csv) < MaxCsv
      BY <1>1, <2>1
    <3>2. /\ Append(csv, file) \in Seq(S) /\ Len(Append(csv, file)) = Len(csv) + 1
          /\ \A i \in 1..Len(csv) : Append(csv, file)[i] = csv[i]
          /\ Append(csv, file)[Len(csv) + 1] = file
      BY <2>0, AppendIs
    <3>3. Len(csv) + 1 \in Nat /\ Len(csv) <= Len(csv) + 1 /\ Len(csv) + 1 <= MaxCsv
      BY <2>0, <3>1, TablesTyped
    <3>. QED
      BY <2>0, <3>1, <3>2, <3>3 DEF S
  <2>2. CASE ~hasRows
    <3>1. csv' = csv
      BY <1>1, <2>2
    <3>. QED
      BY <2>0, <2>2, <3>1 DEF S
  <2>. QED
    BY <2>1, <2>2
<1>7. FilesInv'
  <2>1. newAdvice \in Told
    BY DEF newAdvice, Told
  <2>. QED
    BY <1>1, <1>6, <2>1 DEF RunsInv, FilesInv
<1>8. ASSUME NEW d \in Conversations PROVE KeptOf(d)' /\ ChartOf(d)'
  <2>1. CASE d = c
    <3>1. kept'[d] = entry
      BY <1>1, <2>1 DEF RunsInv
    <3>2. KeptOf(d)'
      <4>1. CASE hasRows
        <5>1. Len(csv) + 1 \in 0..Len(csv') /\ Len(csv) + 1 # 0 /\ rows # <<>>
          BY <1>6, <4>1
        <5>. QED
          BY <1>2, <1>3, <1>4, <1>5, <1>6, <2>1, <3>1, <4>1, <5>1 DEF KeptOf
      <4>2. CASE ~hasRows
        <5>1. 0 \in 0..Len(csv')
          BY <1>6
        <5>. QED
          BY <1>4, <1>5, <2>1, <3>1, <4>2, <5>1 DEF KeptOf
      <4>. QED
        BY <4>1, <4>2
    <3>3. ChartOf(d)'
      <4>1. ChartOf(c) /\ kept[c].chart.file \in 0..Len(csv)
        BY DEF RunsInv, ChartOf
      <4>2. /\ kept[c].chart.file \in 0..Len(csv')
            /\ kept[c].chart.file # 0 => csv'[kept[c].chart.file] = csv[kept[c].chart.file]
        BY <1>6, <4>1
      <4>. QED
        BY <1>4, <2>1, <3>1, <4>1, <4>2 DEF ChartOf
    <3>. QED
      BY <3>2, <3>3
  <2>2. CASE d # c
    <3>1. kept'[d] = kept[d] /\ KeptOf(d) /\ ChartOf(d)
      BY <1>1, <2>2 DEF RunsInv
    <3>. QED
      BY <1>6, <3>1, EntryStays
  <2>. QED
    BY <2>1, <2>2
<1>9. DOMAIN kept' = Conversations
  BY <1>1 DEF RunsInv
<1>. QED
  BY <1>7, <1>8, <1>9 DEF RunsInv

LEMMA RunsStep == RunsInv /\ [Analysis!Next]_runVars => RunsInv'
<1> SUFFICES ASSUME RunsInv, [Analysis!Next]_runVars PROVE RunsInv'
  OBVIOUS
<1>1. CASE UNCHANGED runVars
  BY <1>1 DEF runVars, RunsInv, FilesInv, KeptOf, ChartOf
<1>2. CASE Analysis!Next
  <2>1. PICK c \in Conversations :
            \/ \E q \in Queries : Analysis!Run(c, q) \/ Analysis!QueryFails(c, q)
                                     \/ \E table \in Results : Analysis!Return(c, q, table)
            \/ \E file \in DOMAIN csv, wanted \in Charts : Analysis!Chart(c, file, wanted)
            \/ Analysis!Take(c)
    BY <1>2 DEF Analysis!Next
  <2>. QED
    BY <2>1, RunKeeps, ReturnKeeps, ChartKeeps, TakeKeeps
<1>. QED
  BY <1>1, <1>2

\* The table of a file, and what a chart of it shows.
LEMMA FileIs ==
    ASSUME RunsInv, NEW f \in 1..Len(csv)
    PROVE  csv[f].table \in Table /\ Len(csv[f].table.rows) <= MaxRows
                /\ csv[f].owner \in Analysis!Range(OwnerOf) /\ csv[f].table \in Capped
<1>1. csv[f] \in [owner : Analysis!Range(OwnerOf), table : Capped]
  <2>. HIDE DEF Capped
  <2>. QED
    BY ElementOfSeq DEF RunsInv, FilesInv
<1>. QED
  BY <1>1, CappedTyped

\* sql.py, cache.py, charts.py: whatever runs of whatever conversations return in
\* between, rows, file, companies and "computed" mark kept for the cache are of one
\* run of an allowed query, and the chart kept shows figures of one file of the
\* same user.
THEOREM KeptComesFromOneRun == Spec => []KeptIsOfOneRun
<1>1. Init => RunsInv
  BY RunsBegin DEF Init
<1>2. RunsInv /\ [Next]_vars => RunsInv'
  BY RunsStep, StepsOfParts
<1>3. RunsInv => KeptIsOfOneRun
  <2> SUFFICES ASSUME RunsInv, NEW c \in Conversations, NEW k, k = kept[c]
               PROVE  /\ k.sql # Analysis!NoQuery => Analysis!IsAllowed(k.sql) /\ k.computed = k.sql.arith
                      /\ k.companies = Analysis!CompaniesIn(k.rows)
                      /\ k.file = 0 <=> k.rows = <<>>
                      /\ k.file # 0 => /\ k.rows = csv[k.file].table.rows /\ Len(k.rows) <= MaxRows
                                       /\ csv[k.file].owner = OwnerOf[c]
                      /\ k.chart.file # 0 =>
                             /\ csv[k.chart.file].owner = OwnerOf[c]
                             /\ \A bar \in k.chart.bars :
                                    /\ bar.company \in Analysis!CompaniesIn(csv[k.chart.file].table.rows)
                                    /\ bar.value # NoValue =>
                                           bar \in Analysis!BarsOf(csv[k.chart.file].table.rows)
    BY Zenon DEF KeptIsOfOneRun, Analysis!KeptIsOfOneRun, Analysis!NoFile
  <2>1. KeptOf(c) /\ ChartOf(c)
    BY DEF RunsInv
  <2>2. k.sql # Analysis!NoQuery => Analysis!IsAllowed(k.sql) /\ k.computed = k.sql.arith
    BY <2>1 DEF KeptOf, Allowed
  <2>3. ASSUME k.file # 0 PROVE k.file \in 1..Len(csv) /\ Len(k.rows) <= MaxRows
    <3>1. k.file \in 0..Len(csv) /\ k.rows = csv[k.file].table.rows
      BY <2>1, <2>3 DEF KeptOf
    <3>2. k.file \in 1..Len(csv)
      BY <2>3, <3>1
    <3>. QED
      BY <3>1, <3>2, FileIs
  <2>4. ASSUME k.chart.file # 0
        PROVE  /\ csv[k.chart.file].owner = OwnerOf[c]
               /\ \A bar \in k.chart.bars :
                      /\ bar.company \in Analysis!CompaniesIn(csv[k.chart.file].table.rows)
                      /\ bar.value # NoValue => bar \in Analysis!BarsOf(csv[k.chart.file].table.rows)
    <3>1. k.chart.file \in 1..Len(csv)
      BY <2>1, <2>4 DEF ChartOf
    <3>2. csv[k.chart.file].table \in Table
      BY <3>1, FileIs
    <3>3. PICK wanted \in Charts : k.chart.bars \in Analysis!FramesOf(csv[k.chart.file].table, wanted)
      BY <2>1, <2>4 DEF ChartOf
    <3>4. csv[k.chart.file].owner = OwnerOf[c]
      BY <2>1, <2>4 DEF ChartOf
    <3>. QED
      BY <3>2, <3>3, <3>4, DrawnFromRows
  <2>. QED
    BY <2>1, <2>2, <2>3, <2>4 DEF KeptOf
<1>. QED
  BY <1>1, <1>2, <1>3, PTL DEF Spec

\* charts.py: a ranking shows each company of its file, once and with its latest
\* figure if there are periods, once and with its largest value_numeric if there is
\* only that, and with all its rows if there is neither.
THEOREM RankingsAreLatest == Spec => []RankingShowsLatest
<1>1. Init => RunsInv
  BY RunsBegin DEF Init
<1>2. RunsInv /\ [Next]_vars => RunsInv'
  BY RunsStep, StepsOfParts
<1>3. RunsInv => RankingShowsLatest
  <2> SUFFICES ASSUME RunsInv, NEW c \in Conversations, NEW chart, chart = kept[c].chart,
                      chart.kind = "hbar", chart.file # 0
               PROVE  Ranked(csv[chart.file].table, chart.bars)
    BY Zenon DEF RankingShowsLatest, Analysis!RankingShowsLatest, Analysis!NoFile, Ranked
  <2>1. ChartOf(c)
    BY DEF RunsInv
  <2>2. PICK wanted \in Charts :
            /\ chart.kind \in Analysis!KindsOf(csv[chart.file].table, wanted)
            /\ chart.bars \in Analysis!FramesOf(csv[chart.file].table, wanted)
    BY <2>1 DEF ChartOf
  <2>3. chart.file \in 1..Len(csv)
    BY <2>1 DEF ChartOf
  <2>4. csv[chart.file].table \in Table
    BY <2>3, FileIs
  <2>. QED
    BY <2>2, <2>4, RankingDrawn
<1>. QED
  BY <1>1, <1>2, <1>3, PTL DEF Spec
------------------------------------------------------------------------------
(***************************************************************************)
(* Requests to the model: any number of stations, calls, pieces and orders *)
(***************************************************************************)

Made == UNION {{calls[i] : i \in DOMAIN calls} : calls \in Answers}
Said == UNION {{call.pieces[n] : n \in DOMAIN call.pieces} : call \in Made}
Asks == Filters + Middlewares + 2
Stations == Filters + 2 * Middlewares + 2

LEMMA AnswersTyped ==
    /\ Answers \subseteq Seq(Made) /\ Filters \in Nat /\ Middlewares \in Nat
    /\ \A call \in Made : call.pieces \in Seq(Said) /\ call.head \in Nat /\ call.head > 0
  BY ModelCallsAssumption DEF Made, Said

\* The model is asked at one station of the route.
LEMMA RouteIs ==
    /\ Len(ModelCalls!Route) = Stations /\ DOMAIN ModelCalls!Route = 1..Stations
    /\ \A i \in 1..Stations : ModelCalls!Route[i] = "model" <=> i = Asks
    /\ Stations \in Nat /\ Asks \in 1..Stations
<1> DEFINE S == {"filter", "enhancer", "before", "model", "after"}
           f == ModelCalls!Repeat("filter", Filters)
           e == <<"enhancer">>
           b == ModelCalls!Repeat("before", Middlewares)
           m == <<"model">>
           a == ModelCalls!Repeat("after", Middlewares)
<1>0. Filters \in Nat /\ Middlewares \in Nat
  BY AnswersTyped
<1>1. /\ f \in Seq(S) /\ Len(f) = Filters /\ \A i \in 1..Filters : f[i] = "filter"
      /\ b \in Seq(S) /\ Len(b) = Middlewares /\ \A i \in 1..Middlewares : b[i] = "before"
      /\ a \in Seq(S) /\ Len(a) = Middlewares /\ \A i \in 1..Middlewares : a[i] = "after"
  BY <1>0 DEF ModelCalls!Repeat
<1>2. e \in Seq(S) /\ Len(e) = 1 /\ e[1] = "enhancer" /\ m \in Seq(S) /\ Len(m) = 1 /\ m[1] = "model"
  OBVIOUS
<1> DEFINE r1 == f \o e
           r2 == r1 \o b
           r3 == r2 \o m
           r4 == r3 \o a
<1>3. ModelCalls!Route = r4
  BY DEF ModelCalls!Route
<1>. HIDE DEF S, f, e, b, m, a
<1>4. r1 \in Seq(S) /\ Len(r1) = Filters + 1 /\ \A i \in 1..(Filters + 1) : r1[i] # "model"
  <2>0. f \in Seq(S) /\ e \in Seq(S)
    BY <1>1, <1>2
  <2>1. /\ r1 \in Seq(S) /\ Len(r1) = Len(f) + Len(e)
        /\ \A i \in 1..Len(f) : r1[i] = f[i]
        /\ \A i \in 1..Len(e) : r1[Len(f) + i] = e[i]
    BY <2>0, ConcatJoins
  <2>. HIDE DEF r1
  <2>2. \A i \in 1..(Filters + 1) : i \in 1..Filters \/ (1 \in 1..1 /\ i = Filters + 1)
    BY <1>0
  <2>. QED
    BY <1>1, <1>2, <2>1, <2>2
<1>. HIDE DEF r1
<1>5. /\ r2 \in Seq(S) /\ Len(r2) = Filters + 1 + Middlewares
      /\ \A i \in 1..(Filters + 1 + Middlewares) : r2[i] # "model"
  <2>0. r1 \in Seq(S) /\ b \in Seq(S)
    BY <1>1, <1>4
  <2>1. /\ r2 \in Seq(S) /\ Len(r2) = Len(r1) + Len(b)
        /\ \A i \in 1..Len(r1) : r2[i] = r1[i]
        /\ \A i \in 1..Len(b) : r2[Len(r1) + i] = b[i]
    BY <2>0, ConcatJoins
  <2>. HIDE DEF r2
  <2>2. ASSUME NEW i \in 1..(Filters + 1 + Middlewares) PROVE r2[i] # "model"
    <3>1. CASE i <= Filters + 1
      <4>1. i \in 1..(Filters + 1)
        BY <1>0, <3>1
      <4>. QED
        BY <1>4, <2>1, <4>1
    <3>2. CASE ~(i <= Filters + 1)
      <4>1. i - (Filters + 1) \in 1..Middlewares /\ (Filters + 1) + (i - (Filters + 1)) = i
        BY <1>0, <3>2
      <4>2. r2[(Filters + 1) + (i - (Filters + 1))] = "before"
        BY <1>1, <1>4, <2>1, <4>1
      <4>. QED
        BY <4>1, <4>2
    <3>. QED
      BY <3>1, <3>2
  <2>. QED
    BY <1>1, <1>4, <2>1, <2>2
<1>. HIDE DEF r2
<1>6. /\ r3 \in Seq(S) /\ Len(r3) = Asks
      /\ \A i \in 1..Asks : r3[i] = "model" <=> i = Asks
  <2>0. r2 \in Seq(S) /\ m \in Seq(S)
    BY <1>2, <1>5
  <2>1. /\ r3 \in Seq(S) /\ Len(r3) = Len(r2) + Len(m)
        /\ \A i \in 1..Len(r2) : r3[i] = r2[i]
        /\ \A i \in 1..Len(m) : r3[Len(r2) + i] = m[i]
    BY <2>0, ConcatJoins
  <2>. HIDE DEF r3
  <2>2. Asks = (Filters + 1 + Middlewares) + 1 /\ Asks \in Nat
    BY <1>0 DEF Asks
  <2>3. 1 \in 1..1 /\ Len(r3) = Asks /\ r3[(Filters + 1 + Middlewares) + 1] = "model"
    BY <1>2, <1>5, <2>1, <2>2
  <2>4. ASSUME NEW i \in 1..Asks, i # Asks PROVE r3[i] # "model"
    <3>1. i \in 1..(Filters + 1 + Middlewares)
      BY <1>0, <2>2, <2>4
    <3>. QED
      BY <1>5, <2>1, <3>1
  <2>. QED
    BY <2>1, <2>2, <2>3, <2>4
<1>. HIDE DEF r3
<1>7. Stations = Asks + Middlewares /\ Asks \in Nat /\ Asks > 0 /\ Stations \in Nat
  BY <1>0 DEF Stations, Asks
<1>8. /\ r4 \in Seq(S) /\ Len(r4) = Stations
      /\ \A i \in 1..Stations : r4[i] = "model" <=> i = Asks
  <2>0. r3 \in Seq(S) /\ a \in Seq(S)
    BY <1>1, <1>6
  <2>1. /\ r4 \in Seq(S) /\ Len(r4) = Len(r3) + Len(a)
        /\ \A i \in 1..Len(r3) : r4[i] = r3[i]
        /\ \A i \in 1..Len(a) : r4[Len(r3) + i] = a[i]
    BY <2>0, ConcatJoins
  <2>. HIDE DEF r4
  <2>2. ASSUME NEW i \in 1..Stations PROVE r4[i] = "model" <=> i = Asks
    <3>1. CASE i <= Asks
      <4>1. i \in 1..Asks
        BY <1>7, <3>1
      <4>. QED
        BY <1>6, <2>1, <4>1
    <3>2. CASE ~(i <= Asks)
      <4>1. i - Asks \in 1..Middlewares /\ Asks + (i - Asks) = i /\ i # Asks
        BY <1>0, <1>7, <3>2
      <4>2. r4[Asks + (i - Asks)] = "after"
        BY <1>1, <1>6, <2>1, <4>1
      <4>. QED
        BY <4>1, <4>2
    <3>. QED
      BY <3>1, <3>2
  <2>. QED
    BY <1>1, <1>6, <1>7, <2>1, <2>2
<1>. HIDE DEF r4
<1>9. DOMAIN r4 = 1..Stations
  BY <1>8, LenProperties
<1>10. Asks \in 1..Stations
  BY <1>0, <1>7
<1>. QED
  BY <1>3, <1>7, <1>8, <1>9, <1>10, Zenon
------------------------------------------------------------------------------
\* The text of a call, up to its n-th fragment, and the builder it is in.
Heard(call, n) == SubSeq(call.pieces, 1, IF n <= Len(call.pieces) THEN n ELSE Len(call.pieces))
Partial(call, i, n) ==
    [index |-> i, id |-> IF n >= call.head THEN call.id ELSE NoName,
     name |-> IF n >= call.head THEN call.name ELSE NoName, text |-> Heard(call, n)]

LEMMA HeardGrows ==
    ASSUME NEW call \in Made, NEW n \in Nat
    PROVE  /\ Heard(call, 0) = <<>>
           /\ n + 1 <= Len(call.pieces) => Heard(call, n + 1) = Heard(call, n) \o <<call.pieces[n + 1]>>
           /\ ~(n + 1 <= Len(call.pieces)) => Heard(call, n + 1) = Heard(call, n) \o <<>>
           /\ n >= Len(call.pieces) => Heard(call, n) = call.pieces
<1> DEFINE p == call.pieces
<1>1. p \in Seq(Said) /\ Len(p) \in Nat
  BY AnswersTyped, LenProperties
<1>2. Heard(call, 0) = <<>>
  <2>1. 0 <= Len(p) /\ 1 \in Int /\ 0 \in Int /\ 0 < 1
    BY <1>1
  <2>2. SubSeq(p, 1, 0) = <<>>
    BY <2>1, SubSeqEmpty
  <2>. QED
    BY <2>1, <2>2 DEF Heard
<1>3. ASSUME n + 1 <= Len(p) PROVE Heard(call, n + 1) = Heard(call, n) \o <<p[n + 1]>>
  <2>1. 1 \in 1..Len(p) /\ n + 1 \in 1..Len(p) /\ (n + 1) - 1 = n /\ n <= Len(p)
    BY <1>1, <1>3
  <2>2. SubSeq(p, 1, n + 1) = SubSeq(p, 1, (n + 1) - 1) \o <<p[n + 1]>>
    BY <1>1, <2>1, SubSeqRecursiveSecond
  <2>. QED
    BY <1>3, <2>1, <2>2 DEF Heard
<1>4. ASSUME n >= Len(p) PROVE Heard(call, n) = p
  <2>1. SubSeq(p, 1, Len(p)) = p
    BY <1>1, SubSeqFull
  <2>2. ~(n <= Len(p)) \/ n = Len(p)
    BY <1>1, <1>4
  <2>. QED
    BY <2>1, <2>2 DEF Heard
<1>5. ASSUME ~(n + 1 <= Len(p)) PROVE Heard(call, n + 1) = Heard(call, n) \o <<>>
  <2>1. n >= Len(p)
    BY <1>1, <1>5
  <2>2. Heard(call, n) = p /\ Heard(call, n + 1) = p
    BY <1>4, <1>5, <2>1, SubSeqFull, <1>1 DEF Heard
  <2>. QED
    BY <1>1, <2>2, ConcatEmptySeq
<1>. QED
  BY <1>2, <1>3, <1>4, <1>5

\* Where the builder of a call is, among builders no two of which are of one call.
LEMMA BuilderIs ==
    ASSUME NEW i,
           \A j, k \in 1..Len(builders) : builders[j].index = builders[k].index => j = k,
           Len(builders) \in Nat
    PROVE  \/ ModelCalls!Builder(i) = 0 /\ \A k \in 1..Len(builders) : builders[k].index # i
           \/ ModelCalls!Builder(i) \in 1..Len(builders) /\ builders[ModelCalls!Builder(i)].index = i
              /\ ModelCalls!Builder(i) # 0
<1> DEFINE I == {k \in 1..Len(builders) : builders[k].index = i}
<1>1. ModelCalls!Builder(i) = IF I # {} THEN ModelCalls!Min(I) ELSE 0
  BY DEF ModelCalls!Builder, ModelCalls!SelectInSeq
<1>2. ASSUME NEW k \in I PROVE ModelCalls!Min(I) = k
  <2>1. I = {k}
    OBVIOUS
  <2>2. k <= k
    OBVIOUS
  <2>. HIDE DEF I
  <2>. QED
    BY <2>1, <2>2 DEF ModelCalls!Min
<1>3. CASE I = {}
  BY <1>1, <1>3
<1>4. CASE I # {}
  <2>1. PICK k \in I : TRUE
    BY <1>4
  <2>2. ModelCalls!Builder(i) = k /\ k \in 1..Len(builders) /\ builders[k].index = i
    BY <1>1, <1>2, <2>1
  <2>3. k # 0
    BY <2>1
  <2>. QED
    BY <2>2, <2>3
<1>. QED
  BY <1>3, <1>4
------------------------------------------------------------------------------
\* Every call has at most one builder, which has what came of it so far.
Begun(calls) == UNION {{Partial(calls[i], i, n) : n \in Nat} : i \in DOMAIN calls}
IsBuilder(builder, calls, came) ==
    /\ builder.index \in DOMAIN calls /\ came[builder.index] > 0
    /\ builder = Partial(calls[builder.index], builder.index, came[builder.index])
BuildersInv ==
    /\ answer \in Answers
    /\ sent \in [DOMAIN answer -> Nat]
    /\ \A i \in DOMAIN answer : sent[i] <= ModelCalls!Fragments(answer[i])
    /\ builders \in Seq(Begun(answer))
    /\ \A k \in 1..Len(builders) : IsBuilder(builders[k], answer, sent)
    /\ \A i \in DOMAIN answer : sent[i] > 0 => \E k \in 1..Len(builders) : builders[k].index = i
    /\ \A j, k \in 1..Len(builders) : builders[j].index = builders[k].index => j = k

\* The builders are in the order of their calls' first fragments.
FirstInv ==
    /\ first \in Seq(Int) /\ Len(first) = Len(builders)
    /\ \A k \in 1..Len(builders) : first[k] = builders[k].index

LEMMA CallOf ==
    ASSUME NEW calls \in Answers, NEW i \in DOMAIN calls
    PROVE  calls[i] \in Made
  BY DEF Made

\* What comes with the n-th fragment, and what it makes of a builder.
Piece(call, n) == IF n <= Len(call.pieces) THEN <<call.pieces[n]>> ELSE <<>>
Built(i, id, name, text) == [index |-> i, id |-> id, name |-> name, text |-> text]
Grown(old, call, n, piece) ==
    [old EXCEPT !.id = IF n = call.head THEN call.id ELSE @,
                !.name = IF n = call.head THEN call.name ELSE @,
                !.text = @ \o piece]

LEMMA GrownIs ==
    ASSUME NEW i, NEW id, NEW name, NEW text, NEW call, NEW n, NEW piece
    PROVE  Grown(Built(i, id, name, text), call, n, piece)
               = Built(i, IF n = call.head THEN call.id ELSE id,
                       IF n = call.head THEN call.name ELSE name, text \o piece)
<1> DEFINE old == Built(i, id, name, text)
           newId == IF n = call.head THEN call.id ELSE id
           newName == IF n = call.head THEN call.name ELSE name
           newText == text \o piece
           both == [old EXCEPT !.id = newId, !.name = newName, !.text = newText]
<1>1. old.index = i /\ old.id = id /\ old.name = name /\ old.text = text
  BY DEF Built
<1>2. DOMAIN old = {"index", "id", "name", "text"}
  BY DEF Built
<1>. HIDE DEF newId, newName, newText, old
<1>3. Grown(old, call, n, piece) = both
  BY <1>1, Zenon DEF Grown, newId, newName, newText
<1>4. DOMAIN both = {"index", "id", "name", "text"}
  BY <1>2
<1>5. both.index = i /\ both.id = newId /\ both.name = newName /\ both.text = newText
  BY <1>1, <1>2
<1>6. both = [x \in DOMAIN both |-> both[x]]
  OBVIOUS
<1>. HIDE DEF both
<1>7. both = [index |-> i, id |-> newId, name |-> newName, text |-> newText]
  BY <1>4, <1>5, <1>6
<1>. QED
  BY <1>3, <1>7 DEF newId, newName, newText, old, Built

\* A fragment makes of the builder of its call what has one fragment more.
LEMMA BuilderGrows ==
    ASSUME NEW call \in Made, NEW i, NEW n \in Nat
    PROVE  /\ Grown(Partial(call, i, n), call, n + 1, Piece(call, n + 1)) = Partial(call, i, n + 1)
           /\ Partial(call, i, 0) = [index |-> i, id |-> NoName, name |-> NoName, text |-> <<>>]
           /\ Partial(call, i, n).index = i
<1>1. call.head \in Nat /\ call.head > 0
  BY AnswersTyped
<1>2. Heard(call, n) \o Piece(call, n + 1) = Heard(call, n + 1) /\ Heard(call, 0) = <<>>
  <2>1. CASE n + 1 <= Len(call.pieces)
    BY <2>1, HeardGrows DEF Piece
  <2>2. CASE ~(n + 1 <= Len(call.pieces))
    BY <2>2, HeardGrows DEF Piece
  <2>. QED
    BY <2>1, <2>2
<1>3. /\ n + 1 = call.head => n + 1 >= call.head
      /\ n + 1 # call.head => (n + 1 >= call.head <=> n >= call.head)
      /\ ~(0 >= call.head)
  BY <1>1
<1>4. Grown(Partial(call, i, n), call, n + 1, Piece(call, n + 1))
          = Built(i, IF n + 1 = call.head THEN call.id ELSE IF n >= call.head THEN call.id ELSE NoName,
                  IF n + 1 = call.head THEN call.name ELSE IF n >= call.head THEN call.name ELSE NoName,
                  Heard(call, n) \o Piece(call, n + 1))
  <2> DEFINE id == IF n >= call.head THEN call.id ELSE NoName
             name == IF n >= call.head THEN call.name ELSE NoName
             text == Heard(call, n)
             piece == Piece(call, n + 1)
             m == n + 1
  <2>1. Partial(call, i, n) = Built(i, id, name, text)
    BY DEF Partial, Built
  <2>. HIDE DEF id, name, text, piece, m
  <2>2. Grown(Built(i, id, name, text), call, m, piece)
            = Built(i, IF m = call.head THEN call.id ELSE id,
                    IF m = call.head THEN call.name ELSE name, text \o piece)
    BY GrownIs
  <2>. QED
    BY <2>1, <2>2, Zenon DEF id, name, text, piece, m
<1>5. /\ (IF n + 1 = call.head THEN call.id ELSE IF n >= call.head THEN call.id ELSE NoName)
             = (IF n + 1 >= call.head THEN call.id ELSE NoName)
      /\ (IF n + 1 = call.head THEN call.name ELSE IF n >= call.head THEN call.name ELSE NoName)
             = (IF n + 1 >= call.head THEN call.name ELSE NoName)
  BY <1>3
<1>6. Partial(call, i, 0) = [index |-> i, id |-> NoName, name |-> NoName, text |-> <<>>]
  BY <1>2, <1>3 DEF Partial
<1>. QED
  BY <1>2, <1>4, <1>5, <1>6 DEF Partial, Built

LEMMA TakeIs ==
    ASSUME BuildersInv, NEW i \in DOMAIN answer, ModelCalls!Take(i)
    PROVE  LET new == Partial(answer[i], i, sent[i] + 1)
               at == ModelCalls!Builder(i)
           IN  /\ sent[i] + 1 <= ModelCalls!Fragments(answer[i])
               /\ sent' = [sent EXCEPT ![i] = sent[i] + 1]
               /\ builders' = IF at # 0 THEN [builders EXCEPT ![at] = new] ELSE Append(builders, new)
<1> DEFINE call == answer[i]
           n == sent[i]
           at == ModelCalls!Builder(i)
           old == IF at # 0 THEN builders[at]
                  ELSE [index |-> i, id |-> NoName, name |-> NoName, text |-> <<>>]
           new == Grown(old, call, n + 1, Piece(call, n + 1))
<1>1. call \in Made /\ n \in Nat
  BY CallOf DEF BuildersInv
<1>2. Len(builders) \in Nat
  BY LenProperties DEF BuildersInv
<1>3. /\ n + 1 <= ModelCalls!Fragments(call)
      /\ sent' = [sent EXCEPT ![i] = n + 1]
      /\ builders' = IF at # 0 THEN [builders EXCEPT ![at] = new] ELSE Append(builders, new)
  BY Zenon DEF ModelCalls!Take, Grown, Piece
<1>4. old = Partial(call, i, n)
  <2>1. CASE at = 0 /\ \A k \in 1..Len(builders) : builders[k].index # i
    <3>1. ~(n > 0)
      BY <2>1 DEF BuildersInv
    <3>2. n = 0
      BY <1>1, <3>1
    <3>3. old = [index |-> i, id |-> NoName, name |-> NoName, text |-> <<>>]
      BY <2>1
    <3>4. Partial(call, i, 0) = [index |-> i, id |-> NoName, name |-> NoName, text |-> <<>>]
      BY <1>1, BuilderGrows
    <3>. QED
      BY <3>2, <3>3, <3>4
  <2>2. CASE at \in 1..Len(builders) /\ builders[at].index = i /\ at # 0
    <3>1. IsBuilder(builders[at], answer, sent)
      BY <2>2, Zenon DEF BuildersInv
    <3>2. builders[at] = Partial(call, i, n)
      BY <2>2, <3>1, Zenon DEF IsBuilder
    <3>. QED
      BY <2>2, <3>2
  <2>. QED
    BY <1>2, <2>1, <2>2, BuilderIs DEF BuildersInv
<1>5. new = Partial(call, i, n + 1)
  <2>. HIDE DEF old, call, n
  <2>1. Grown(Partial(call, i, n), call, n + 1, Piece(call, n + 1)) = Partial(call, i, n + 1)
    BY <1>1, BuilderGrows DEF call, n
  <2>. QED
    BY <1>4, <2>1
<1>. QED
  BY <1>3, <1>5
------------------------------------------------------------------------------
LEMMA OtherBuilder ==
    ASSUME NEW i, NEW n, NEW builder, NEW calls, NEW came, NEW came2,
           IsBuilder(builder, calls, came), builder.index # i,
           came2 = [came EXCEPT ![i] = n], DOMAIN came = DOMAIN calls
    PROVE  IsBuilder(builder, calls, came2)
  BY DEF IsBuilder

LEMMA FragmentKeeps ==
    ASSUME BuildersInv, NEW i \in DOMAIN answer, ModelCalls!Take(i), answer' = answer
    PROVE  BuildersInv'
<1> DEFINE n == sent[i] + 1
           new == Partial(answer[i], i, n)
           at == ModelCalls!Builder(i)
           l == Len(builders)
           S == Begun(answer)
<1>1. /\ n <= ModelCalls!Fragments(answer[i])
      /\ sent' = [sent EXCEPT ![i] = n]
      /\ builders' = IF at # 0 THEN [builders EXCEPT ![at] = new] ELSE Append(builders, new)
  BY TakeIs
<1>2. n \in Nat /\ n > 0 /\ answer \in Answers
  <2>1. sent[i] \in Nat
    BY DEF BuildersInv
  <2>. QED
    BY <2>1 DEF BuildersInv
<1>3. builders \in Seq(S) /\ l \in Nat /\ DOMAIN builders = 1..l /\ \A k \in 1..l : builders[k] \in S
  BY LenProperties, ElementOfSeq DEF BuildersInv
<1>4. /\ \A k \in 1..l : IsBuilder(builders[k], answer, sent)
      /\ \A j, k \in 1..l : builders[j].index = builders[k].index => j = k
      /\ \A j \in DOMAIN answer : sent[j] > 0 => \E k \in 1..l : builders[k].index = j
  BY Zenon DEF BuildersInv
<1>5. new \in S /\ new.index = i
  <2>1. new \in S
    BY <1>2 DEF Begun
  <2>. QED
    BY <2>1 DEF Partial
<1>6. /\ sent' \in [DOMAIN answer -> Nat]
      /\ \A j \in DOMAIN answer : sent'[j] <= ModelCalls!Fragments(answer[j])
      /\ \A j \in DOMAIN answer : j # i => sent'[j] = sent[j]
      /\ sent'[i] = n
  BY <1>1, <1>2 DEF BuildersInv
<1>7. IsBuilder(new, answer, sent')
  <2>. HIDE DEF n
  <2>1. new = Partial(answer[new.index], new.index, sent'[new.index])
    BY <1>5, <1>6
  <2>. HIDE DEF new
  <2>. QED
    BY <1>2, <1>5, <1>6, <2>1 DEF IsBuilder
<1>8. ASSUME NEW k \in 1..l, builders[k].index # i PROVE IsBuilder(builders[k], answer, sent')
  <2>1. DOMAIN sent = DOMAIN answer
    BY DEF BuildersInv
  <2>2. IsBuilder(builders[k], answer, sent)
    BY <1>4
  <2>. HIDE DEF n
  <2>. QED
    BY <1>1, <1>8, <2>1, <2>2, OtherBuilder
<1>9. \A j \in DOMAIN answer : j # i /\ sent'[j] > 0 => \E k \in 1..l : builders[k].index = j
  BY <1>4, <1>6
<1>. HIDE DEF n, new, S, l
<1> SUFFICES /\ builders' \in Seq(S)
             /\ \A k \in 1..Len(builders') : IsBuilder(builders'[k], answer, sent')
             /\ \A j \in DOMAIN answer : sent'[j] > 0 => \E k \in 1..Len(builders') : builders'[k].index = j
             /\ \A j, k \in 1..Len(builders') : builders'[j].index = builders'[k].index => j = k
  BY <1>2, <1>6, Zenon DEF BuildersInv, S, ModelCalls!Fragments
<1>10. CASE at = 0 /\ \A k \in 1..l : builders[k].index # i
  <2>1. builders' = Append(builders, new)
    BY <1>1, <1>10
  <2>2. /\ builders' \in Seq(S) /\ Len(builders') = l + 1
        /\ \A k \in 1..l : builders'[k] = builders[k]
        /\ builders'[l + 1] = new
    BY <1>3, <1>5, <2>1, AppendIs DEF l
  <2>3. \A k \in 1..(l + 1) : k \in 1..l \/ k = l + 1
    BY <1>3
  <2>4. l + 1 \in 1..(l + 1) /\ 1..l \subseteq 1..(l + 1) /\ ~(l + 1 \in 1..l)
    BY <1>3
  <2>5. \A k \in 1..(l + 1) : IsBuilder(builders'[k], answer, sent')
    BY <1>7, <1>8, <1>10, <2>2, <2>3
  <2>6. \A j \in DOMAIN answer : sent'[j] > 0 => \E k \in 1..(l + 1) : builders'[k].index = j
    BY <1>5, <1>9, <2>2, <2>4
  <2>7. \A j, k \in 1..(l + 1) : builders'[j].index = builders'[k].index => j = k
    BY <1>4, <1>5, <1>10, <2>2, <2>3
  <2>. QED
    BY <2>2, <2>5, <2>6, <2>7
<1>11. CASE at \in 1..l /\ builders[at].index = i /\ at # 0
  <2>. HIDE DEF at
  <2>1. builders' = [builders EXCEPT ![at] = new]
    BY <1>1, <1>11
  <2>2. /\ builders' \in Seq(S) /\ Len(builders') = l
        /\ \A k \in 1..l : builders'[k] = IF k = at THEN new ELSE builders[k]
    <3>1. at \in 1..Len(builders)
      BY <1>11 DEF l
    <3>2. builders' \in Seq(S) /\ Len(builders') = Len(builders)
      BY <1>3, <1>5, <2>1, <3>1, ExceptSeq
    <3>3. \A k \in 1..l : builders'[k] = IF k = at THEN new ELSE builders[k]
      BY <1>3, <2>1
    <3>. QED
      BY <3>2, <3>3 DEF l
  <2>3. \A k \in 1..l : k # at => builders[k].index # i
    BY <1>4, <1>11
  <2>4. \A k \in 1..l : builders'[k].index = builders[k].index
    BY <1>5, <1>11, <2>2
  <2>5. \A k \in 1..l : IsBuilder(builders'[k], answer, sent')
    BY <1>7, <1>8, <2>2, <2>3
  <2>6. \A j \in DOMAIN answer : sent'[j] > 0 => \E k \in 1..l : builders'[k].index = j
    BY <1>9, <1>11, <2>4
  <2>7. \A j, k \in 1..l : builders'[j].index = builders'[k].index => j = k
    BY <1>4, <2>4
  <2>. QED
    BY <2>2, <2>5, <2>6, <2>7
<1>12. \/ at = 0 /\ \A k \in 1..l : builders[k].index # i
       \/ at \in 1..l /\ builders[at].index = i /\ at # 0
  BY <1>3, <1>4, BuilderIs DEF l
<1>. QED
  BY <1>10, <1>11, <1>12

LEMMA FirstKeeps ==
    ASSUME BuildersInv, FirstInv, NEW i \in DOMAIN answer, ModelCalls!Take(i), answer' = answer
    PROVE  FirstInv'
<1> DEFINE new == Partial(answer[i], i, sent[i] + 1)
           at == ModelCalls!Builder(i)
           l == Len(builders)
           S == Begun(answer)
<1>1. /\ builders' = IF at # 0 THEN [builders EXCEPT ![at] = new] ELSE Append(builders, new)
      /\ first' = IF sent[i] = 0 THEN Append(first, i) ELSE first
      /\ sent[i] \in Nat /\ i \in Int
  <2>1. i \in Int
    <3>1. answer \in Seq(Made)
      BY AnswersTyped DEF BuildersInv
    <3>. QED
      BY <3>1, LenProperties
  <2>2. first' = IF sent[i] = 0 THEN Append(first, i) ELSE first
    BY Zenon DEF ModelCalls!Take
  <2>. QED
    BY <2>1, <2>2, TakeIs DEF BuildersInv
<1>2. builders \in Seq(S) /\ l \in Nat /\ first \in Seq(Int) /\ Len(first) = l
      /\ \A k \in 1..l : first[k] = builders[k].index
  BY LenProperties DEF BuildersInv, FirstInv
<1>3. new \in S /\ new.index = i
  <2>1. sent[i] + 1 \in Nat
    BY <1>1
  <2>2. new \in S
    BY <2>1 DEF Begun
  <2>. QED
    BY <2>2 DEF Partial
<1>. HIDE DEF new, S
<1>4. CASE at = 0 /\ \A k \in 1..l : builders[k].index # i
  <2>1. sent[i] = 0
    <3>1. ~(sent[i] > 0)
      BY <1>4 DEF BuildersInv
    <3>. QED
      BY <1>1, <3>1
  <2>2. builders' = Append(builders, new) /\ first' = Append(first, i)
    BY <1>1, <1>4, <2>1
  <2>3. /\ Len(builders') = l + 1 /\ \A k \in 1..l : builders'[k] = builders[k]
        /\ builders'[l + 1] = new
    BY <1>2, <1>3, <2>2, AppendIs
  <2>4. /\ first' \in Seq(Int) /\ Len(first') = l + 1 /\ \A k \in 1..l : first'[k] = first[k]
        /\ first'[l + 1] = i
    BY <1>1, <1>2, <2>2, AppendIs
  <2>5. \A k \in 1..(l + 1) : k \in 1..l \/ k = l + 1
    BY <1>2
  <2>. QED
    BY <1>2, <1>3, <2>3, <2>4, <2>5 DEF FirstInv
<1>5. CASE at \in 1..l /\ builders[at].index = i /\ at # 0
  <2>1. sent[i] > 0
    <3>1. IsBuilder(builders[at], answer, sent)
      BY <1>5, Zenon DEF BuildersInv
    <3>. QED
      BY <1>5, <3>1 DEF IsBuilder
  <2>2. builders' = [builders EXCEPT ![at] = new] /\ first' = first
    BY <1>1, <1>5, <2>1
  <2>. HIDE DEF at
  <2>3. /\ Len(builders') = l /\ \A k \in 1..l : builders'[k] = IF k = at THEN new ELSE builders[k]
    <3>1. at \in 1..Len(builders) /\ DOMAIN builders = 1..l
      BY <1>2, <1>5, LenProperties
    <3>2. Len(builders') = l
      BY <1>2, <1>3, <2>2, <3>1, ExceptSeq
    <3>. QED
      BY <2>2, <3>1, <3>2
  <2>. QED
    BY <1>2, <1>3, <1>5, <2>2, <2>3 DEF FirstInv
<1>. QED
  BY <1>2, <1>4, <1>5, BuilderIs DEF BuildersInv
------------------------------------------------------------------------------
\* A span is open for the station whose callee runs, and for no other; once the
\* model was asked, the response has what it said.
StationInv ==
    /\ way \in {"stream", "whole", "app"} /\ outcome \in {"open", "done", "cut", "raised"}
    /\ station \in 1..(Stations + 1) /\ within \in BOOLEAN
    /\ within => station \in 1..Stations /\ outcome \in {"open", "cut"}
    /\ outcome = "done" => station = Stations + 1
    /\ outcome = "cut" => station > Asks
    /\ spans \subseteq 1..Stations
    /\ outcome # "raised" => spans = IF within THEN {station} ELSE {}
AllCame == \A i \in DOMAIN answer : sent[i] = ModelCalls!Fragments(answer[i])
AnswerInv ==
    /\ way # "stream" /\ station > Asks /\ outcome # "raised" =>
           response = ModelCalls!WholeCalls(answer)
    /\ way = "stream" /\ station > Asks /\ outcome # "raised" =>
           response = ModelCalls!StreamedCalls /\ (outcome # "cut" => AllCame)
RequestInv == StationInv /\ BuildersInv /\ FirstInv /\ AnswerInv

LEMMA RequestBegins == ModelCalls!Init => RequestInv
<1> SUFFICES ASSUME ModelCalls!Init PROVE RequestInv
  OBVIOUS
<1>1. /\ way \in {"stream", "whole", "app"} /\ answer \in Answers
      /\ station = 1 /\ within = FALSE /\ sent = [i \in DOMAIN answer |-> 0]
      /\ builders = <<>> /\ first = <<>> /\ outcome = "open" /\ spans = {}
  BY DEF ModelCalls!Init
<1>2. Stations \in Nat /\ 1 \in 1..(Stations + 1) /\ ~(1 > Asks)
  BY RouteIs
<1>3. StationInv
  <2>1. FALSE \in BOOLEAN /\ {} \subseteq 1..Stations
    OBVIOUS
  <2>. QED
    BY <1>1, <1>2, <2>1 DEF StationInv
<1>4. BuildersInv
  <2>1. builders \in Seq(Begun(answer)) /\ Len(builders) = 0 /\ 1..0 = {}
    BY <1>1, EmptySeq
  <2>2. sent \in [DOMAIN answer -> Nat] /\ \A i \in DOMAIN answer : sent[i] = 0
    BY <1>1
  <2>3. \A i \in DOMAIN answer : 0 <= ModelCalls!Fragments(answer[i])
    <3> SUFFICES ASSUME NEW i \in DOMAIN answer PROVE 0 <= ModelCalls!Fragments(answer[i])
      OBVIOUS
    <3>1. answer[i].head \in Nat /\ Len(answer[i].pieces) \in Nat
      BY <1>1, CallOf, AnswersTyped, LenProperties
    <3>. QED
      BY <3>1 DEF ModelCalls!Fragments
  <2>. QED
    BY <1>1, <2>1, <2>2, <2>3 DEF BuildersInv
<1>5. AnswerInv
  BY <1>1, <1>2 DEF AnswerInv
<1>6. FirstInv
  <2>1. first \in Seq(Int) /\ Len(first) = 0 /\ Len(builders) = 0 /\ 1..0 = {}
    BY <1>1, EmptySeq
  <2>. QED
    BY <2>1 DEF FirstInv
<1>. QED
  BY <1>3, <1>4, <1>5, <1>6 DEF RequestInv

LEMMA SameAnswer ==
    ASSUME UNCHANGED <<way, answer, sent, builders, first>>
    PROVE  /\ BuildersInv => BuildersInv'
           /\ FirstInv => FirstInv'
           /\ AllCame' <=> AllCame
           /\ ModelCalls!StreamedCalls' = ModelCalls!StreamedCalls
           /\ ModelCalls!WholeCalls(answer)' = ModelCalls!WholeCalls(answer)
  BY DEF BuildersInv, FirstInv, IsBuilder, AllCame, ModelCalls!Fragments, ModelCalls!StreamedCalls,
         ModelCalls!WholeCalls, ModelCalls!Keep, ModelCalls!Nth, ModelCalls!Rank,
         ModelCalls!Cardinality, ModelCalls!IsFiniteSet, ModelCalls!Parsed, ModelCalls!Given,
         ModelCalls!EmptyObject, ModelCalls!DefaultId

LEMMA Left ==
    ASSUME StationInv, within, ModelCalls!Leave
    PROVE  /\ within' = FALSE /\ station' = station + 1 /\ spans' = {}
           /\ station' \in 1..(Stations + 1) /\ spans' \subseteq 1..Stations
           /\ station = Stations => station' = Stations + 1
           /\ station' > Asks => station = Asks \/ station > Asks
<1>1. station \in 1..Stations /\ spans = {station}
  BY DEF StationInv
<1>2. Stations \in Nat /\ Asks \in Nat
  BY RouteIs
<1>3. within' = FALSE /\ station' = station + 1 /\ spans' = {}
  BY <1>1 DEF ModelCalls!Leave
<1>4. station + 1 \in 1..(Stations + 1) /\ (station + 1 > Asks => station = Asks \/ station > Asks)
  BY <1>1, <1>2
<1>. QED
  BY <1>3, <1>4

LEMMA RequestStep == RequestInv /\ [ModelCalls!Next]_requestVars => RequestInv'
<1> SUFFICES ASSUME RequestInv, [ModelCalls!Next]_requestVars PROVE RequestInv'
  OBVIOUS
<1>. USE DEF RequestInv
<1>0. /\ Stations \in Nat /\ Asks \in 1..Stations /\ Len(ModelCalls!Route) = Stations
      /\ \A i \in 1..Stations : ModelCalls!Route[i] = "model" <=> i = Asks
  BY RouteIs
<1>1. CASE ModelCalls!Enter
  <2>1. /\ within' = TRUE /\ spans' = spans \cup {station} /\ station' = station
        /\ outcome' = outcome /\ outcome \in {"open", "cut"} /\ within = FALSE /\ station <= Stations
        /\ UNCHANGED <<way, answer, sent, builders, first, response>>
    BY <1>0, <1>1 DEF ModelCalls!Enter, StationInv
  <2>2. station \in 1..Stations
    BY <1>0, <2>1 DEF StationInv
  <2>3. spans' = {station}
    BY <2>1 DEF StationInv
  <2>4. StationInv'
    <3>1. TRUE \in BOOLEAN /\ {station} \subseteq 1..Stations /\ station \in 1..(Stations + 1)
      BY <1>0, <2>2
    <3>. QED
      BY <1>0, <2>1, <2>2, <2>3, <3>1 DEF StationInv
  <2>5. AnswerInv'
    BY <2>1, SameAnswer DEF AnswerInv
  <2>. QED
    BY <2>1, <2>4, <2>5, SameAnswer
<1>2. CASE ModelCalls!Return
  <2>1. /\ within /\ ModelCalls!Leave /\ UNCHANGED <<way, answer, sent, builders, first, response>>
        /\ outcome' = IF station = Stations /\ outcome = "open" THEN "done" ELSE outcome
        /\ ModelCalls!Route[station] # "model"
    BY <1>0, <1>2 DEF ModelCalls!Return
  <2>2. station \in 1..Stations /\ outcome \in {"open", "cut"}
    BY <2>1 DEF StationInv
  <2>3. station # Asks
    BY <1>0, <2>1, <2>2
  <2>4. /\ within' = FALSE /\ station' = station + 1 /\ spans' = {}
        /\ station' \in 1..(Stations + 1) /\ spans' \subseteq 1..Stations
        /\ station = Stations => station' = Stations + 1
        /\ station' > Asks => station = Asks \/ station > Asks
    BY <2>1, Left
  <2>5. StationInv'
    <3>1. FALSE \in BOOLEAN
      OBVIOUS
    <3>2. outcome' = "cut" => station' > Asks
      <4>1. outcome' = "cut" => outcome = "cut"
        BY <2>1
      <4>2. outcome = "cut" => station > Asks
        BY DEF StationInv
      <4>3. station \in Int /\ Asks \in Int /\ station' = station + 1
        BY <1>0, <2>1, <2>4 DEF StationInv
      <4>. QED
        BY <4>1, <4>2, <4>3
    <3>. QED
      BY <2>1, <2>2, <2>4, <3>1, <3>2 DEF StationInv
  <2>6. AnswerInv'
    BY <2>1, <2>2, <2>3, <2>4, SameAnswer DEF AnswerInv
  <2>. QED
    BY <2>1, <2>5, <2>6, SameAnswer
<1>3. CASE ModelCalls!Raises
  <2>1. /\ outcome' = "raised" /\ within' = FALSE /\ station' = Stations + 1
        /\ UNCHANGED <<way, answer, sent, builders, first, response, spans>>
    BY <1>0, <1>3 DEF ModelCalls!Raises
  <2>2. Stations + 1 \in 1..(Stations + 1) /\ FALSE \in BOOLEAN
    BY <1>0
  <2>3. StationInv'
    BY <2>1, <2>2 DEF StationInv
  <2>4. AnswerInv'
    BY <2>1 DEF AnswerInv
  <2>. QED
    BY <2>1, <2>3, <2>4, SameAnswer
<1>4. CASE ModelCalls!Whole
  <2>1. /\ within /\ ModelCalls!Leave /\ UNCHANGED <<way, answer, sent, builders, first>> /\ way # "stream"
        /\ outcome' = IF station = Stations THEN "done" ELSE outcome
        /\ response' = ModelCalls!WholeCalls(answer)
    BY <1>0, <1>4 DEF ModelCalls!Whole
  <2>2. outcome \in {"open", "cut"}
    BY <2>1 DEF StationInv
  <2>3. /\ within' = FALSE /\ station' = station + 1 /\ spans' = {}
        /\ station' \in 1..(Stations + 1) /\ spans' \subseteq 1..Stations
        /\ station = Stations => station' = Stations + 1
    BY <2>1, Left
  <2>4. StationInv'
    <3>1. FALSE \in BOOLEAN
      OBVIOUS
    <3>2. outcome' = "cut" => station' > Asks
      <4>1. outcome' = "cut" => outcome = "cut"
        BY <2>1
      <4>2. outcome = "cut" => station > Asks
        BY DEF StationInv
      <4>3. station \in Int /\ Asks \in Int /\ station' = station + 1
        BY <1>0, <2>1, <2>3 DEF StationInv
      <4>. QED
        BY <4>1, <4>2, <4>3
    <3>. QED
      BY <2>1, <2>2, <2>3, <3>1, <3>2 DEF StationInv
  <2>5. AnswerInv'
    BY <2>1, SameAnswer DEF AnswerInv
  <2>. QED
    BY <2>1, <2>4, <2>5, SameAnswer
<1>5. CASE ModelCalls!Fragment
  <2>1. /\ within /\ ModelCalls!Route[station] = "model"
        /\ UNCHANGED <<way, station, within, answer, response, outcome, spans>>
    BY <1>5 DEF ModelCalls!Fragment
  <2>2. PICK i \in DOMAIN answer : ModelCalls!Take(i)
    BY <1>5 DEF ModelCalls!Fragment
  <2>3. BuildersInv' /\ FirstInv'
    BY <2>1, <2>2, FragmentKeeps, FirstKeeps
  <2>4. StationInv'
    BY <2>1 DEF StationInv
  <2>5. station = Asks /\ ~(station > Asks)
    BY <1>0, <2>1 DEF StationInv
  <2>6. AnswerInv'
    BY <2>1, <2>5 DEF AnswerInv
  <2>. QED
    BY <2>3, <2>4, <2>6
<1>6. CASE ModelCalls!StreamEnds
  <2>1. /\ within /\ ModelCalls!Leave /\ UNCHANGED <<way, answer, sent, builders, first>> /\ way = "stream"
        /\ outcome' = IF \E i \in DOMAIN answer : sent[i] < ModelCalls!Fragments(answer[i]) THEN "cut"
                      ELSE IF station = Stations THEN "done" ELSE outcome
        /\ response' = ModelCalls!StreamedCalls
    BY <1>0, <1>6 DEF ModelCalls!StreamEnds
  <2>2. outcome \in {"open", "cut"}
    BY <2>1 DEF StationInv
  <2>3. /\ within' = FALSE /\ station' = station + 1 /\ spans' = {}
        /\ station' \in 1..(Stations + 1) /\ spans' \subseteq 1..Stations
        /\ station = Stations => station' = Stations + 1
    BY <2>1, Left
  <2>4. StationInv'
    <3>1. FALSE \in BOOLEAN
      OBVIOUS
    <3>2. outcome' \in {"open", "cut"} \/ (outcome' = "done" /\ station = Stations)
      BY <2>1, <2>2
    <3>3. station' > Asks
      <4>1. station \in 1..Stations /\ ModelCalls!Route[station] = "model"
        BY <1>6, <2>1 DEF StationInv, ModelCalls!StreamEnds
      <4>. QED
        BY <1>0, <2>3, <4>1
    <3>. QED
      BY <2>1, <2>3, <3>1, <3>2, <3>3 DEF StationInv
  <2>5. ASSUME outcome' # "cut" PROVE AllCame
    <3> SUFFICES ASSUME NEW i \in DOMAIN answer PROVE sent[i] = ModelCalls!Fragments(answer[i])
      BY DEF AllCame
    <3>1. sent[i] \in Nat /\ sent[i] <= ModelCalls!Fragments(answer[i])
      BY DEF BuildersInv
    <3>2. ~(sent[i] < ModelCalls!Fragments(answer[i]))
      BY <2>1, <2>5
    <3>3. ModelCalls!Fragments(answer[i]) \in Nat
      <4>1. answer[i].head \in Nat /\ Len(answer[i].pieces) \in Nat
        BY CallOf, AnswersTyped, LenProperties DEF BuildersInv
      <4>. QED
        BY <4>1 DEF ModelCalls!Fragments
    <3>. QED
      BY <3>1, <3>2, <3>3
  <2>6. AnswerInv'
    BY <2>1, <2>5, SameAnswer DEF AnswerInv
  <2>. QED
    BY <2>1, <2>4, <2>6, SameAnswer
<1>7. CASE UNCHANGED requestVars
  <2>1. UNCHANGED requestVars /\ UNCHANGED <<way, answer, sent, builders, first>>
    BY <1>7 DEF requestVars
  <2>2. StationInv'
    BY <2>1 DEF StationInv, requestVars
  <2>3. AnswerInv'
    BY <2>1, SameAnswer DEF AnswerInv, requestVars
  <2>. QED
    BY <2>1, <2>2, <2>3, SameAnswer
<1>. QED
  BY <1>1, <1>2, <1>3, <1>4, <1>5, <1>6, <1>7 DEF ModelCalls!Next
------------------------------------------------------------------------------
LEMMA FragmentsAre ==
    ASSUME NEW call \in Made, NEW i
    PROVE  /\ ModelCalls!Fragments(call) \in Nat /\ ModelCalls!Fragments(call) > 0
           /\ Partial(call, i, ModelCalls!Fragments(call)) = Built(i, call.id, call.name, call.pieces)
<1> DEFINE n == ModelCalls!Fragments(call)
<1>1. call.head \in Nat /\ call.head > 0 /\ Len(call.pieces) \in Nat
  BY AnswersTyped, LenProperties
<1>2. n \in Nat /\ n >= call.head /\ n >= Len(call.pieces) /\ n > 0
  BY <1>1 DEF ModelCalls!Fragments
<1>. HIDE DEF n
<1>3. Heard(call, n) = call.pieces
  BY <1>2, HeardGrows
<1>4. Partial(call, i, n) = Built(i, call.id, call.name, call.pieces)
  BY <1>2, <1>3 DEF Partial, Built
<1>. QED
  BY <1>2, <1>4 DEF n

LEMMA FunctionLen ==
    ASSUME NEW m \in Nat, NEW r, r = [j \in 1..m |-> r[j]]
    PROVE  Len(r) = m /\ DOMAIN r = 1..m
<1> DEFINE S == {r[j] : j \in 1..m}
<1>1. r \in [1..m -> S]
  OBVIOUS
<1>. HIDE DEF S
<1>2. r \in Seq(S)
  BY <1>1
<1>. QED
  BY <1>1, <1>2, LenProperties

\* The names and the texts of the builders are what came of them.
LEMMA BuilderCame ==
    ASSUME BuildersInv, FirstInv, NEW k \in 1..Len(builders)
    PROVE  /\ first[k] \in DOMAIN answer
           /\ builders[k].text = ModelCalls!Came(first[k])
           /\ builders[k].name # NoName <=> ModelCalls!NameCame(first[k])
           /\ ModelCalls!NameCame(first[k]) =>
                  /\ builders[k].name = answer[first[k]].name
                  /\ builders[k].id = answer[first[k]].id
<1> DEFINE i == first[k]
<1>1. IsBuilder(builders[k], answer, sent) /\ builders[k].index = i
  BY Zenon DEF BuildersInv, FirstInv
<1>2. i \in DOMAIN answer /\ builders[k] = Partial(answer[i], i, sent[i])
  BY <1>1, Zenon DEF IsBuilder
<1>. HIDE DEF i
<1>3. /\ builders[k].text = Heard(answer[i], sent[i])
      /\ builders[k].name = IF sent[i] >= answer[i].head THEN answer[i].name ELSE NoName
      /\ builders[k].id = IF sent[i] >= answer[i].head THEN answer[i].id ELSE NoName
  BY <1>2 DEF Partial
<1>4. Heard(answer[i], sent[i]) = ModelCalls!Came(i)
  BY DEF Heard, ModelCalls!Came
<1>5. ModelCalls!NameCame(i) <=> sent[i] >= answer[i].head /\ answer[i].name # NoName
  BY DEF ModelCalls!NameCame
<1>6. /\ i \in DOMAIN answer
      /\ builders[k].text = ModelCalls!Came(i)
      /\ builders[k].name # NoName <=> ModelCalls!NameCame(i)
      /\ ModelCalls!NameCame(i) => builders[k].name = answer[i].name /\ builders[k].id = answer[i].id
  BY <1>2, <1>3, <1>4, <1>5
<1>. QED
  BY <1>6 DEF i

LEMMA StreamedIs ==
    ASSUME BuildersInv, FirstInv
    PROVE  /\ ModelCalls!StreamedCalls =
                  [j \in DOMAIN ModelCalls!NamedCalls |->
                      LET i == ModelCalls!NamedCalls[j] IN
                          [id |-> IF answer[i].id = NoName THEN ModelCalls!DefaultId ELSE answer[i].id,
                           name |-> answer[i].name, arguments |-> ModelCalls!Given(ModelCalls!Came(i))]]
           /\ \A k \in 1..Len(builders) : ModelCalls!NameCame(first[k]) =>
                  \E j \in DOMAIN ModelCalls!NamedCalls : ModelCalls!NamedCalls[j] = first[k]
           /\ \A j, k \in DOMAIN ModelCalls!NamedCalls :
                  ModelCalls!NamedCalls[j] = ModelCalls!NamedCalls[k] => j = k
<1> DEFINE l == Len(builders)
           P == {k \in DOMAIN builders : builders[k].name # NoName}
           Q == {k \in DOMAIN first : ModelCalls!NameCame(first[k])}
           m == Cardinality(P)
           chosen == Keep(builders, P)
           named == ModelCalls!NamedCalls
           Made1(b) == [id |-> IF b.id = NoName THEN ModelCalls!DefaultId ELSE b.id,
                        name |-> b.name, arguments |-> ModelCalls!Given(b.text)]
           Made2(i) == [id |-> IF answer[i].id = NoName THEN ModelCalls!DefaultId ELSE answer[i].id,
                        name |-> answer[i].name, arguments |-> ModelCalls!Given(ModelCalls!Came(i))]
<1>1. /\ l \in Nat /\ DOMAIN builders = 1..l /\ builders \in Seq(Begun(answer))
      /\ DOMAIN first = 1..l /\ first \in Seq(Int)
  BY LenProperties DEF BuildersInv, FirstInv
<1>2. P = Q /\ P \in SUBSET DOMAIN builders /\ P \in SUBSET DOMAIN first /\ P \in SUBSET (1..l)
  BY <1>1, BuilderCame
<1>3. ASSUME NEW k \in P
      PROVE  /\ builders[k].text = ModelCalls!Came(first[k])
             /\ builders[k].name = answer[first[k]].name
             /\ builders[k].id = answer[first[k]].id
  BY <1>1, BuilderCame
<1>4. ModelCalls!NamedCalls = Keep(first, P)
  BY <1>2, SameKeep, Zenon DEF ModelCalls!NamedCalls
<1>5. \A j, k \in P : first[j] = first[k] => j = k
  BY <1>1 DEF BuildersInv, FirstInv
<1>6. \A k \in 1..l : ModelCalls!NameCame(first[k]) => k \in P
  BY <1>1, BuilderCame
<1>. HIDE DEF P, Q
<1>7. /\ DOMAIN chosen = 1..m
      /\ \A j \in 1..m : Nth(P, j) \in P /\ chosen[j] = builders[Nth(P, j)]
  BY <1>1, <1>2, KeepTyped
<1>8. /\ DOMAIN named = 1..m
      /\ \A j \in 1..m : Nth(P, j) \in P /\ named[j] = first[Nth(P, j)]
  BY <1>1, <1>2, <1>4, KeepTyped
<1>9. ModelCalls!StreamedCalls = [j \in DOMAIN chosen |-> Made1(chosen[j])]
  BY <1>7, SameKeep, Zenon DEF ModelCalls!StreamedCalls, P
<1>. HIDE DEF chosen, named, m
<1>10. ASSUME NEW j \in 1..m PROVE Made1(chosen[j]) = Made2(named[j])
  <2>1. PICK k \in P : chosen[j] = builders[k] /\ named[j] = first[k]
    BY <1>7, <1>8
  <2>2. /\ chosen[j].text = ModelCalls!Came(named[j])
        /\ chosen[j].name = answer[named[j]].name
        /\ chosen[j].id = answer[named[j]].id
    BY <1>3, <2>1
  <2>. QED
    BY <2>2
<1>. HIDE DEF Made1, Made2
<1>11. ModelCalls!StreamedCalls = [j \in DOMAIN named |-> Made2(named[j])]
  BY <1>7, <1>8, <1>9, <1>10
<1>12. ASSUME NEW k \in 1..l, ModelCalls!NameCame(first[k])
       PROVE  \E j \in DOMAIN named : named[j] = first[k]
  <2>1. k \in P
    BY <1>6, <1>12
  <2>2. PICK j \in 1..m : Nth(P, j) = k
    BY <1>1, <1>2, <2>1, NthOfRank DEF m
  <2>. QED
    BY <1>8, <2>2
<1>13. ASSUME NEW j \in DOMAIN named, NEW k \in DOMAIN named, named[j] = named[k]
       PROVE  j = k
  <2>1. Nth(P, j) = Nth(P, k)
    BY <1>5, <1>8, <1>13
  <2>2. Rank(P, Nth(P, j)) = j /\ Rank(P, Nth(P, k)) = k
    BY <1>1, <1>2, <1>8, <1>13, NthIs DEF m
  <2>. QED
    BY <2>1, <2>2
<1>. QED
  BY <1>11, <1>12, <1>13 DEF named, Made2, l

\* When all has come, every call that has a name is among those whose name came.
LEMMA AllNamed ==
    ASSUME BuildersInv, FirstInv, AllCame, NEW i \in DOMAIN answer, answer[i].name # NoName
    PROVE  /\ ModelCalls!Came(i) = answer[i].pieces
           /\ \E j \in DOMAIN ModelCalls!NamedCalls : ModelCalls!NamedCalls[j] = i
<1>1. answer[i] \in Made
  BY CallOf DEF BuildersInv
<1>2. sent[i] = ModelCalls!Fragments(answer[i])
  BY DEF AllCame
<1>3. /\ answer[i].head \in Nat /\ answer[i].head > 0 /\ Len(answer[i].pieces) \in Nat
  BY <1>1, AnswersTyped, LenProperties
<1>4. /\ sent[i] \in Nat /\ sent[i] > 0 /\ sent[i] >= answer[i].head /\ sent[i] >= Len(answer[i].pieces)
  BY <1>2, <1>3 DEF ModelCalls!Fragments
<1>5. ModelCalls!Came(i) = answer[i].pieces
  <2>1. Heard(answer[i], sent[i]) = answer[i].pieces
    BY <1>1, <1>4, HeardGrows
  <2>. QED
    BY <2>1 DEF Heard, ModelCalls!Came
<1>6. PICK k \in 1..Len(builders) : builders[k].index = i
  BY <1>4 DEF BuildersInv
<1>7. first[k] = i
  BY <1>6 DEF FirstInv
<1>8. ModelCalls!NameCame(first[k])
  BY <1>4, <1>7 DEF ModelCalls!NameCame
<1>9. \E j \in DOMAIN ModelCalls!NamedCalls : ModelCalls!NamedCalls[j] = first[k]
  BY <1>8, StreamedIs
<1>. QED
  BY <1>5, <1>7, <1>9

\* app/llm.py, openai/llm.py, agent.py: a request that came through, cut off or
\* not, has ended the span of every station; a stream gives the calls whose name
\* came, each once, in the order of their first fragments and with what came of
\* their texts, and if it was not cut off these are all calls with a name and all
\* of their texts; an answer that comes whole gives its calls as they are.
THEOREM CallsCameWhole == Spec => []CallsArriveWhole
<1>1. Init => RequestInv
  BY RequestBegins DEF Init
<1>2. RequestInv /\ [Next]_vars => RequestInv'
  BY RequestStep, StepsOfParts
<1>3. RequestInv => CallsArriveWhole
  <2> SUFFICES ASSUME RequestInv PROVE ModelCalls!CallsArriveWhole
    BY DEF CallsArriveWhole
  <2>0. /\ Stations \in Nat /\ Asks \in 1..Stations /\ Len(ModelCalls!Route) = Stations
        /\ station \in 1..(Stations + 1)
    BY RouteIs DEF RequestInv, StationInv
  <2>1. ASSUME outcome # "raised", station > Len(ModelCalls!Route) PROVE spans = {} /\ ~within
    BY <2>0, <2>1 DEF RequestInv, StationInv
  <2>2. ASSUME outcome \in {"done", "cut"}, way = "stream" PROVE response = ModelCalls!StreamedCalls
    BY <2>0, <2>2 DEF RequestInv, StationInv, AnswerInv
  <2>3. ASSUME outcome = "done"
        PROVE  /\ way # "stream" => response = ModelCalls!WholeCalls(answer)
               /\ way = "stream" => AllCame
    BY <2>0, <2>3 DEF RequestInv, StationInv, AnswerInv
  <2>4. BuildersInv /\ FirstInv
    BY DEF RequestInv
  <2>. QED
    BY <2>1, <2>2, <2>3, <2>4, StreamedIs, AllNamed, Zenon DEF ModelCalls!CallsArriveWhole
<1>. QED
  BY <1>1, <1>2, <1>3, PTL DEF Spec
------------------------------------------------------------------------------
(***************************************************************************)
(* Catalog: what is searched for, and the rows that are shown              *)
(***************************************************************************)

\* The operators of the catalogue are those of the library.
LEMMA SameText ==
    /\ \A t, q : Catalog!Like(t, Catalog!LikePattern(q)) = Like(t, LikePattern(q))
    /\ \A t, q : Catalog!Within(t, q) = Within(t, q)
<1>1. \A t, p : Catalog!Like(t, p) = Like(t, p)
  BY DEF Like, Begins, Catalog!Like, Catalog!Begins
<1>2. \A s, c : Catalog!Replaced(s, c) = Replaced(s, c)
  BY DEF Replaced, Escaped, FlattenSeq, Catalog!Replaced, Catalog!Escaped, Catalog!FlattenSeq
<1>3. \A q : Catalog!LikePattern(q) = LikePattern(q)
  BY <1>2 DEF LikePattern, Catalog!LikePattern
<1>4. \A t, q : Catalog!Within(t, q) = Within(t, q)
  BY DEF Within, Catalog!Within
<1>. QED
  BY <1>1, <1>3, <1>4

LEMMA SamePlaces ==
    /\ \A D : Catalog!Cardinality(D) = Cardinality(D)
    /\ \A D, n : Catalog!Nth(D, n) = Nth(D, n)
  BY DEF Nth, Rank, Cardinality, IsFiniteSet,
         Catalog!Nth, Catalog!Rank, Catalog!Cardinality, Catalog!IsFiniteSet

\* Of finitely many mappings there is one of best priority.
LEMMA BestPriority ==
    ASSUME NEW D, D # {}, IsFiniteSet(D), \A m \in D : m.priority \in Int
    PROVE  \E m \in D : \A n \in D : m.priority <= n.priority
<1> DEFINE Better(m) == {n \in D : n.priority < m.priority}
           counts == {Cardinality(Better(m)) : m \in D}
<1>1. ASSUME NEW m \in D PROVE IsFiniteSet(Better(m)) /\ Cardinality(Better(m)) \in Nat
  <2>1. Better(m) \in SUBSET D
    OBVIOUS
  <2>. HIDE DEF Better
  <2>. QED
    BY <2>1, FS_Subset, FS_CardinalityType
<1>2. PICK c \in counts : \A k \in Nat : k < c => k \notin counts
  <2>1. counts \in SUBSET Nat /\ counts # {}
    <3>. HIDE DEF Better
    <3>. QED
      BY <1>1
  <2>. HIDE DEF counts
  <2>. QED
    BY <2>1, LeastIs
<1>3. PICK m \in D : c = Cardinality(Better(m))
  OBVIOUS
<1>4. ASSUME NEW n \in D, n.priority < m.priority PROVE FALSE
  <2>1. Better(n) \in SUBSET Better(m)
    <3>1. \A k \in D : k.priority < n.priority => k.priority < m.priority
      BY <1>4
    <3>. QED
      BY <3>1
  <2>2. n \in Better(m) /\ n \notin Better(n)
    BY <1>4
  <2>3. IsFiniteSet(Better(m)) /\ Cardinality(Better(m)) \in Nat /\ Cardinality(Better(n)) \in Nat
    BY <1>1
  <2>4. Cardinality(Better(n)) <= Cardinality(Better(m)) /\ Cardinality(Better(n)) # Cardinality(Better(m))
    <3>1. ASSUME NEW A, NEW B, A \in SUBSET B, IsFiniteSet(B), A # B
          PROVE  Cardinality(A) <= Cardinality(B) /\ Cardinality(A) # Cardinality(B)
      BY <3>1, FS_Subset
    <3>2. Better(n) # Better(m)
      BY <2>2
    <3>. HIDE DEF Better
    <3>. QED
      BY <2>1, <2>3, <3>1, <3>2
  <2>5. Cardinality(Better(n)) < c
    <3>. HIDE DEF Better
    <3>. QED
      BY <1>3, <2>3, <2>4
  <2>6. Cardinality(Better(n)) \in counts
    OBVIOUS
  <2>. HIDE DEF Better, counts
  <2>. QED
    BY <1>2, <2>3, <2>5, <2>6
<1>5. \A n \in D : m.priority <= n.priority
  BY <1>4
<1>. QED
  BY <1>5

\* Shown are the first of the rows, one for each place, no more than the limit.
ShowsFirst(top, rows, cap) ==
    LET places == {r.at : r \in rows}
        listedAt == {r.at : r \in Catalog!ToSet(top)}
    IN  /\ Len(top) <= cap /\ Catalog!Cardinality(listedAt) = Len(top)
        /\ \A i, j \in DOMAIN top : i < j => top[i].at < top[j].at
        /\ listedAt \subseteq places
        /\ \A at \in places \ listedAt : Len(top) = cap /\ \A s \in listedAt : s < at
        /\ Catalog!ToSet(top) \subseteq rows

LEMMA FirstRows ==
    ASSUME NEW size \in Nat, NEW rows, \A r \in rows : r.at \in 1..size, NEW cap \in Nat, cap >= 1
    PROVE  ShowsFirst(Catalog!First(Catalog!InNameOrder(rows), cap), rows, cap)
<1>a. PICK top : top = Catalog!First(Catalog!InNameOrder(rows), cap)
  OBVIOUS
<1>b. PICK places : places = {r.at : r \in rows}
  OBVIOUS
<1>c. PICK listedAt : listedAt = {r.at : r \in Catalog!ToSet(top)}
  OBVIOUS
<1> DEFINE all == Catalog!InNameOrder(rows)
           size1 == Cardinality(places)
           m == IF size1 < cap THEN size1 ELSE cap
<1>1. places \in SUBSET (1..size)
  BY <1>b
<1>2. size1 \in Nat
  BY <1>1, PositionsFinite
<1>3. \A n \in 1..size1 : Nth(places, n) \in places
  BY <1>1, NthIs
<1>4. \A i, j \in 1..size1 : i < j => Nth(places, i) < Nth(places, j)
  BY <1>1, NthOrders
<1>5. \A at \in places : \E n \in 1..size1 : Nth(places, n) = at
  <2>1. ASSUME NEW at \in places
        PROVE  Rank(places, at) \in 1..Cardinality(places) /\ Nth(places, Rank(places, at)) = at
    BY <1>1, NthOfRank
  <2>. QED
    BY <2>1
<1>6. /\ DOMAIN all = 1..size1
      /\ \A n \in 1..size1 : all[n] = CHOOSE r \in rows : r.at = Catalog!Nth({s.at : s \in rows}, n)
  <2> DEFINE P == {r.at : r \in rows}
  <2>1. all = [n \in 1..Catalog!Cardinality(P) |-> CHOOSE r \in rows : r.at = Catalog!Nth(P, n)]
    BY DEF Catalog!InNameOrder
  <2>2. Catalog!Cardinality(P) = size1
    <3>1. P = places
      BY <1>b
    <3>. HIDE DEF P
    <3>. QED
      BY <3>1, SamePlaces
  <2>. HIDE DEF all, size1
  <2>. QED
    BY <2>1, <2>2, Zenon
<1>7. ASSUME NEW n \in 1..size1 PROVE all[n] \in rows /\ all[n].at = Nth(places, n)
  <2> DEFINE at == Catalog!Nth({r.at : r \in rows}, n)
  <2>1. all[n] = CHOOSE r \in rows : r.at = at
    <3>. HIDE DEF all
    <3>. QED
      BY <1>6
  <2>2. at = Nth(places, n)
    BY <1>b, SamePlaces
  <2>. HIDE DEF all, at
  <2>3. \E r \in rows : r.at = at
    BY <1>b, <1>3, <2>2
  <2>4. all[n] \in rows /\ all[n].at = at
    BY <2>1, <2>3, Zenon
  <2>. QED
    BY <2>2, <2>4
<1>7a. all = [n \in 1..size1 |-> all[n]]
  <2> DEFINE P == {r.at : r \in rows}
             taken(n) == CHOOSE r \in rows : r.at = Catalog!Nth(P, n)
             k == Catalog!Cardinality(P)
  <2>0. all = [n \in 1..k |-> taken(n)]
    BY DEF Catalog!InNameOrder
  <2>1. all = [n \in DOMAIN all |-> all[n]]
    <3>. HIDE DEF all, taken, k
    <3>. QED
      BY <2>0
  <2>. HIDE DEF all, size1
  <2>. QED
    BY <1>6, <2>1, Zenon
<1>8. all \in Seq(rows) /\ Len(all) = size1
  <2>. HIDE DEF all
  <2>1. all \in [1..size1 -> rows]
    <3>1. DOMAIN all = 1..size1 /\ \A n \in 1..size1 : all[n] \in rows
      BY <1>6, <1>7, Zenon
    <3>2. all = [n \in 1..size1 |-> all[n]]
      BY <1>7a
    <3>. HIDE DEF size1
    <3>. QED
      BY <3>1, <3>2, Zenon
  <2>. HIDE DEF size1
  <2>. QED
    BY <1>2, <2>1
<1>9. m \in Nat /\ m <= size1 /\ m <= cap
  BY <1>2
<1>10. top = SubSeq(all, 1, m)
  <2>. HIDE DEF all
  <2>. QED
    BY <1>a, <1>8 DEF Catalog!First, all
<1>11. Len(top) = m /\ top \in Seq(rows) /\ \A n \in 1..m : top[n] = all[n]
  <2>1. 0 \in Nat /\ 0 <= m /\ 0 + 1 = 1 /\ m - 0 = m /\ \A n \in 1..m : 0 + n = n
    BY <1>9
  <2>. HIDE DEF all, m
  <2>2. /\ SubSeq(all, 0 + 1, m) \in Seq(rows) /\ Len(SubSeq(all, 0 + 1, m)) = m - 0
        /\ \A n \in 1..(m - 0) : SubSeq(all, 0 + 1, m)[n] = all[0 + n]
    BY <1>8, <1>9, <2>1, SubSeqIs
  <2>. QED
    BY <1>10, <2>1, <2>2
<1> HIDE DEF all, m
<1>12. DOMAIN top = 1..m
  BY <1>11
<1>13. \A n \in 1..m : n \in 1..size1 /\ top[n] \in rows /\ top[n].at = Nth(places, n)
  <2>1. \A n \in 1..m : n \in 1..size1
    BY <1>2, <1>9
  <2>. QED
    BY <2>1, <1>7, <1>11
<1>14. Catalog!ToSet(top) = {top[n] : n \in 1..m}
  BY <1>12 DEF Catalog!ToSet
<1>15. \A s : s \in listedAt <=> \E n \in 1..m : s = Nth(places, n)
  BY <1>c, <1>13, <1>14
<1>16. listedAt \subseteq places
  <2>1. ASSUME NEW s \in listedAt PROVE s \in places
    <3>1. PICK n \in 1..m : s = Nth(places, n)
      BY <1>15
    <3>2. n \in 1..size1
      BY <1>13
    <3>. QED
      BY <1>3, <3>1, <3>2
  <2>. QED
    BY <2>1
<1>17. Cardinality(listedAt) = m
  <2> DEFINE f == [n \in 1..m |-> Nth(places, n)]
  <2>1. \A n \in 1..m : f[n] = Nth(places, n)
    OBVIOUS
  <2>2. f \in [1..m -> listedAt]
    BY <1>15
  <2>. HIDE DEF f
  <2>3. Lists(f, m, listedAt)
    <3>1. \A i, j \in 1..m : i < j => f[i] < f[j]
      BY <2>1, <1>4, <1>13, Zenon
    <3>2. \A d \in listedAt : \E i \in 1..m : f[i] = d
      BY <2>1, <1>15, Zenon
    <3>. QED
      BY <2>2, <3>1, <3>2, Zenon DEF Lists
  <2>4. listedAt \in SUBSET (1..size)
    BY <1>1, <1>16
  <2>. QED
    BY <1>9, <2>3, <2>4, OneList
<1>18. \A i, j \in DOMAIN top : i < j => top[i].at < top[j].at
  BY <1>4, <1>12, <1>13
<1>19. ASSUME NEW at \in places \ listedAt
       PROVE  Len(top) = cap /\ \A s \in listedAt : s < at
  <2>1. PICK n \in 1..size1 : Nth(places, n) = at
    BY <1>5
  <2>2. n \notin 1..m
    BY <1>15, <2>1
  <2>3. m < n /\ n \in Nat
    BY <1>2, <1>9, <2>2
  <2>4. m = cap
    BY <1>2, <2>1, <2>3 DEF m
  <2>5. \A k \in 1..m : k < n /\ k \in 1..size1
    BY <1>2, <1>9, <2>3
  <2>6. \A k \in 1..m : Nth(places, k) < at
    BY <1>4, <2>1, <2>5
  <2>7. \A s \in listedAt : s < at
    <3>. TAKE s \in listedAt
    <3>1. PICK k \in 1..m : s = Nth(places, k)
      BY <1>15
    <3>. QED
      BY <2>6, <3>1
  <2>. QED
    BY <1>11, <2>4, <2>7, Zenon
<1>20. Catalog!ToSet(top) \subseteq rows
  BY <1>13, <1>14
<1>21. ShowsFirst(top, rows, cap)
  <2>1. Catalog!Cardinality(listedAt) = Len(top) /\ Len(top) <= cap
    BY <1>9, <1>11, <1>17, SamePlaces
  <2>. QED
    BY <1>b, <1>c, <1>16, <1>18, <1>19, <1>20, <2>1 DEF ShowsFirst
<1>. QED
  BY <1>a, <1>21

CatalogTexts ==
    (UNION {{c.name, c.symbol} \cup c.aliases : c \in Companies})
    \cup (UNION {{t.qname, t.meaning} : t \in Tags}) \cup {m.metric : m \in Mappings} \cup Searches

LettersOf(texts) == UNION {{text[i] : i \in DOMAIN text} : text \in texts}

CatalogLetters == LettersOf(CatalogTexts) \cup {"\\", "%"}

\* Everything searched is a text.
LEMMA TextsOfCatalog ==
    /\ \A q \in Searches : q \in Seq(CatalogLetters)
    /\ \A c \in Companies : /\ c.name \in Seq(CatalogLetters) /\ c.symbol \in Seq(CatalogLetters)
                            /\ \A a \in c.aliases : a \in Seq(CatalogLetters)
    /\ \A t \in Tags : t.qname \in Seq(CatalogLetters) /\ t.meaning \in Seq(CatalogLetters)
    /\ \A m \in Mappings : m.metric \in Seq(CatalogLetters)
    /\ <<>> \in Seq(CatalogLetters)
<1>1. CatalogTexts \subseteq Seq(LettersOf(CatalogTexts))
  BY CatalogAssumption DEF CatalogTexts, LettersOf
<1>2. ASSUME NEW text \in CatalogTexts PROVE text \in Seq(CatalogLetters)
  <2>1. text \in Seq(LettersOf(CatalogTexts)) /\ LettersOf(CatalogTexts) \subseteq CatalogLetters
    BY <1>1 DEF CatalogLetters
  <2>2. Len(text) \in Nat /\ text \in [1..Len(text) -> LettersOf(CatalogTexts)]
    BY <2>1
  <2>3. text \in [1..Len(text) -> CatalogLetters]
    BY <2>1, <2>2
  <2>. QED
    BY <2>2, <2>3
<1>3. ASSUME NEW c \in Companies
      PROVE  c.name \in CatalogTexts /\ c.symbol \in CatalogTexts /\ \A a \in c.aliases : a \in CatalogTexts
  <2> DEFINE its == {c.name, c.symbol} \cup c.aliases
  <2>1. its \in {{d.name, d.symbol} \cup d.aliases : d \in Companies}
    OBVIOUS
  <2>2. its \subseteq CatalogTexts
    <3>. HIDE DEF its
    <3>. QED
      BY <2>1, Zenon DEF CatalogTexts
  <2>. QED
    BY <2>2
<1>4. ASSUME NEW t \in Tags PROVE t.qname \in CatalogTexts /\ t.meaning \in CatalogTexts
  <2> DEFINE its == {t.qname, t.meaning}
  <2>1. its \in {{d.qname, d.meaning} : d \in Tags}
    OBVIOUS
  <2>2. its \subseteq CatalogTexts
    <3>. HIDE DEF its
    <3>. QED
      BY <2>1, Zenon DEF CatalogTexts
  <2>. QED
    BY <2>2
<1>5. ASSUME NEW m \in Mappings PROVE m.metric \in CatalogTexts
  BY Zenon DEF CatalogTexts
<1>6. \A q \in Searches : q \in CatalogTexts
  BY Zenon DEF CatalogTexts
<1>7. <<>> \in Seq(CatalogLetters)
  OBVIOUS
<1>. QED
  BY <1>2, <1>3, <1>4, <1>5, <1>6, <1>7

\* A search looks for its letters, and an empty one for anything.
LEMMA SearchesWithin ==
    ASSUME NEW q \in Searches, NEW t \in Seq(CatalogLetters)
    PROVE  /\ Catalog!Like(t, Catalog!LikePattern(q)) <=> Catalog!Within(t, q)
           /\ q = <<>> => Catalog!Within(t, q)
<1>1. q \in Seq(CatalogLetters)
  BY TextsOfCatalog
<1>2. "\\" \in CatalogLetters /\ "%" \in CatalogLetters
  BY DEF CatalogLetters
<1>3. Like(t, LikePattern(q)) <=> Within(t, q)
  BY <1>1, <1>2, PatternsAreLiteral
<1>4. ASSUME q = <<>> PROVE Within(t, q)
  <2>1. Len(q) = 0 /\ Len(t) \in Nat /\ 0 \in 0..(Len(t) - 0) /\ 0 + 1 = 1 /\ 0 + 0 = 0
    BY <1>4
  <2>2. SubSeq(t, 1, 0) = <<>>
    OBVIOUS
  <2>3. SubSeq(t, 0 + 1, 0 + Len(q)) = q /\ 0 \in 0..(Len(t) - Len(q))
    BY <1>4, <2>1, <2>2
  <2>. QED
    BY <2>3, Zenon DEF Within
<1>. QED
  BY <1>3, <1>4, SameText

\* The companies found are those in which the search stands.
LEMMA CompaniesFound ==
    ASSUME NEW q \in Searches
    PROVE  Catalog!CompanyRows(q) =
               {c \in Companies : IF q = <<>> THEN c.name # <<>>
                    ELSE \E t \in {c.name, c.symbol} \cup c.aliases : Catalog!Within(t, q)}
<1>1. ASSUME NEW c \in Companies, NEW t \in {c.name, c.symbol} \cup c.aliases
      PROVE  Catalog!Like(t, Catalog!LikePattern(q)) <=> Catalog!Within(t, q)
  <2>1. t \in Seq(CatalogLetters)
    BY TextsOfCatalog
  <2>. QED
    BY <2>1, SearchesWithin
<1>. QED
  BY <1>1 DEF Catalog!CompanyRows

\* A tag and a mapping of it, or a tag that has none; those found are those in
\* which the search stands.
JoinedRows ==
    {[tag |-> p[1], metric |-> p[2].metric, rank |-> p[2].priority] :
        p \in {p \in Tags \X Mappings : p[2].tag = p[1].at}}
    \cup {[tag |-> t, metric |-> <<>>, rank |-> 0] :
        t \in {t \in Tags : \A m \in Mappings : m.tag # t.at}}

Hits(q, r) == Catalog!Within(r.tag.qname, q) \/ Catalog!Within(r.tag.meaning, q) \/ Catalog!Within(r.metric, q)

LEMMA JoinedIs ==
    /\ \A t \in Tags, m \in Mappings :
           m.tag = t.at => [tag |-> t, metric |-> m.metric, rank |-> m.priority] \in JoinedRows
    /\ \A t \in Tags :
           (\A m \in Mappings : m.tag # t.at) => [tag |-> t, metric |-> <<>>, rank |-> 0] \in JoinedRows
    /\ \A r \in JoinedRows :
           /\ r.tag \in Tags
           /\ \/ \E m \in Mappings : m.tag = r.tag.at /\ r.metric = m.metric /\ r.rank = m.priority
              \/ (\A m \in Mappings : m.tag # r.tag.at) /\ r.metric = <<>> /\ r.rank = 0
<1>1. ASSUME NEW t \in Tags, NEW m \in Mappings, m.tag = t.at
      PROVE  [tag |-> t, metric |-> m.metric, rank |-> m.priority] \in JoinedRows
  <2> DEFINE p == <<t, m>>
             row == [tag |-> t, metric |-> m.metric, rank |-> m.priority]
  <2>1. p \in Tags \X Mappings /\ p[1] = t /\ p[2] = m
    OBVIOUS
  <2>. HIDE DEF p
  <2>2. p \in {x \in Tags \X Mappings : x[2].tag = x[1].at}
    BY <1>1, <2>1
  <2>3. row = [tag |-> p[1], metric |-> p[2].metric, rank |-> p[2].priority]
    BY <2>1
  <2>. HIDE DEF row
  <2>4. row \in {[tag |-> x[1], metric |-> x[2].metric, rank |-> x[2].priority] :
                  x \in {x \in Tags \X Mappings : x[2].tag = x[1].at}}
    BY <2>2, <2>3, Zenon
  <2>5. row \in JoinedRows
    BY <2>4, Zenon DEF JoinedRows
  <2>. QED
    BY <2>5 DEF row
<1>2. ASSUME NEW t \in Tags, \A m \in Mappings : m.tag # t.at
      PROVE  [tag |-> t, metric |-> <<>>, rank |-> 0] \in JoinedRows
  BY <1>2 DEF JoinedRows
<1>3. ASSUME NEW r \in JoinedRows
      PROVE  /\ r.tag \in Tags
             /\ \/ \E m \in Mappings : m.tag = r.tag.at /\ r.metric = m.metric /\ r.rank = m.priority
                \/ (\A m \in Mappings : m.tag # r.tag.at) /\ r.metric = <<>> /\ r.rank = 0
  <2>1. CASE \E p \in {p \in Tags \X Mappings : p[2].tag = p[1].at} :
                 r = [tag |-> p[1], metric |-> p[2].metric, rank |-> p[2].priority]
    <3>1. PICK p \in Tags \X Mappings :
               p[2].tag = p[1].at /\ r = [tag |-> p[1], metric |-> p[2].metric, rank |-> p[2].priority]
      BY <2>1
    <3>2. p[1] \in Tags /\ p[2] \in Mappings
      OBVIOUS
    <3>3. r.tag = p[1] /\ r.metric = p[2].metric /\ r.rank = p[2].priority
      BY <3>1
    <3>. QED
      BY <3>1, <3>2, <3>3
  <2>2. CASE \E t \in {t \in Tags : \A m \in Mappings : m.tag # t.at} :
                 r = [tag |-> t, metric |-> <<>>, rank |-> 0]
    BY <2>2
  <2>. QED
    BY <2>1, <2>2 DEF JoinedRows
<1>. QED
  BY <1>1, <1>2, <1>3

LEMMA TagsJoined ==
    ASSUME NEW q \in Searches
    PROVE  Catalog!TagRows(q) =
               {[at |-> r.tag.at, metric |-> r.metric] :
                   r \in {r \in {x \in JoinedRows : Hits(q, x)} :
                       \A s \in {x \in JoinedRows : Hits(q, x)} : s.tag = r.tag => r.rank <= s.rank}}
<1> DEFINE found == {r \in JoinedRows : q = <<>> \/ \E t \in {r.tag.qname, r.tag.meaning, r.metric} :
                                                  Catalog!Like(t, Catalog!LikePattern(q))}
<1>1. Catalog!TagRows(q) = {[at |-> r.tag.at, metric |-> r.metric] :
                               r \in {r \in found : \A s \in found : s.tag = r.tag => r.rank <= s.rank}}
  BY DEF Catalog!TagRows, JoinedRows
<1>2. ASSUME NEW r \in JoinedRows
      PROVE  (q = <<>> \/ \E t \in {r.tag.qname, r.tag.meaning, r.metric} :
                              Catalog!Like(t, Catalog!LikePattern(q))) <=> Hits(q, r)
  <2>1. /\ r.tag.qname \in Seq(CatalogLetters) /\ r.tag.meaning \in Seq(CatalogLetters)
        /\ r.metric \in Seq(CatalogLetters)
    BY JoinedIs, TextsOfCatalog
  <2>2. \A t \in Seq(CatalogLetters) : /\ Catalog!Like(t, Catalog!LikePattern(q)) <=> Catalog!Within(t, q)
                                       /\ q = <<>> => Catalog!Within(t, q)
    BY SearchesWithin
  <2>. QED
    BY <2>1, <2>2 DEF Hits
<1>3. found = {x \in JoinedRows : Hits(q, x)}
  BY <1>2
<1> DEFINE hit == {x \in JoinedRows : Hits(q, x)}
<1>4. found = hit
  BY <1>3
<1> HIDE DEF found, hit
<1>5. Catalog!TagRows(q) = {[at |-> r.tag.at, metric |-> r.metric] :
                               r \in {r \in hit : \A s \in hit : s.tag = r.tag => r.rank <= s.rank}}
  BY <1>1, <1>4
<1>. QED
  BY <1>5 DEF hit

\* A tag is among the rows when the search stands in its name, its meaning or a
\* metric mapped to it; its row has the best of the metrics in which it stands.
LEMMA TagsFound ==
    ASSUME NEW q \in Searches
    PROVE  /\ \A r \in Catalog!TagRows(q) : r.at \in 1..Cardinality(Tags)
           /\ {r.at : r \in Catalog!TagRows(q)} =
                  {t.at : t \in {t \in Tags : \/ Catalog!Within(t.qname, q) \/ Catalog!Within(t.meaning, q)
                                              \/ \E m \in Mappings : m.tag = t.at /\ Catalog!Within(m.metric, q)}}
           /\ \A r \in Catalog!TagRows(q) : \A m \in Mappings :
                  m.tag = r.at /\ Catalog!Within(m.metric, q) =>
                      \E n \in Mappings : n.tag = r.at /\ n.metric = r.metric /\ n.priority <= m.priority
<1> DEFINE hit == {x \in JoinedRows : Hits(q, x)}
           Best(r) == \A s \in hit : s.tag = r.tag => r.rank <= s.rank
           rows == Catalog!TagRows(q)
           Sought(t) == \/ Catalog!Within(t.qname, q) \/ Catalog!Within(t.meaning, q)
                        \/ \E m \in Mappings : m.tag = t.at /\ Catalog!Within(m.metric, q)
<1>1. rows = {[at |-> r.tag.at, metric |-> r.metric] : r \in {r \in hit : Best(r)}}
  BY TagsJoined
<1>2. \A r \in rows : \E x \in hit : Best(x) /\ r.at = x.tag.at /\ r.metric = x.metric
  <2>. HIDE DEF hit, Best, rows
  <2>. QED
    BY <1>1
<1>3. ASSUME NEW x \in hit, Best(x) PROVE \E r \in rows : r.at = x.tag.at
  <2> DEFINE row == [at |-> x.tag.at, metric |-> x.metric]
  <2>1. row.at = x.tag.at
    OBVIOUS
  <2>2. row \in rows
    <3>. HIDE DEF hit, Best, rows
    <3>. QED
      BY <1>1, <1>3
  <2>. HIDE DEF row, rows
  <2>. QED
    BY <2>1, <2>2
<1>4. \A x \in hit : /\ x \in JoinedRows /\ Hits(q, x) /\ x.tag \in Tags
                     /\ \/ \E m \in Mappings : m.tag = x.tag.at /\ x.metric = m.metric /\ x.rank = m.priority
                        \/ (\A m \in Mappings : m.tag # x.tag.at) /\ x.metric = <<>> /\ x.rank = 0
  BY JoinedIs
<1>5. \A t \in Tags : t.at \in 1..Cardinality(Tags)
  BY CatalogAssumption
<1>6. \A m \in Mappings : m.priority \in Int
  BY CatalogAssumption
\* a row comes of a tag that is sought
<1>7. ASSUME NEW x \in hit PROVE Sought(x.tag)
  <2>1. Hits(q, x) /\ x.tag \in Tags
    BY <1>4
  <2>2. CASE Catalog!Within(x.tag.qname, q) \/ Catalog!Within(x.tag.meaning, q)
    BY <2>2
  <2>3. CASE Catalog!Within(x.metric, q)
    <3>1. CASE \E m \in Mappings : m.tag = x.tag.at /\ x.metric = m.metric
      BY <2>3, <3>1
    <3>2. CASE x.metric = <<>>
      <4>1. Within(<<>>, q)
        BY <2>3, <3>2, SameText
      <4>2. q = <<>>
        <5>1. PICK i \in 0..(Len(<<>>) - Len(q)) : SubSeq(<<>>, i + 1, i + Len(q)) = q
          BY <4>1 DEF Within
        <5>2. q \in Seq(CatalogLetters) /\ Len(q) \in Nat /\ Len(<<>>) = 0
          BY TextsOfCatalog
        <5>3. Len(q) = 0
          BY <5>1, <5>2
        <5>. QED
          BY <5>2, <5>3
      <4>3. x.tag.qname \in Seq(CatalogLetters)
        BY <2>1, TextsOfCatalog
      <4>4. Catalog!Within(x.tag.qname, q)
        BY <4>2, <4>3, SearchesWithin
      <4>. QED
        BY <4>4
    <3>. QED
      BY <3>1, <3>2, <1>4
  <2>. QED
    BY <2>1, <2>2, <2>3 DEF Hits
\* and a tag that is sought has a row
<1>8. ASSUME NEW t \in Tags, Sought(t) PROVE \E x \in hit : Best(x) /\ x.tag.at = t.at
  <2>1. CASE \A m \in Mappings : m.tag # t.at
    <3> DEFINE x == [tag |-> t, metric |-> <<>>, rank |-> 0]
    <3>1. x \in JoinedRows /\ x.tag = t /\ x.metric = <<>> /\ x.rank = 0
      BY <2>1, JoinedIs
    <3>2. Catalog!Within(t.qname, q) \/ Catalog!Within(t.meaning, q)
      BY <1>8, <2>1
    <3>. HIDE DEF x
    <3>3. x \in hit
      BY <3>1, <3>2 DEF Hits
    <3>4. \A s \in hit : s.tag = t => s.rank = 0
      <4>. HIDE DEF hit
      <4>. QED
        BY <1>4, <2>1
    <3>5. Best(x)
      <4>. HIDE DEF hit
      <4>. QED
        BY <3>1, <3>4
    <3>. QED
      BY <3>1, <3>3, <3>5
  <2>2. CASE \E m \in Mappings : m.tag = t.at
    <3> DEFINE X(m) == [tag |-> t, metric |-> m.metric, rank |-> m.priority]
               fit == {m \in Mappings : m.tag = t.at /\ Hits(q, X(m))}
    <3>1. \A m : X(m).tag = t /\ X(m).metric = m.metric /\ X(m).rank = m.priority
      OBVIOUS
    <3>2. fit # {}
      <4>1. \A m : Hits(q, X(m)) <=> \/ Catalog!Within(t.qname, q) \/ Catalog!Within(t.meaning, q)
                                     \/ Catalog!Within(m.metric, q)
        BY DEF Hits
      <4>. HIDE DEF X
      <4>2. \E m \in Mappings : m.tag = t.at /\ Hits(q, X(m))
        BY <1>8, <2>2, <4>1, Zenon
      <4>. QED
        BY <4>2
    <3>3. IsFiniteSet(fit)
      <4>1. IsFiniteSet(Mappings)
        BY CatalogAssumption
      <4>2. fit \in SUBSET Mappings
        OBVIOUS
      <4>. HIDE DEF fit
      <4>. QED
        BY <4>1, <4>2, FS_Subset
    <3>4. \A m \in fit : m \in Mappings /\ m.tag = t.at /\ m.priority \in Int
      BY <1>6
    <3>5. PICK m \in fit : \A n \in fit : m.priority <= n.priority
      <4>. HIDE DEF fit
      <4>. QED
        BY <3>2, <3>3, <3>4, BestPriority
    <3>6. X(m) \in hit
      <4>1. X(m) \in JoinedRows
        BY <3>4, JoinedIs
      <4>2. Hits(q, X(m))
        OBVIOUS
      <4>. HIDE DEF X, fit
      <4>. QED
        BY <4>1, <4>2
    <3>7. ASSUME NEW s \in hit, s.tag = t PROVE m.priority <= s.rank
      <4>1. PICK n \in Mappings : n.tag = t.at /\ s.metric = n.metric /\ s.rank = n.priority
        <5>. HIDE DEF hit, X, fit
        <5>. QED
          BY <1>4, <2>2, <3>7
      <4>2. Hits(q, X(n))
        <5>1. Hits(q, s)
          OBVIOUS
        <5>. QED
          BY <3>1, <3>7, <4>1, <5>1 DEF Hits
      <4>3. n \in fit
        BY <4>1, <4>2
      <4>. HIDE DEF fit, hit, X
      <4>. QED
        BY <3>5, <4>1, <4>3
    <3>8. Best(X(m))
      <4>. HIDE DEF hit, X, fit
      <4>. QED
        BY <3>1, <3>7
    <3>. HIDE DEF hit, X, fit, Best
    <3>. QED
      BY <3>1, <3>6, <3>8
  <2>. QED
    BY <2>1, <2>2
<1>9. {r.at : r \in rows} = {t.at : t \in {t \in Tags : Sought(t)}}
  <2>. HIDE DEF rows, hit, Best, Sought
  <2>1. ASSUME NEW r \in rows PROVE \E t \in {t \in Tags : Sought(t)} : r.at = t.at
    <3>1. PICK x \in hit : r.at = x.tag.at
      BY <1>2
    <3>2. x.tag \in Tags /\ Sought(x.tag)
      BY <1>4, <1>7
    <3>. QED
      BY <3>1, <3>2
  <2>2. ASSUME NEW t \in {t \in Tags : Sought(t)} PROVE \E r \in rows : r.at = t.at
    <3>1. PICK x \in hit : Best(x) /\ x.tag.at = t.at
      BY <1>8
    <3>. QED
      BY <1>3, <3>1
  <2>. QED
    BY <2>1, <2>2
<1>10. \A r \in rows : r.at \in 1..Cardinality(Tags)
  <2>. HIDE DEF rows, hit, Best
  <2>. QED
    BY <1>2, <1>4, <1>5
<1>11. ASSUME NEW r \in rows, NEW m \in Mappings, m.tag = r.at, Catalog!Within(m.metric, q)
       PROVE  \E n \in Mappings : n.tag = r.at /\ n.metric = r.metric /\ n.priority <= m.priority
  <2>1. PICK x \in hit : Best(x) /\ r.at = x.tag.at /\ r.metric = x.metric
    BY <1>2
  <2>2. x.tag \in Tags
    BY <1>4
  <2>3. PICK n \in Mappings : n.tag = x.tag.at /\ x.metric = n.metric /\ x.rank = n.priority
    <3>. HIDE DEF hit, rows, Best
    <3>. QED
      BY <1>4, <1>11, <2>1
  <2> DEFINE y == [tag |-> x.tag, metric |-> m.metric, rank |-> m.priority]
  <2>4. y \in JoinedRows
    BY <1>11, <2>1, <2>2, JoinedIs
  <2>5. y.tag = x.tag /\ y.metric = m.metric /\ y.rank = m.priority
    OBVIOUS
  <2>. HIDE DEF y
  <2>6. Hits(q, y)
    BY <1>11, <2>5 DEF Hits
  <2>7. x.rank <= y.rank
    BY <2>1, <2>4, <2>5, <2>6
  <2>. QED
    BY <2>1, <2>3, <2>5, <2>7
<1>. QED
  BY <1>9, <1>10, <1>11

LEMMA LimitClamped ==
    ASSUME NEW limit \in Limits
    PROVE  Catalog!ClampLimit(limit) \in 1..MaxLimit
<1>1. MaxLimit \in Nat /\ DefaultLimit \in 1..MaxLimit /\ limit \in Int \cup {None}
  BY CatalogAssumption
<1>. QED
  BY <1>1 DEF Catalog!ClampLimit

LEMMA CompaniesLiteral ==
    ASSUME NEW q \in Searches, NEW limit \in Limits, NEW cap, cap = Catalog!ClampLimit(limit),
           NEW top, top = Catalog!First(Catalog!InNameOrder(Catalog!CompanyRows(q)), cap)
    PROVE  Catalog!IsLiteral([of |-> "companies", q |-> q, limit |-> limit, rows |-> top])
<1> DEFINE sought == {c \in Companies : IF q = <<>> THEN c.name # <<>>
                          ELSE \E t \in {c.name, c.symbol} \cup c.aliases : Catalog!Within(t, q)}
           places == {r.at : r \in sought}
           listedAt == {r.at : r \in Catalog!ToSet(top)}
<1>1. cap \in 1..MaxLimit /\ cap \in Nat /\ cap >= 1
  <2>1. MaxLimit \in Nat
    BY CatalogAssumption
  <2>. QED
    BY <2>1, LimitClamped
<1>2. top = Catalog!First(Catalog!InNameOrder(sought), cap)
  BY CompaniesFound
<1>3. \A c \in sought : c.at \in 1..Cardinality(Companies)
  BY CatalogAssumption
<1>4. Cardinality(Companies) \in Nat
  BY CatalogAssumption, FS_CardinalityType
<1>5. ShowsFirst(top, sought, cap)
  <2>. HIDE DEF sought
  <2>. QED
    BY <1>1, <1>2, <1>3, <1>4, FirstRows
<1>6. Catalog!IsLiteral([of |-> "companies", q |-> q, limit |-> limit, rows |-> top])
  BY <1>1, <1>5 DEF Catalog!IsLiteral, ShowsFirst
<1>. QED
  BY <1>6

LEMMA TagsLiteral ==
    ASSUME NEW q \in Searches, NEW limit \in Limits, NEW cap, cap = Catalog!ClampLimit(limit),
           NEW rows, rows = Catalog!TagRows(q),
           NEW top, top = Catalog!First(Catalog!InNameOrder(rows), cap)
    PROVE  Catalog!IsLiteral([of |-> "tags", q |-> q, limit |-> limit, rows |-> top])
<1> DEFINE sought == {t \in Tags : \/ Catalog!Within(t.qname, q) \/ Catalog!Within(t.meaning, q)
                                   \/ \E m \in Mappings : m.tag = t.at /\ Catalog!Within(m.metric, q)}
           places == {r.at : r \in sought}
           listedAt == {r.at : r \in Catalog!ToSet(top)}
<1>1. cap \in 1..MaxLimit /\ cap \in Nat /\ cap >= 1
  <2>1. MaxLimit \in Nat
    BY CatalogAssumption
  <2>. QED
    BY <2>1, LimitClamped
<1>2. /\ \A r \in rows : r.at \in 1..Cardinality(Tags)
      /\ {r.at : r \in rows} = places
      /\ \A r \in rows : \A m \in Mappings :
             m.tag = r.at /\ Catalog!Within(m.metric, q) =>
                 \E n \in Mappings : n.tag = r.at /\ n.metric = r.metric /\ n.priority <= m.priority
  BY TagsFound
<1>3. Cardinality(Tags) \in Nat
  BY CatalogAssumption, FS_CardinalityType
<1>4. ShowsFirst(top, rows, cap)
  BY <1>1, <1>2, <1>3, FirstRows
<1>5. /\ Len(top) <= cap /\ Catalog!Cardinality(listedAt) = Len(top)
      /\ \A i, j \in DOMAIN top : i < j => top[i].at < top[j].at
      /\ listedAt \subseteq places
      /\ \A at \in places \ listedAt : Len(top) = cap /\ \A s \in listedAt : s < at
      /\ Catalog!ToSet(top) \subseteq rows
  BY <1>2, <1>4 DEF ShowsFirst
<1>6. \A r \in Catalog!ToSet(top) : \A m \in Mappings :
          m.tag = r.at /\ Catalog!Within(m.metric, q) =>
              \E n \in Mappings : n.tag = r.at /\ n.metric = r.metric /\ n.priority <= m.priority
  <2>. HIDE DEF places, listedAt
  <2>. QED
    BY <1>2, <1>5, Zenon
<1> DEFINE found == [of |-> "tags", q |-> q, limit |-> limit, rows |-> top]
<1>7. /\ found.of = "tags" /\ found.of # "companies"
      /\ found.q = q /\ found.limit = limit /\ found.rows = top
  OBVIOUS
<1> HIDE DEF sought, places, listedAt, found
<1>8. Catalog!IsLiteral(found)
  BY <1>1, <1>5, <1>6, <1>7 DEF Catalog!IsLiteral, sought, places, listedAt
<1>. QED
  BY <1>8 DEF found

LEMMA SearchStaysLiteral ==
    /\ Catalog!Init => Catalog!SearchIsLiteral
    /\ Catalog!SearchIsLiteral /\ [Catalog!Next]_catalogVars => Catalog!SearchIsLiteral'
<1>1. Catalog!Init => Catalog!SearchIsLiteral
  BY DEF Catalog!Init, Catalog!SearchIsLiteral
<1>2. ASSUME NEW q \in Searches, NEW limit \in Limits, Catalog!FetchCompanies(q, limit)
      PROVE  Catalog!IsLiteral(page')
  BY <1>2, CompaniesLiteral DEF Catalog!FetchCompanies
<1>3. ASSUME NEW q \in Searches, NEW limit \in Limits, Catalog!FetchTags(q, limit)
      PROVE  Catalog!IsLiteral(page')
  BY <1>3, TagsLiteral DEF Catalog!FetchTags
<1>4. Catalog!SearchIsLiteral /\ UNCHANGED catalogVars => Catalog!SearchIsLiteral'
  BY DEF Catalog!SearchIsLiteral, catalogVars
<1>5. Catalog!IsLiteral(page') => Catalog!SearchIsLiteral'
  BY DEF Catalog!SearchIsLiteral
<1>. QED
  BY <1>2, <1>3, <1>1, <1>4, <1>5 DEF Catalog!Next

\* app/catalog.py: whatever letters are typed, special to ILIKE or not, and
\* whatever limit is asked for, the rows are the first of those in which what was
\* typed stands, each tag with its best metric.
THEOREM SearchesAreLiteral == Spec => []SearchIsLiteral
<1>1. Init => Catalog!SearchIsLiteral
  BY SearchStaysLiteral DEF Init
<1>2. Catalog!SearchIsLiteral /\ [Next]_vars => Catalog!SearchIsLiteral'
  BY SearchStaysLiteral, StepsOfParts
<1>3. Catalog!SearchIsLiteral => SearchIsLiteral
  BY DEF SearchIsLiteral
<1>. QED
  BY <1>1, <1>2, <1>3, PTL DEF Spec
------------------------------------------------------------------------------
(***************************************************************************)
(* The types of all parts                                                  *)
(***************************************************************************)

LEMMA CatalogTyped ==
    /\ Catalog!Init => Catalog!TypeOK
    /\ Catalog!TypeOK /\ [Catalog!Next]_catalogVars => Catalog!TypeOK'
<1>1. Catalog!Init => Catalog!TypeOK
  BY DEF Catalog!Init, Catalog!TypeOK
<1>2. ASSUME NEW q \in Searches, NEW limit \in Limits,
             Catalog!FetchCompanies(q, limit) \/ Catalog!FetchTags(q, limit)
      PROVE  Catalog!TypeOK'
  <2>1. /\ page'.of \in {"companies", "tags"} /\ page'.q = q /\ page'.limit = limit
    BY <1>2 DEF Catalog!FetchCompanies, Catalog!FetchTags
  <2>. QED
    BY <2>1 DEF Catalog!TypeOK
<1>3. Catalog!TypeOK /\ UNCHANGED catalogVars => Catalog!TypeOK'
  BY DEF Catalog!TypeOK, catalogVars
<1>. QED
  BY <1>1, <1>2, <1>3 DEF Catalog!Next

LEMMA RunsTyped == RunsInv => Analysis!TypeOK
<1> SUFFICES ASSUME RunsInv PROVE Analysis!TypeOK
  OBVIOUS
<1>1. inflight \subseteq Conversations \X Queries /\ Len(csv) <= MaxCsv
  BY DEF RunsInv, FilesInv, Allowed
<1>2. ASSUME NEW i \in DOMAIN csv
      PROVE  /\ csv[i].owner \in Analysis!Range(OwnerOf)
             /\ \E table \in Results : csv[i].table = [table EXCEPT !.rows = Analysis!CapRows(@)]
  <2>1. i \in 1..Len(csv)
    BY LenProperties DEF RunsInv, FilesInv
  <2>2. csv[i].owner \in Analysis!Range(OwnerOf) /\ csv[i].table \in Capped
    BY <2>1, FileIs
  <2>. QED
    BY <2>2 DEF Capped
<1>3. ASSUME NEW c \in Conversations
      PROVE  /\ kept[c].sql \in Queries \cup {Analysis!NoQuery} /\ kept[c].file \in 0..Len(csv)
             /\ kept[c].chart.file \in 0..Len(csv)
             /\ advice[c] \in {"", "chart", "fallback", "error"}
  <2>1. KeptOf(c) /\ ChartOf(c)
    BY DEF RunsInv
  <2>2. advice[c] \in Told
    BY DEF RunsInv, FilesInv
  <2>. QED
    BY <2>1, <2>2 DEF KeptOf, ChartOf, Allowed, Told
<1>. QED
  BY <1>1, <1>2, <1>3, Zenon DEF Analysis!TypeOK

LEMMA RequestTyped == RequestInv => ModelCalls!TypeOK
<1> SUFFICES ASSUME RequestInv PROVE ModelCalls!TypeOK
  OBVIOUS
<1>1. Len(ModelCalls!Route) = Stations /\ DOMAIN ModelCalls!Route = 1..Stations
  BY RouteIs
<1>2. ASSUME NEW i \in DOMAIN builders PROVE builders[i].index \in DOMAIN answer
  <2>1. i \in 1..Len(builders)
    BY LenProperties DEF RequestInv, BuildersInv
  <2>2. IsBuilder(builders[i], answer, sent)
    BY <2>1, Zenon DEF RequestInv, BuildersInv
  <2>. QED
    BY <2>2 DEF IsBuilder
<1>3. ModelCalls!Range(first) \subseteq DOMAIN answer
  <2> SUFFICES ASSUME NEW k \in DOMAIN first PROVE first[k] \in DOMAIN answer
    BY DEF ModelCalls!Range
  <2>1. k \in DOMAIN builders /\ first[k] = builders[k].index
    BY LenProperties DEF RequestInv, FirstInv, BuildersInv
  <2>. QED
    BY <1>2, <2>1
<1>. QED
  BY <1>1, <1>2, <1>3, Zenon DEF ModelCalls!TypeOK, RequestInv, StationInv, BuildersInv

\* Every piece under way or in the buffer is of a frame the server sent.
LEMMA PiecesOfFrames ==
    ASSUME NEW line \in Seq(Pieces), NEW h \in Nat, NEW n \in Nat, InLine(line, h),
           Len(line) <= 2 * (n - h), h <= n, NEW i \in 1..Len(line)
    PROVE  line[i] \in (1..n) \X {"head", "tail"}
<1>1. Len(line) \in Nat /\ i \in Nat /\ i > 0 /\ i <= Len(line)
  BY LenProperties
<1>2. PICK k \in Nat : i = 2 * k \/ i = 2 * k + 1
  BY <1>1, Halves
<1>3. CASE i = 2 * k
  <2>1. k > 0 /\ 2 * k <= Len(line) /\ h + k \in 1..n
    BY <1>1, <1>3
  <2>2. line[2 * k] = <<h + k, "tail">>
    BY <2>1, InLineAt
  <2>. QED
    BY <1>3, <2>1, <2>2
<1>4. CASE i = 2 * k + 1
  <2>1. /\ k + 1 \in Nat /\ k + 1 > 0 /\ i = 2 * (k + 1) - 1
        /\ 2 * (k + 1) - 1 <= Len(line) /\ h + (k + 1) \in 1..n
    BY <1>1, <1>4
  <2>2. line[2 * (k + 1) - 1] = <<h + (k + 1), "head">>
    BY <2>1, InLineAt
  <2>3. line[i] = <<h + (k + 1), "head">>
    BY <2>1, <2>2, Zenon
  <2>. QED
    BY <2>1, <2>3
<1>. QED
  BY <1>2, <1>3, <1>4

LEMMA BrowserTyped == SearchInv /\ StreamedInv => Browser!TypeOK
<1> SUFFICES ASSUME SearchInv, StreamedInv PROVE Browser!TypeOK
  OBVIOUS
<1>1. PICK h \in Nat : ReadUpTo(h)
  BY DEF StreamedInv, FramesInv
<1>2. /\ frames \in Seq(Kinds) /\ wire \in Seq(Pieces) /\ buffer \in Seq(Pieces)
      /\ Len(frames) \in Nat /\ Len(wire) \in Nat /\ Len(buffer) \in Nat
      /\ DOMAIN frames = 1..Len(frames)
  BY LenProperties DEF StreamedInv, FramesInv
<1>3. /\ h <= Len(frames) /\ InLine(buffer \o wire, h) /\ handled = InOrder(ToHandle(h))
      /\ Len(buffer) + Len(wire) <= 2 * (Len(frames) - h)
  BY <1>1 DEF ReadUpTo
<1>4. ASSUME NEW i \in 1..Len(buffer \o wire)
      PROVE  (buffer \o wire)[i] \in (1..Len(frames)) \X {"head", "tail"}
  <2>1. buffer \o wire \in Seq(Pieces) /\ Len(buffer \o wire) = Len(buffer) + Len(wire)
    BY <1>2, Joined
  <2>2. Len(buffer \o wire) <= 2 * (Len(frames) - h)
    BY <1>3, <2>1
  <2>. HIDE DEF Pieces
  <2>. QED
    BY <1>2, <1>3, <2>1, <2>2, PiecesOfFrames
<1>5. \A p \in Browser!Range(wire \o buffer) : p \in (DOMAIN frames) \X {"head", "tail"}
  <2> SUFFICES ASSUME NEW i \in DOMAIN (wire \o buffer)
               PROVE  (wire \o buffer)[i] \in (1..Len(frames)) \X {"head", "tail"}
    BY <1>2 DEF Browser!Range
  <2>1. /\ wire \o buffer \in Seq(Pieces) /\ Len(wire \o buffer) = Len(wire) + Len(buffer)
        /\ \A k \in 1..Len(wire) : (wire \o buffer)[k] = wire[k]
        /\ \A k \in 1..Len(buffer) : (wire \o buffer)[Len(wire) + k] = buffer[k]
    BY <1>2, Joined
  <2>2. /\ Len(buffer \o wire) = Len(buffer) + Len(wire)
        /\ \A k \in 1..Len(buffer) : (buffer \o wire)[k] = buffer[k]
        /\ \A k \in 1..Len(wire) : (buffer \o wire)[Len(buffer) + k] = wire[k]
    BY <1>2, Joined
  <2>3. i \in 1..(Len(wire) + Len(buffer))
    <3>. HIDE DEF Pieces
    <3>. QED
      BY <2>1, LenProperties
  <2>4. CASE i <= Len(wire)
    <3>1. i \in 1..Len(wire) /\ Len(buffer) + i \in 1..(Len(buffer) + Len(wire))
      BY <1>2, <2>3, <2>4
    <3>2. (wire \o buffer)[i] = (buffer \o wire)[Len(buffer) + i]
      BY <2>1, <2>2, <3>1
    <3>. QED
      BY <1>4, <2>2, <3>1, <3>2
  <2>5. CASE ~(i <= Len(wire))
    <3>1. /\ i - Len(wire) \in 1..Len(buffer) /\ Len(wire) + (i - Len(wire)) = i
          /\ i - Len(wire) \in 1..(Len(buffer) + Len(wire))
      BY <1>2, <2>3, <2>5
    <3>2. (wire \o buffer)[Len(wire) + (i - Len(wire))] = (buffer \o wire)[i - Len(wire)]
      BY <2>1, <2>2, <3>1
    <3>. QED
      BY <1>4, <2>2, <3>1, <3>2
  <2>. QED
    BY <2>4, <2>5
<1>6. Browser!Range(handled) \subseteq DOMAIN frames
  <2>1. {InOrder(ToHandle(h))[i] : i \in DOMAIN InOrder(ToHandle(h))} = ToHandle(h)
    BY <1>2, <1>3, HandledSoFar
  <2>2. ToHandle(h) \subseteq 1..Len(frames)
    BY <1>2, <1>3 DEF ToHandle
  <2>. QED
    BY <1>2, <1>3, <2>1, <2>2 DEF Browser!Range
<1>7. /\ busy \in BOOLEAN /\ open \in BOOLEAN /\ cut \in BOOLEAN
      /\ conversationId \in 1..MaxTurns \cup {NewPage} /\ turn \in 0..MaxTurns
      /\ adopted \subseteq 1..MaxTurns
  BY DEF StreamedInv, BusyInv, AdoptedInv
<1>8. frames \in Seq({"show", "ignore", "error", "done"})
  BY <1>2 DEF Kinds
<1>. QED
  BY <1>5, <1>6, <1>7, <1>8, Zenon DEF Browser!TypeOK, SearchInv

AllInv ==
    /\ Catalog!TypeOK /\ Migration!TypeOK /\ Slots!TypeOK /\ RunsInv /\ RequestInv
    /\ SearchInv /\ StreamedInv /\ ComparisonInv /\ ComparisonKinds

\* Each part stays within its types: the catalogue's page, the import, the slots,
\* the files of the runs and what is kept of them, the route of a request and its
\* builders, the page's requests and frames, the comparison's jobs and reports.
THEOREM PartsTypeCorrect == Spec => []TypeOK
<1>1. Init => AllInv
  BY CatalogTyped, ImportTyped, GateTyped, RunsBegin, RequestBegins, SearchBegins, StreamBegins,
     ComparisonBegins, KindsKept DEF Init, AllInv
<1>2. AllInv /\ [Next]_vars => AllInv'
  BY CatalogTyped, ImportTyped, GateTyped, RunsStep, RequestStep, SearchStep, StreamedStep,
     ComparisonStep, KindsKept, StepsOfParts DEF AllInv
<1>3. AllInv => TypeOK
  BY RunsTyped, RequestTyped, BrowserTyped, ComparisonTyped DEF AllInv, TypeOK
<1>. QED
  BY <1>1, <1>2, <1>3, PTL DEF Spec
==============================================================================

--------------------------- MODULE ChatTurnProofs ---------------------------
(***************************************************************************)
(* Theorems about ChatTurn, for any turns, conversations, companies, texts *)
(* and tool calls, whether or not turns overlap and whatever fails.        *)
(***************************************************************************)
EXTENDS ChatTurn, SequenceTheorems, FiniteSetTheorems,
        WellFoundedInduction, TLAPS

\* A turn at its tools has calls to run and the message that makes them; one
\* that may still ask the model has iterations left.
LoopInv ==
    \A t \in Turns :
        /\ stage[t] \in {"calling", "tool", "result"} => todo[t] # <<>> /\ msgs[t] # <<>>
        /\ stage[t] \in {"new", "begun", "clarify", "reply", "asked", "llm"}
              => iteration[t] < MaxToolIterations

\* One turn of a conversation at a time.
OneAtATime ==
    \A t, u \in Turns : conv[t] = conv[u] /\ InFlight(t) /\ InFlight(u) => t = u
------------------------------------------------------------------------------
(***************************************************************************)
(* Messages                                                                *)
(***************************************************************************)

LEMMA MessageTyped ==
    ASSUME NEW role \in {"user", "assistant", "tool"}, NEW t \in Turns,
           NEW kind \in {"", "ask", "prose", "fallback", "result"},
           NEW calls \in CallSets
    PROVE  Message(role, t, kind, calls) \in Messages
  BY DEF Message, Messages

LEMMA AppendNotEmpty ==
    ASSUME NEW S, NEW s \in Seq(S), NEW m \in S
    PROVE  Append(s, m) # <<>>
<1>1. Len(Append(s, m)) = Len(s) + 1 /\ Len(s) \in Nat
  BY AppendProperties, LenProperties
<1>2. Len(<<>>) = 0
  OBVIOUS
<1>. QED
  BY <1>1, <1>2

LEMMA NoCallsTyped == {} \in CallSets
  BY FS_EmptySet DEF CallSets

LEMMA OneCallTyped ==
    ASSUME NEW t \in Turns, NEW n \in Nat, NEW i \in Nat
    PROVE  {<<t, n, i>>} \in CallSets
<1>1. IsFiniteSet({<<t, n, i>>})
  BY FS_Singleton
<1>2. {<<t, n, i>>} \in SUBSET (Turns \X Nat \X Nat)
  OBVIOUS
<1>. QED
  BY <1>1, <1>2 DEF CallSets

LEMMA CallIdsTyped ==
    ASSUME NEW t \in Turns, NEW n \in Nat,
           NEW list \in Seq({"run_sql", "visualize_data"})
    PROVE  CallIds(t, n, list) \in CallSets
<1> DEFINE id == [i \in 1..Len(list) |-> <<t, n, i>>]
<1>1. id \in Surjection(1..Len(list), CallIds(t, n, list))
  <2>1. \A i \in 1..Len(list) : id[i] = <<t, n, i>>
    OBVIOUS
  <2>2. id \in [1..Len(list) -> CallIds(t, n, list)]
    BY DEF CallIds
  <2>3. \A c \in CallIds(t, n, list) : \E i \in 1..Len(list) : id[i] = c
    BY <2>1 DEF CallIds
  <2>. HIDE DEF id
  <2>. QED
    BY <2>2, <2>3 DEF Surjection
<1>2. IsFiniteSet(1..Len(list))
  BY FS_Interval
<1>3. IsFiniteSet(CallIds(t, n, list))
  BY <1>1, <1>2, FS_Surjection
<1>4. \A i \in 1..Len(list) : <<t, n, i>> \in Turns \X Nat \X Nat
  OBVIOUS
<1>5. CallIds(t, n, list) \in SUBSET (Turns \X Nat \X Nat)
  BY <1>4 DEF CallIds
<1>. QED
  BY <1>3, <1>5 DEF CallSets

\* What is stored after a save up to the n-th message.
LEMMA SavedTyped ==
    ASSUME NEW stored \in [Convs -> Seq(Messages)], stored = disk, NEW c \in Convs,
           NEW messages \in Seq(Messages), NEW n \in 0..Len(messages)
    PROVE  SavedUpTo(c, messages, n) \in Seq(Messages)
<1>1. disk[c] \in Seq(Messages) /\ Len(disk[c]) \in Nat
  OBVIOUS
<1>2. \A i \in (Len(disk[c]) + 1)..n : messages[i] \in Messages
  BY <1>1
<1>3. SubSeq(messages, Len(disk[c]) + 1, n) \in Seq(Messages)
  BY <1>1, <1>2, SubSeqProperties
<1>. QED
  BY <1>1, <1>3 DEF SavedUpTo

\* A set of positions in a sequence has a last one.
LEMMA LastPosition ==
    ASSUME NEW n \in Nat, NEW at \in SUBSET (1..n), at # {}
    PROVE  \E i \in at : \A j \in at : j <= i
<1> DEFINE back == {n - i : i \in at}
<1>1. back \subseteq Nat /\ back # {}
  <2>1. \A i \in at : i \in Nat /\ n - i \in Nat
    OBVIOUS
  <2>. QED
    BY <2>1
<1>2. PICK x \in back : \A y \in back : ~ (<<y, x>> \in OpToRel(<, Nat))
  <2>. HIDE DEF back
  <2>. QED
    BY <1>1, NatLessThanWellFounded, WFMin, Zenon
<1>3. PICK i \in at : x = n - i
  OBVIOUS
<1>4. \A j \in at : ~ (n - j < n - i)
  BY <1>1, <1>2, <1>3 DEF OpToRel
<1>. QED
  BY <1>4

\* A message with some text that the hook finds was written by someone.
LEMMA LastWithTyped ==
    ASSUME NEW messages \in Seq(Messages), NEW role, LastWith(messages, role).kind # ""
    PROVE  LastWith(messages, role) \in Messages
<1> DEFINE at == {i \in 1..Len(messages) : messages[i].role = role /\ messages[i].kind # ""}
<1>1. at # {}
  BY DEF LastWith, Message
<1>2. PICK i \in at : \A j \in at : j <= i
  <2>1. at \in SUBSET (1..Len(messages)) /\ Len(messages) \in Nat
    BY LenProperties
  <2>. HIDE DEF at
  <2>. QED
    BY <1>1, <2>1, LastPosition
<1>3. \A k \in 1..Len(messages) : messages[k] \in Messages
  BY ElementOfSeq
<1> DEFINE last == CHOOSE k \in at : \A j \in at : j <= k
<1>4. last \in at
  BY <1>2
<1>5. LastWith(messages, role) = messages[last]
  BY <1>1 DEF LastWith
<1>. QED
  BY <1>3, <1>4, <1>5

\* The tool loop goes on to the next call, to the model or to the end.
LEMMA ProceedTyped ==
    ASSUME TypeOK, LoopInv, NEW t \in Turns, stage[t] \in {"tool", "result"},
           NEW rest \in Seq({"run_sql", "visualize_data"}), Proceed(t, rest)
    PROVE  /\ todo' = [todo EXCEPT ![t] = rest]
           /\ \E s \in {"tool", "llm", "closing"} :
                /\ stage' = [stage EXCEPT ![t] = s]
                /\ s = "tool" => rest # <<>> /\ msgs' = msgs
                /\ s = "llm" => iteration[t] < MaxToolIterations
           /\ \E ms \in Seq(Messages) : msgs' = [msgs EXCEPT ![t] = ms]
<1> DEFINE calls == Last(msgs[t]).calls
           answers == [i \in 1..Cardinality(calls) |->
                          Message("tool", t, "result", {<<t, iteration[t], i>>})]
<1>1. msgs[t] \in Seq(Messages) /\ msgs[t] # <<>> /\ iteration[t] \in Nat
  BY LimitAssumption DEF TypeOK, LoopInv
<1>2. Last(msgs[t]) \in Messages
  BY <1>1 DEF Last
<1>3. Cardinality(calls) \in Nat
  BY <1>2, FS_CardinalityType DEF Messages, CallSets
<1>4. answers \in Seq(Messages)
  <2>1. ASSUME NEW i \in 1..Cardinality(calls)
        PROVE  Message("tool", t, "result", {<<t, iteration[t], i>>}) \in Messages
    <3>1. {<<t, iteration[t], i>>} \in CallSets
      BY <1>1, <1>3, OneCallTyped
    <3>. QED
      BY <3>1, MessageTyped
  <2>2. answers \in [1..Cardinality(calls) -> Messages]
    BY <2>1
  <2>. HIDE DEF answers, calls
  <2>. QED
    BY <1>3, <2>2
<1>5. todo' = [todo EXCEPT ![t] = rest]
  BY DEF Proceed
<1>6. CASE rest # <<>>
  <2>1. stage' = [stage EXCEPT ![t] = "tool"] /\ msgs' = msgs
    BY <1>6 DEF Proceed
  <2>2. msgs' = [msgs EXCEPT ![t] = msgs[t]]
    BY <2>1 DEF TypeOK
  <2>. QED
    BY <1>1, <1>5, <1>6, <2>1, <2>2
<1>7. CASE rest = <<>>
  <2>1. msgs' = [msgs EXCEPT ![t] = msgs[t] \o answers]
    BY <1>7 DEF Proceed
  <2>2. msgs[t] \o answers \in Seq(Messages)
    BY <1>1, <1>4
  <2>3. stage' = [stage EXCEPT ![t] =
                     IF iteration[t] < MaxToolIterations THEN "llm" ELSE "closing"]
    BY <1>7 DEF Proceed
  <2>. QED
    BY <1>5, <2>1, <2>2, <2>3
<1>. QED
  BY <1>6, <1>7
------------------------------------------------------------------------------
(***************************************************************************)
(* Types                                                                   *)
(***************************************************************************)

TypeInv == TypeOK /\ LoopInv

LEMMA MergedTyped ==
    ASSUME TypeOK, NEW t \in Turns
    PROVE  Merged(t) \in Companies \cup {NoCompany} /\ Loaded(t) \in Seq(Messages)
<1>1. Merged(t) \in Companies \cup {NoCompany}
  BY TextAssumption DEF TypeOK, Merged
<1>2. <<>> \in Seq(Messages)
  BY EmptySeq
<1>. QED
  BY <1>1, <1>2 DEF TypeOK, Loaded

\* What t says itself.
LEMMA OwnMessages ==
    ASSUME NEW t \in Turns
    PROVE  /\ Message("user", t, "ask", {}) \in Messages
           /\ \A kind \in {"prose", "fallback"} : Message("assistant", t, kind, {}) \in Messages
  BY NoCallsTyped, MessageTyped

LEMMA MetadataTyped ==
    ASSUME TypeOK, NEW c, WritesMetadata(c)
    PROVE  opened' \in [Convs -> BOOLEAN]
  BY DEF WritesMetadata, TypeOK

LEMMA LoadsTyped ==
    ASSUME TypeOK, NEW t \in Turns, Loads(t)
    PROVE  isNew' \in [Turns -> BOOLEAN] /\ blind' \subseteq Turns
  BY DEF Loads, TypeOK

LEMMA ToModelTyped ==
    ASSUME TypeOK, NEW t \in Turns, NEW base \in Seq(Messages), ToModel(t, base)
    PROVE  /\ \E s \in {"asked", "failed"} : stage' = [stage EXCEPT ![t] = s]
           /\ \E ms \in Seq(Messages) : msgs' = [msgs EXCEPT ![t] = ms]
           /\ opened' \in [Convs -> BOOLEAN]
<1>1. Append(base, Message("user", t, "ask", {})) \in Seq(Messages)
  BY OwnMessages, AppendProperties
<1>2. WritesMetadata(conv[t]) => opened' \in [Convs -> BOOLEAN]
  BY MetadataTyped
<1>. QED
  BY <1>1, <1>2 DEF ToModel, TypeOK

LEMMA ConsultTyped ==
    ASSUME TypeOK, NEW t \in Turns, NEW base \in Seq(Messages),
           NEW named \in Companies \cup {NoCompany}, Consult(t, base, named)
    PROVE  /\ \E s \in {"asked", "failed", "reply"} : stage' = [stage EXCEPT ![t] = s]
           /\ \E ms \in Seq(Messages) : msgs' = [msgs EXCEPT ![t] = ms]
           /\ opened' \in [Convs -> BOOLEAN]
           /\ slots' \in [Convs -> Companies \cup {NoCompany}]
           /\ company' \in [Turns -> Companies \cup {NoCompany}]
           /\ replayed' \in [Turns -> Reports \cup {NoReport}]
<1>1. /\ slots' \in [Convs -> Companies \cup {NoCompany}]
      /\ company' \in [Turns -> Companies \cup {NoCompany}]
  BY DEF Consult, TypeOK
<1>2. CASE ToModel(t, base) /\ UNCHANGED replayed
  BY <1>1, <1>2, ToModelTyped DEF TypeOK
<1>3. CASE /\ replayed' = [replayed EXCEPT ![t] = cache[text[t]]]
           /\ msgs' = [msgs EXCEPT ![t] = base \o
                <<Message("user", t, "ask", {}), Message("assistant", t, "prose", {})>>]
           /\ stage' = [stage EXCEPT ![t] = "reply"]
           /\ UNCHANGED opened
  <2>1. <<Message("user", t, "ask", {}), Message("assistant", t, "prose", {})>>
            \in Seq(Messages)
    BY OwnMessages
  <2>2. base \o <<Message("user", t, "ask", {}), Message("assistant", t, "prose", {})>>
            \in Seq(Messages)
    BY <2>1, ConcatProperties
  <2>3. cache[text[t]] \in Reports \cup {NoReport}
    BY DEF TypeOK
  <2>. QED
    BY <1>1, <1>3, <2>2, <2>3 DEF TypeOK
<1>. QED
  BY <1>2, <1>3 DEF Consult

\* A save, cut off or not, leaves the messages up to some position.
LEMMA SavesForm ==
    ASSUME TypeOK, NEW t \in Turns, Saves(t) \/ SavesPartly(t) \/ SavesPartlyTwice(t)
    PROVE  /\ \/ disk' = disk
              \/ \E n \in 0..Len(msgs[t]) :
                    disk' = [disk EXCEPT ![conv[t]] = SavedUpTo(conv[t], msgs[t], n)]
           /\ opened' \in [Convs -> BOOLEAN]
<1>1. Len(msgs[t]) \in Nat
  BY DEF TypeOK
<1>2. CASE Saves(t)
  <2>1. disk' = [disk EXCEPT ![conv[t]] = SavedUpTo(conv[t], msgs[t], Len(msgs[t]))]
    BY <1>2 DEF Saves, Saved
  <2>2. opened' \in [Convs -> BOOLEAN]
    BY <1>2 DEF Saves, TypeOK
  <2>3. Len(msgs[t]) \in 0..Len(msgs[t])
    BY <1>1
  <2>. QED
    BY <2>1, <2>2, <2>3
<1>3. CASE SavesPartly(t)
  <2>1. CASE WritesMetadata(conv[t]) /\ UNCHANGED disk
    BY <2>1, MetadataTyped
  <2>2. ASSUME NEW n \in 1..(Len(msgs[t]) - 1),
               disk' = [disk EXCEPT ![conv[t]] = SavedUpTo(conv[t], msgs[t], n)],
               opened' = [opened EXCEPT ![conv[t]] = TRUE]
        PROVE  /\ \E k \in 0..Len(msgs[t]) :
                     disk' = [disk EXCEPT ![conv[t]] = SavedUpTo(conv[t], msgs[t], k)]
               /\ opened' \in [Convs -> BOOLEAN]
    <3>1. n \in 0..Len(msgs[t])
      BY <1>1
    <3>2. opened' \in [Convs -> BOOLEAN]
      BY <2>2 DEF TypeOK
    <3>. QED
      BY <2>2, <3>1, <3>2
  <2>. QED
    BY <1>3, <2>1, <2>2 DEF SavesPartly
<1>4. CASE SavesPartlyTwice(t)
  <2>1. PICK n \in 0..(Len(msgs[t]) - 1) :
            disk' = [disk EXCEPT ![conv[t]] = SavedUpTo(conv[t], msgs[t], n)]
    BY <1>4 DEF SavesPartlyTwice
  <2>2. n \in 0..Len(msgs[t])
    BY <1>1
  <2>3. opened' \in [Convs -> BOOLEAN]
    BY <1>4, MetadataTyped DEF SavesPartlyTwice
  <2>. QED
    BY <2>1, <2>2, <2>3
<1>. QED
  BY <1>2, <1>3, <1>4

LEMMA SavesTyped ==
    ASSUME TypeOK, NEW t \in Turns, Saves(t) \/ SavesPartly(t) \/ SavesPartlyTwice(t)
    PROVE  disk' \in [Convs -> Seq(Messages)] /\ opened' \in [Convs -> BOOLEAN]
<1>1. ASSUME NEW n \in 0..Len(msgs[t])
      PROVE  SavedUpTo(conv[t], msgs[t], n) \in Seq(Messages)
  BY SavedTyped DEF TypeOK
<1>2. disk \in [Convs -> Seq(Messages)]
  BY DEF TypeOK
<1>3. CASE disk' = disk
  BY <1>2, <1>3, SavesForm
<1>4. ASSUME NEW n \in 0..Len(msgs[t]),
             disk' = [disk EXCEPT ![conv[t]] = SavedUpTo(conv[t], msgs[t], n)]
      PROVE  disk' \in [Convs -> Seq(Messages)]
  <2>1. SavedUpTo(conv[t], msgs[t], n) \in Seq(Messages)
    BY <1>1
  <2>. QED
    BY <1>2, <1>4, <2>1
<1>. QED
  BY <1>3, <1>4, SavesForm

LEMMA ReportTyped ==
    ASSUME TypeOK, NEW t \in Turns, NEW stash \in Stashes, Storable(t, stash)
    PROVE  Report(t, stash) \in Reports
<1>1. stash.run \in Runs /\ stash.chart \in Turns \cup {NoTurn}
  BY DEF Storable, Stashes
<1>2. company[stash.run[1]] \in Companies \cup {NoCompany}
  BY <1>1 DEF Runs, TypeOK
<1>3. LastWith(msgs[t], "assistant").by \in Turns
  <2>1. LastWith(msgs[t], "assistant").kind # ""
    BY DEF Storable
  <2>2. LastWith(msgs[t], "assistant") \in Messages
    BY <2>1, LastWithTyped DEF TypeOK
  <2>. QED
    BY <2>2 DEF Messages
<1>. QED
  BY <1>1, <1>2, <1>3 DEF Report, Reports

\* What the hook does to the stash and the cache.
LEMMA HookForm ==
    ASSUME TypeOK, NEW t \in Turns, Hook(t)
    PROVE  /\ pending' = [pending EXCEPT ![conv[t]] = EmptyStash]
           /\ \/ cache' = cache
              \/ /\ Storable(t, pending[conv[t]])
                 /\ Report(t, pending[conv[t]]) \in Reports
                 /\ \E key : cache' = [cache EXCEPT ![key] = Report(t, pending[conv[t]])]
<1>1. pending[conv[t]] \in Stashes
  BY DEF TypeOK
<1>2. pending' = [pending EXCEPT ![conv[t]] = EmptyStash]
  BY DEF Hook
<1>3. CASE cache' = cache
  BY <1>2, <1>3
<1>4. CASE /\ Storable(t, pending[conv[t]])
           /\ cache' = [cache EXCEPT ![text[LastWith(msgs[t], "user").by]]
                          = Report(t, pending[conv[t]])]
  <2>1. Report(t, pending[conv[t]]) \in Reports
    BY <1>1, <1>4, ReportTyped
  <2>. QED
    BY <1>2, <1>4, <2>1
<1>. QED
  BY <1>3, <1>4 DEF Hook

LEMMA HookTyped ==
    ASSUME TypeOK, NEW t \in Turns, Hook(t)
    PROVE  /\ pending' \in [Convs -> Stashes]
           /\ cache' \in [Texts -> Reports \cup {NoReport}]
<1>1. EmptyStash \in Stashes
  BY DEF EmptyStash, Stashes
<1>. QED
  BY <1>1, HookForm DEF TypeOK

LEMMA PeekTyped ==
    ASSUME TypeOK, NEW t \in Turns, Peek(t)
    PROVE  copy' \in [Turns -> Runs \cup {NoRun}]
  BY DEF TypeOK, Peek, Stashes

LEMMA TypeInit == Init => TypeInv
<1> SUFFICES ASSUME Init PROVE TypeInv
  OBVIOUS
<1>1. EmptyStash \in Stashes
  BY DEF EmptyStash, Stashes
<1>. QED
  BY <1>1, EmptySeq, LimitAssumption DEF Init, TypeInv, TypeOK, LoopInv, Stages, AtChunk

LEMMA TypeStep ==
    ASSUME TypeInv, [Next]_vars
    PROVE  TypeInv'
<1> USE DEF TypeInv, TypeOK, LoopInv, Stages, AtChunk, Goes, shared, request
<1>begin. ASSUME NEW t \in Turns, Begin(t) PROVE TypeInv'
  BY <1>begin DEF Begin
<1>gate. ASSUME NEW t \in Turns, Gate(t) PROVE TypeInv'
  <2>1. Merged(t) \in Companies \cup {NoCompany} /\ Loaded(t) \in Seq(Messages)
    BY MergedTyped
  <2>2. /\ copy' \in [Turns -> Runs \cup {NoRun}]
        /\ isNew' \in [Turns -> BOOLEAN] /\ blind' \subseteq Turns
    BY <1>gate, PeekTyped, LoadsTyped DEF Gate
  <2>3. CASE Consult(t, Loaded(t), Merged(t))
    <3>1. PICK s \in {"asked", "failed", "reply"} : stage' = [stage EXCEPT ![t] = s]
      BY <2>1, <2>3, ConsultTyped
    <3>2. PICK ms \in Seq(Messages) : msgs' = [msgs EXCEPT ![t] = ms]
      BY <2>1, <2>3, ConsultTyped
    <3>3. /\ opened' \in [Convs -> BOOLEAN] /\ slots' \in [Convs -> Companies \cup {NoCompany}]
          /\ company' \in [Turns -> Companies \cup {NoCompany}]
          /\ replayed' \in [Turns -> Reports \cup {NoReport}]
      BY <2>1, <2>3, ConsultTyped
    <3>4. /\ stage[t] = "begun"
          /\ UNCHANGED <<disk, pending, cache, conv, text, todo, iteration, ran, shown>>
      BY <1>gate DEF Gate
    <3>. QED
      BY <2>2, <3>1, <3>2, <3>3, <3>4
  <2>4. CASE /\ msgs' = [msgs EXCEPT ![t] = Loaded(t)]
             /\ stage' = [stage EXCEPT ![t] = "clarify"]
             /\ UNCHANGED <<slots, opened, company, replayed>>
    BY <1>gate, <2>1, <2>2, <2>4 DEF Gate
  <2>. QED
    BY <1>gate, <2>3, <2>4 DEF Gate
<1>command. ASSUME NEW t \in Turns, Command(t) PROVE TypeInv'
  BY <1>command, PeekTyped, MergedTyped, LoadsTyped DEF Command
<1>clarified. ASSUME NEW t \in Turns, Clarified(t) PROVE TypeInv'
  <2>1. ASSUME NEW understood \in Companies \cup {NoCompany}, Consult(t, msgs[t], understood)
        PROVE  TypeInv'
    <3>1. PICK s \in {"asked", "failed", "reply"} : stage' = [stage EXCEPT ![t] = s]
      BY <2>1, ConsultTyped
    <3>2. PICK ms \in Seq(Messages) : msgs' = [msgs EXCEPT ![t] = ms]
      BY <2>1, ConsultTyped
    <3>3. /\ opened' \in [Convs -> BOOLEAN] /\ slots' \in [Convs -> Companies \cup {NoCompany}]
          /\ company' \in [Turns -> Companies \cup {NoCompany}]
          /\ replayed' \in [Turns -> Reports \cup {NoReport}]
      BY <2>1, ConsultTyped
    <3>4. /\ stage[t] = "clarify"
          /\ UNCHANGED <<disk, pending, cache, request, copy, todo, iteration, ran, shown>>
      BY <1>clarified DEF Clarified
    <3>. QED
      BY <3>1, <3>2, <3>3, <3>4
  <2>2. msgs[t] \o <<Message("user", t, "ask", {}), Message("assistant", t, "prose", {})>>
            \in Seq(Messages)
    BY OwnMessages, ConcatProperties
  <2>3. ASSUME NEW understood \in Companies \cup {NoCompany},
               slots' = [slots EXCEPT ![conv[t]] = understood],
               company' = [company EXCEPT ![t] = understood],
               msgs' = [msgs EXCEPT ![t] = @ \o
                   <<Message("user", t, "ask", {}), Message("assistant", t, "prose", {})>>],
               stage' = [stage EXCEPT ![t] = "reply"],
               UNCHANGED <<opened, replayed>>
        PROVE  TypeInv'
    BY <1>clarified, <2>2, <2>3 DEF Clarified
  <2>. QED
    BY <1>clarified, <2>1, <2>3 DEF Clarified
<1>gateSave. ASSUME NEW t \in Turns, GateSaveFails(t) PROVE TypeInv'
  <2>1. slots' \in [Convs -> Companies \cup {NoCompany}]
    BY <1>gateSave DEF GateSaveFails
  <2>2. /\ copy' \in [Turns -> Runs \cup {NoRun}]
        /\ isNew' \in [Turns -> BOOLEAN] /\ blind' \subseteq Turns
    BY <1>gateSave, PeekTyped, LoadsTyped DEF GateSaveFails
  <2>3. ASSUME NEW base \in Seq(Messages), ToModel(t, base) PROVE TypeInv'
    <3>1. PICK s \in {"asked", "failed"} : stage' = [stage EXCEPT ![t] = s]
      BY <2>3, ToModelTyped
    <3>2. PICK ms \in Seq(Messages) : msgs' = [msgs EXCEPT ![t] = ms]
      BY <2>3, ToModelTyped
    <3>3. opened' \in [Convs -> BOOLEAN]
      BY <2>3, ToModelTyped
    <3>4. /\ stage[t] \in {"begun", "clarify"}
          /\ UNCHANGED <<disk, pending, cache, conv, text, company, todo, iteration, ran,
                         replayed, shown>>
      BY <1>gateSave DEF GateSaveFails
    <3>. QED
      BY <2>1, <2>2, <3>1, <3>2, <3>3, <3>4
  <2>. QED
    BY <1>gateSave, <2>3, MergedTyped DEF GateSaveFails
<1>reply. ASSUME NEW t \in Turns, Reply(t) PROVE TypeInv'
  BY <1>reply, PeekTyped, SavesTyped DEF Reply
<1>replySave. ASSUME NEW t \in Turns, ReplySaveFails(t) PROVE TypeInv'
  <2>1. disk' \in [Convs -> Seq(Messages)] /\ opened' \in [Convs -> BOOLEAN]
    BY <1>replySave, SavesTyped DEF ReplySaveFails
  <2>2. Append(msgs[t], Message("user", t, "ask", {})) \in Seq(Messages)
    BY OwnMessages, AppendProperties
  <2>. QED
    <3>1. copy' \in [Turns -> Runs \cup {NoRun}]
      BY <1>replySave, PeekTyped DEF ReplySaveFails
    <3>2. PICK ms \in Seq(Messages) : msgs' = [msgs EXCEPT ![t] = ms]
      <4>1. CASE UNCHANGED msgs
        <5>1. msgs' = [msgs EXCEPT ![t] = msgs[t]] /\ msgs[t] \in Seq(Messages)
          BY <4>1
        <5>. QED
          BY <5>1
      <4>2. CASE msgs' = [msgs EXCEPT ![t] = Append(@, Message("user", t, "ask", {}))]
        BY <2>2, <4>2
      <4>. QED
        BY <1>replySave, <4>1, <4>2 DEF ReplySaveFails
    <3>3. PICK s \in {"asked", "failed"} : stage' = [stage EXCEPT ![t] = s]
      BY <1>replySave DEF ReplySaveFails
    <3>4. /\ stage[t] = "reply"
          /\ UNCHANGED <<slots, pending, cache, request, company, todo, iteration, ran,
                         replayed, shown>>
      BY <1>replySave DEF ReplySaveFails
    <3>. QED
      BY <2>1, <3>1, <3>2, <3>3, <3>4
<1>request. ASSUME NEW t \in Turns, Request(t) PROVE TypeInv'
  BY <1>request, PeekTyped DEF Request
<1>calls. ASSUME NEW t \in Turns, LlmCalls(t) PROVE TypeInv'
  <2>1. iteration[t] + 1 \in 0..MaxToolIterations /\ iteration[t] + 1 \in Nat
    <3>1. iteration[t] \in 0..MaxToolIterations /\ iteration[t] < MaxToolIterations
      BY <1>calls DEF LlmCalls
    <3>. QED
      BY <3>1, LimitAssumption
  <2>2. iteration' = [iteration EXCEPT ![t] = @ + 1] /\ iteration'[t] = iteration[t] + 1
    BY <1>calls DEF LlmCalls
  <2>3. PICK list \in ToolCalls, kind \in {"", "prose"} :
          /\ msgs' = [msgs EXCEPT ![t] = Append(@,
                Message("assistant", t, kind, CallIds(t, iteration'[t], list)))]
          /\ todo' = [todo EXCEPT ![t] = list]
          /\ stage' = [stage EXCEPT ![t] = IF kind = "" THEN "tool" ELSE "calling"]
    BY <1>calls DEF LlmCalls
  <2>4. list \in Seq({"run_sql", "visualize_data"}) /\ list # <<>>
    BY CallsAssumption
  <2>5. Message("assistant", t, kind, CallIds(t, iteration'[t], list)) \in Messages
    BY <2>1, <2>2, <2>4, CallIdsTyped, MessageTyped
  <2>6. PICK ms \in Seq(Messages) \ {<<>>} : msgs' = [msgs EXCEPT ![t] = ms]
    <3> DEFINE m == Message("assistant", t, kind, CallIds(t, iteration'[t], list))
    <3>1. msgs[t] \in Seq(Messages) /\ msgs \in [Turns -> Seq(Messages)]
      OBVIOUS
    <3>2. m \in Messages
      BY <2>5
    <3>3. msgs' = [msgs EXCEPT ![t] = Append(msgs[t], m)]
      BY <2>3
    <3>. HIDE DEF TypeInv, TypeOK, LoopInv, m
    <3>4. Append(msgs[t], m) \in Seq(Messages)
      BY <3>1, <3>2, AppendProperties
    <3>5. Append(msgs[t], m) # <<>>
      BY <3>1, <3>2, AppendNotEmpty
    <3>. QED
      BY <3>3, <3>4, <3>5
  <2>7. PICK s \in {"tool", "calling"} : stage' = [stage EXCEPT ![t] = s]
    BY <2>3
  <2>8. UNCHANGED <<shared, request, company, copy, ran, replayed, shown>>
    BY <1>calls DEF LlmCalls
  <2>. QED
    <3>1. todo' = [todo EXCEPT ![t] = list]
      BY <2>3
    <3>. HIDE DEF Message, CallIds, Messages
    <3>. QED
      BY <2>1, <2>2, <2>4, <2>6, <2>7, <2>8, <3>1
<1>answers. ASSUME NEW t \in Turns, LlmAnswers(t) PROVE TypeInv'
  <2>1. \A kind \in {"prose", "fallback"} :
            Append(msgs[t], Message("assistant", t, kind, {})) \in Seq(Messages)
    BY OwnMessages, AppendProperties
  <2>2. PICK ms \in Seq(Messages) : msgs' = [msgs EXCEPT ![t] = ms]
    <3>1. PICK kind \in {"", "prose", "fallback"} :
             msgs' = [msgs EXCEPT ![t] =
                IF kind = "" THEN @ ELSE Append(@, Message("assistant", t, kind, {}))]
      BY <1>answers DEF LlmAnswers
    <3>. QED
      BY <2>1, <3>1
  <2>. QED
    BY <1>answers, <2>2 DEF LlmAnswers
<1>llmFails. ASSUME NEW t \in Turns, LlmFails(t) PROVE TypeInv'
  BY <1>llmFails DEF LlmFails
<1>start. ASSUME NEW t \in Turns, StartTools(t) PROVE TypeInv'
  BY <1>start, PeekTyped DEF StartTools
<1>sql. ASSUME NEW t \in Turns, SqlDone(t) PROVE TypeInv'
  <2>1. ran' \in [Turns -> Nat] /\ <<t, ran'[t]>> \in Runs
    BY <1>sql DEF SqlDone, Runs
  <2>2. pending' \in [Convs -> Stashes]
    <3>1. PICK some \in BOOLEAN :
            pending' = [pending EXCEPT ![conv[t]].run = <<t, ran'[t]>>,
                                       ![conv[t]].rows = some]
      BY <1>sql DEF SqlDone
    <3>2. [[pending[conv[t]] EXCEPT !.run = <<t, ran'[t]>>] EXCEPT !.rows = some] \in Stashes
      <4>1. pending[conv[t]] \in Stashes
        OBVIOUS
      <4>. HIDE DEF TypeInv, TypeOK, LoopInv
      <4>. QED
        BY <2>1, <4>1 DEF Stashes
    <3>. QED
      BY <3>1, <3>2
  <2>. QED
    BY <1>sql, <2>1, <2>2 DEF SqlDone
<1>chart. ASSUME NEW t \in Turns, ChartDone(t) PROVE TypeInv'
  <2>1. pending' \in [Convs -> Stashes]
    <3>1. pending' = [pending EXCEPT ![conv[t]].chart = t]
      BY <1>chart DEF ChartDone
    <3>2. [pending[conv[t]] EXCEPT !.chart = t] \in Stashes
      <4>1. pending[conv[t]] \in Stashes
        OBVIOUS
      <4>. HIDE DEF TypeInv, TypeOK, LoopInv
      <4>. QED
        BY <4>1 DEF Stashes
    <3>. QED
      BY <3>1, <3>2
  <2>. QED
    BY <1>chart, <2>1 DEF ChartDone
<1>toolFails. ASSUME NEW t \in Turns, ToolFails(t) PROVE TypeInv'
  <2>1. Tail(todo[t]) \in Seq({"run_sql", "visualize_data"})
    BY <1>toolFails, HeadTailProperties DEF ToolFails
  <2>. QED
    <3>1. PICK s \in {"tool", "llm", "closing"} :
            /\ stage' = [stage EXCEPT ![t] = s]
            /\ s = "tool" => Tail(todo[t]) # <<>> /\ msgs' = msgs
            /\ s = "llm" => iteration[t] < MaxToolIterations
      BY <1>toolFails, <2>1, ProceedTyped DEF ToolFails
    <3>2. PICK ms \in Seq(Messages) : msgs' = [msgs EXCEPT ![t] = ms]
      BY <1>toolFails, <2>1, ProceedTyped DEF ToolFails
    <3>3. todo' = [todo EXCEPT ![t] = Tail(todo[t])]
      BY <1>toolFails, <2>1, ProceedTyped DEF ToolFails
    <3>4. /\ stage[t] \in {"tool", "result"}
          /\ UNCHANGED <<shared, request, company, iteration, ran, replayed, shown>>
          /\ copy' \in [Turns -> Runs \cup {NoRun}]
      BY <1>toolFails DEF ToolFails
    <3>. QED
      BY <2>1, <3>1, <3>2, <3>3, <3>4
<1>after. ASSUME NEW t \in Turns, AfterTool(t) PROVE TypeInv'
  <2>1. Tail(todo[t]) \in Seq({"run_sql", "visualize_data"})
    BY <1>after, HeadTailProperties DEF AfterTool
  <2>. QED
    <3>1. PICK s \in {"tool", "llm", "closing"} :
            /\ stage' = [stage EXCEPT ![t] = s]
            /\ s = "tool" => Tail(todo[t]) # <<>> /\ msgs' = msgs
            /\ s = "llm" => iteration[t] < MaxToolIterations
      BY <1>after, <2>1, ProceedTyped DEF AfterTool
    <3>2. PICK ms \in Seq(Messages) : msgs' = [msgs EXCEPT ![t] = ms]
      BY <1>after, <2>1, ProceedTyped DEF AfterTool
    <3>3. todo' = [todo EXCEPT ![t] = Tail(todo[t])]
      BY <1>after, <2>1, ProceedTyped DEF AfterTool
    <3>4. /\ stage[t] \in {"tool", "result"}
          /\ UNCHANGED <<shared, request, company, iteration, ran, replayed, shown>>
          /\ copy' \in [Turns -> Runs \cup {NoRun}]
      BY <1>after, PeekTyped DEF AfterTool
    <3>. QED
      BY <2>1, <3>1, <3>2, <3>3, <3>4
<1>close. ASSUME NEW t \in Turns, Close(t) PROVE TypeInv'
  BY <1>close, PeekTyped, SavesTyped, HookTyped DEF Close
<1>closeSave. ASSUME NEW t \in Turns, CloseSaveFails(t) PROVE TypeInv'
  BY <1>closeSave, PeekTyped, SavesTyped DEF CloseSaveFails
<1>failed. ASSUME NEW t \in Turns, EndFailed(t) PROVE TypeInv'
  BY <1>failed, PeekTyped DEF EndFailed
<1>disconnect. ASSUME NEW t \in Turns, Disconnect(t) PROVE TypeInv'
  BY <1>disconnect DEF Disconnect, InFlight
<1>restart. CASE Restart
  <2>1. ASSUME NEW t \in Turns, DiesAtGate(t)
        PROVE  /\ opened' \in [Convs -> BOOLEAN]
               /\ slots' \in [Convs -> Companies \cup {NoCompany}]
    <3>1. opened' \in [Convs -> BOOLEAN]
      BY <2>1, MetadataTyped DEF DiesAtGate
    <3>2. PICK named \in Companies \cup {NoCompany} : slots' = [slots EXCEPT ![conv[t]] = named]
      BY <2>1, MergedTyped DEF DiesAtGate
    <3>. QED
      BY <3>1, <3>2
  <2>2. disk' \in [Convs -> Seq(Messages)] /\ opened' \in [Convs -> BOOLEAN]
    BY <1>restart, <2>1, SavesTyped DEF Restart
  <2>3. slots' \in [Convs -> Companies \cup {NoCompany}]
    BY <1>restart, <2>1 DEF Restart
  <2>4. EmptyStash \in Stashes
    BY DEF EmptyStash, Stashes
  <2>. QED
    BY <1>restart, <2>2, <2>3, <2>4 DEF Restart, InFlight
<1>same. CASE UNCHANGED vars
  BY <1>same DEF vars
<1>. QED
  BY <1>begin, <1>gate, <1>command, <1>clarified, <1>gateSave, <1>reply, <1>replySave,
     <1>request, <1>calls, <1>answers, <1>llmFails, <1>start, <1>sql, <1>chart,
     <1>toolFails, <1>after, <1>close, <1>closeSave, <1>failed, <1>disconnect,
     <1>restart, <1>same DEF Next, Advance

THEOREM TypeInvariance == Spec => []TypeInv
<1>1. TypeInv /\ [Next]_vars => TypeInv'
  BY TypeStep
<1>. QED
  BY TypeInit, <1>1, PTL DEF Spec

\* Every reachable state is well typed: the tool limit holds, and what is
\* cached, stashed and stored is made of what turns did.
THEOREM TypeCorrect == Spec => []TypeOK
<1>1. TypeInv => TypeOK
  BY DEF TypeInv
<1>. QED
  BY TypeInvariance, <1>1, PTL
------------------------------------------------------------------------------
(***************************************************************************)
(* The stash                                                               *)
(***************************************************************************)

\* What the server has copied, too, comes from the turn's conversation.
ThreadInv ==
    /\ \A t \in Turns : copy[t] # NoRun => conv[copy[t][1]] = conv[t]
    /\ StashStaysInThread

\* Runs are numbered: those stashed or cached are not those to come.
RunsInv ==
    /\ \A c \in Convs : LET run == pending[c].run IN
          run # NoRun => run[2] <= ran[run[1]]
    /\ \A x \in Texts : LET run == cache[x].run IN
          cache[x] # NoReport => run[2] <= ran[run[1]]
    /\ RunsFiledOnce

StashInv == ThreadInv /\ RunsInv

\* Steps that neither stash nor file.
LEMMA StashUntouched ==
    ASSUME TypeOK, StashInv, UNCHANGED <<pending, cache, conv, ran>>, NEW t \in Turns,
           copy' = copy \/ Peek(t),
           shown' = shown \/ shown' = [shown EXCEPT ![t] = copy'[t]]
    PROVE  StashInv'
<1>1. RunsInv'
  BY DEF StashInv, RunsInv, RunsFiledOnce
<1>2. \A u \in Turns : copy'[u] # NoRun => conv[copy'[u][1]] = conv[u]
  <2>1. CASE copy' = copy
    BY <2>1 DEF StashInv, ThreadInv
  <2>2. CASE Peek(t)
    <3>1. conv[t] \in Convs
      BY DEF TypeOK
    <3>2. copy' = [copy EXCEPT ![t] = IF pending[conv[t]].run = NoRun
                                      THEN @ ELSE pending[conv[t]].run]
      BY <2>2 DEF Peek
    <3>. QED
      BY <3>1, <3>2 DEF StashInv, ThreadInv, StashStaysInThread, TypeOK
  <2>. QED
    BY <2>1, <2>2
<1>3. \A u \in Turns : shown'[u] # NoRun => conv[shown'[u][1]] = conv[u]
  <2>1. \A u \in Turns : shown'[u] = shown[u] \/ shown'[u] = copy'[u]
    BY DEF TypeOK
  <2>. QED
    BY <1>2, <2>1 DEF StashInv, ThreadInv, StashStaysInThread
<1>4. ThreadInv'
  BY <1>2, <1>3 DEF StashInv, ThreadInv, StashStaysInThread
<1>. QED
  BY <1>1, <1>4 DEF StashInv

LEMMA StashInit == Init => StashInv
  BY DEF Init, StashInv, ThreadInv, RunsInv, StashStaysInThread, RunsFiledOnce, EmptyStash

\* A run that is stashed is a new one, of this conversation.
LEMMA StashSql ==
    ASSUME TypeOK, StashInv, NEW t \in Turns, SqlDone(t)
    PROVE  StashInv'
<1> DEFINE run == <<t, ran[t] + 1>>
<1>1. /\ ran' = [ran EXCEPT ![t] = @ + 1] /\ ran \in [Turns -> Nat]
      /\ UNCHANGED <<cache, conv, copy, shown>>
  BY DEF SqlDone, TypeOK, request
<1>2. /\ conv[t] \in Convs
      /\ pending'[conv[t]].run = run
      /\ \A c \in Convs \ {conv[t]} : pending'[c] = pending[c]
  <2>1. PICK some \in BOOLEAN :
          pending' = [pending EXCEPT ![conv[t]].run = <<t, ran'[t]>>,
                                     ![conv[t]].rows = some]
    BY DEF SqlDone
  <2>2. conv[t] \in Convs /\ pending[conv[t]] \in Stashes
    BY DEF TypeOK
  <2>. QED
    BY <1>1, <2>1, <2>2 DEF TypeOK, Stashes
<1>3. ThreadInv'
  BY <1>1, <1>2 DEF StashInv, ThreadInv, StashStaysInThread
<1>4. /\ \A c \in Convs : pending[c].run \in Runs \cup {NoRun}
      /\ \A x \in Texts : cache[x] # NoReport => cache[x].run \in Runs
  BY DEF TypeOK, Stashes, Reports
<1>5. \A x \in Texts : cache[x] # NoReport => cache[x].run # run
  BY <1>1, <1>4 DEF StashInv, RunsInv, Runs
<1>6. \A x \in Texts : cache[x] # NoReport => cache[x].run[2] <= ran'[cache[x].run[1]]
  BY <1>1, <1>4 DEF StashInv, RunsInv, Runs
<1>7. \A c \in Convs : pending'[c].run # NoRun => pending'[c].run[2] <= ran'[pending'[c].run[1]]
  BY <1>1, <1>2, <1>4 DEF StashInv, RunsInv, Runs
<1>8. RunsFiledOnce'
  BY <1>1, <1>2, <1>5 DEF StashInv, RunsInv, RunsFiledOnce
<1>9. RunsInv'
  BY <1>1, <1>6, <1>7, <1>8 DEF RunsInv
<1>. QED
  BY <1>3, <1>9 DEF StashInv

\* A chart does not touch the stashed run.
LEMMA StashChart ==
    ASSUME TypeOK, StashInv, NEW t \in Turns, ChartDone(t)
    PROVE  StashInv'
<1>1. \A c \in Convs : pending'[c].run = pending[c].run
  BY DEF ChartDone, TypeOK, Stashes
<1>2. UNCHANGED <<cache, conv, ran, copy, shown>>
  BY DEF ChartDone, request
<1>. QED
  BY <1>1, <1>2 DEF StashInv, ThreadInv, RunsInv, StashStaysInThread, RunsFiledOnce

\* The end of a turn: the stash is emptied, and its run, if it is filed, was in
\* no report before.
LEMMA StashClose ==
    ASSUME TypeOK, StashInv, NEW t \in Turns, Close(t)
    PROVE  StashInv'
<1> DEFINE c0 == conv[t]
           run == pending[c0].run
<1>1. /\ UNCHANGED <<conv, ran>> /\ Hook(t) /\ Peek(t)
      /\ shown' = [shown EXCEPT ![t] = copy'[t]]
      /\ c0 \in Convs
  BY DEF Close, TypeOK, request
<1>2. /\ pending' = [pending EXCEPT ![c0] = EmptyStash]
      /\ \/ cache' = cache
         \/ /\ Storable(t, pending[c0])
            /\ Report(t, pending[c0]) \in Reports
            /\ \E key : cache' = [cache EXCEPT ![key] = Report(t, pending[c0])]
  BY <1>1, HookForm
<1>3. \A c \in Convs : \/ pending'[c].run = NoRun
                       \/ c # c0 /\ pending'[c] = pending[c]
  <2>1. pending'[c0].run = NoRun
    BY <1>1, <1>2 DEF TypeOK, EmptyStash
  <2>2. \A c \in Convs \ {c0} : pending'[c] = pending[c]
    BY <1>2 DEF TypeOK
  <2>. QED
    BY <2>1, <2>2
<1>4. \A x \in Texts : \/ cache'[x] = cache[x]
                       \/ run # NoRun /\ cache'[x].run = run /\ cache'[x].by = t
  <2>1. /\ Report(t, pending[c0]).run = run
        /\ Report(t, pending[c0]).by = t
    BY DEF Report
  <2>2. Storable(t, pending[c0]) => run # NoRun
    BY DEF Storable
  <2>3. \A x \in Texts : \/ cache'[x] = cache[x]
                         \/ /\ Storable(t, pending[c0])
                            /\ cache'[x] = Report(t, pending[c0])
    BY <1>2 DEF TypeOK
  <2>. QED
    BY <2>1, <2>2, <2>3
<1>5. \A x, y \in Texts : x # y => cache'[x] = cache[x] \/ cache'[y] = cache[y]
  BY <1>2 DEF TypeOK
<1>6. \A u \in Turns : copy'[u] # NoRun => conv[copy'[u][1]] = conv[u]
  BY <1>1 DEF Peek, TypeOK, StashInv, ThreadInv, StashStaysInThread
<1>7. \A u \in Turns : shown'[u] = shown[u] \/ shown'[u] = copy'[u]
  BY <1>1 DEF TypeOK
<1>8. ThreadInv'
  BY <1>1, <1>3, <1>4, <1>6, <1>7 DEF StashInv, ThreadInv, StashStaysInThread
<1>9. \A c \in Convs \ {c0} : pending[c].run # NoRun => pending[c].run # run
  BY <1>1 DEF StashInv, ThreadInv, StashStaysInThread
<1>10. RunsFiledOnce'
  <2>1. ASSUME NEW x \in Texts, NEW y \in Texts, x # y,
               cache'[x] # NoReport, cache'[y] # NoReport
        PROVE  cache'[x].run # cache'[y].run
    BY <1>1, <1>4, <1>5, <2>1 DEF StashInv, RunsInv, RunsFiledOnce
  <2>2. ASSUME NEW x \in Texts, NEW c \in Convs, cache'[x] # NoReport
        PROVE  cache'[x].run # pending'[c].run
    <3>1. CASE pending'[c].run = NoRun
      <4>1. cache' \in [Texts -> Reports \cup {NoReport}]
        BY <1>1, HookTyped
      <4>2. cache'[x].run \in Runs
        BY <2>2, <4>1 DEF Reports
      <4>. QED
        BY <3>1, <4>2, NoRunAssumption DEF Runs
    <3>. QED
      BY <1>3, <1>4, <1>9, <2>2, <3>1 DEF StashInv, RunsInv, RunsFiledOnce
  <2>. QED
    BY <2>1, <2>2 DEF RunsFiledOnce
<1>11. RunsInv'
  BY <1>1, <1>3, <1>4, <1>10 DEF StashInv, RunsInv
<1>. QED
  BY <1>8, <1>11 DEF StashInv

\* A restart empties every stash; the cached reports stay.
LEMMA StashRestart ==
    ASSUME TypeOK, StashInv, Restart
    PROVE  StashInv'
<1>1. /\ pending' = [c \in Convs |-> EmptyStash]
      /\ UNCHANGED <<cache, conv, copy, ran, shown>>
  BY DEF Restart, request
<1>2. \A c \in Convs : pending'[c].run = NoRun
  BY <1>1 DEF EmptyStash
<1>3. \A x \in Texts : cache[x] # NoReport => cache[x].run # NoRun
  BY NoRunAssumption DEF TypeOK, Reports, Runs
<1>4. ThreadInv'
  BY <1>1, <1>2 DEF StashInv, ThreadInv, StashStaysInThread
<1>5. RunsInv'
  BY <1>1, <1>2, <1>3 DEF StashInv, RunsInv, RunsFiledOnce
<1>. QED
  BY <1>4, <1>5 DEF StashInv

LEMMA StashStep == TypeOK /\ StashInv /\ [Next]_vars => StashInv'
<1> SUFFICES ASSUME TypeOK, StashInv, [Next]_vars PROVE StashInv'
  OBVIOUS
<1>1. CASE Restart
  BY <1>1, StashRestart
<1>2. ASSUME NEW t \in Turns, SqlDone(t) PROVE StashInv'
  BY <1>2, StashSql
<1>3. ASSUME NEW t \in Turns, ChartDone(t) PROVE StashInv'
  BY <1>3, StashChart
<1>4. ASSUME NEW t \in Turns, Close(t) PROVE StashInv'
  BY <1>4, StashClose
<1>5. ASSUME NEW t \in Turns,
             Gate(t) \/ Command(t) \/ Clarified(t) \/ GateSaveFails(t)
      PROVE  StashInv'
  <2>1. /\ UNCHANGED <<pending, cache, conv, ran, shown>>
        /\ copy' = copy \/ Peek(t)
    BY <1>5 DEF Gate, Command, Clarified, GateSaveFails, request, shared
  <2>. QED
    BY <2>1, StashUntouched
<1>6. ASSUME NEW t \in Turns, Reply(t) \/ EndFailed(t)
      PROVE  StashInv'
  <2>1. /\ UNCHANGED <<pending, cache, conv, ran>>
        /\ Peek(t) /\ shown' = [shown EXCEPT ![t] = copy'[t]]
    BY <1>6 DEF Reply, EndFailed, request, shared
  <2>. QED
    BY <2>1, StashUntouched
<1>7. ASSUME NEW t \in Turns,
             \/ Begin(t) \/ ReplySaveFails(t) \/ Request(t) \/ LlmCalls(t) \/ LlmAnswers(t)
             \/ LlmFails(t) \/ StartTools(t) \/ ToolFails(t) \/ AfterTool(t)
             \/ CloseSaveFails(t) \/ Disconnect(t)
      PROVE  StashInv'
  <2>1. /\ UNCHANGED <<pending, cache, conv, ran, shown>>
        /\ copy' = copy \/ Peek(t)
    BY <1>7 DEF Begin, ReplySaveFails, Request, LlmCalls, LlmAnswers, LlmFails, StartTools,
                ToolFails, AfterTool, CloseSaveFails, Disconnect, request, shared
  <2>. QED
    BY <2>1, StashUntouched
<1>8. CASE UNCHANGED vars
  <2>1. UNCHANGED <<pending, cache, conv, ran, copy, shown>>
    BY <1>8 DEF vars
  <2>. QED
    BY <2>1 DEF StashInv, ThreadInv, RunsInv, StashStaysInThread, RunsFiledOnce
<1>. QED
  BY <1>1, <1>2, <1>3, <1>4, <1>5, <1>6, <1>7, <1>8 DEF Next, Advance

THEOREM StashInvariance == Spec => []StashInv
<1>1. TypeOK /\ StashInv /\ [Next]_vars => StashInv'
  BY StashStep
<1>. QED
  BY StashInit, TypeCorrect, <1>1, PTL DEF Spec

\* _pending is keyed by conversation and the hook and the server read it by
\* theirs: rows fetched in one conversation get into no other's stash, report or
\* provenance, however turns overlap and whatever fails.
THEOREM StashesStay == Spec => []StashStaysInThread
<1>1. StashInv => StashStaysInThread
  BY DEF StashInv, ThreadInv
<1>. QED
  BY StashInvariance, <1>1, PTL

\* take_pending removes what it returns, so that a run gets into one report at
\* most, and no report holds what is still stashed.
THEOREM RunsAreFiledOnce == Spec => []RunsFiledOnce
<1>1. StashInv => RunsFiledOnce
  BY DEF StashInv, RunsInv
<1>. QED
  BY StashInvariance, <1>1, PTL
------------------------------------------------------------------------------
(***************************************************************************)
(* The stored conversation                                                 *)
(***************************************************************************)

LEMMA PrefixOfConcat ==
    ASSUME NEW S, NEW s \in Seq(S), NEW u \in Seq(S)
    PROVE  IsPrefix(s, s \o u)
<1>1. /\ s \o u \in Seq(S) /\ Len(s \o u) = Len(s) + Len(u)
      /\ \A i \in 1..Len(s) : (s \o u)[i] = s[i]
      /\ Len(s) \in Nat /\ Len(u) \in Nat
  BY ConcatProperties, LenProperties
<1>2. SubSeq(s, 1, Len(s)) = s
  BY SubSeqFull
<1>3. SubSeq(s \o u, 1, Len(s)) = s
  <2>1. \A i \in 1..Len(s) : (s \o u)[i] \in S
    BY <1>1, ElementOfSeq
  <2>2. /\ SubSeq(s \o u, 1, Len(s)) \in Seq(S)
        /\ Len(SubSeq(s \o u, 1, Len(s))) = IF 1 <= Len(s) THEN Len(s) - 1 + 1 ELSE 0
        /\ \A i \in 1..(Len(s) - 1 + 1) : SubSeq(s \o u, 1, Len(s))[i] = (s \o u)[1 + i - 1]
    BY <1>1, <2>1, SubSeqProperties
  <2>3. Len(SubSeq(s \o u, 1, Len(s))) = Len(s)
    BY <1>1, <2>2
  <2>4. \A i \in 1..Len(s) : SubSeq(s \o u, 1, Len(s))[i] = s[i]
    BY <1>1, <2>2
  <2>. QED
    BY <2>2, <2>3, <2>4, SeqEqual
<1>. QED
  BY <1>1, <1>2, <1>3 DEF IsPrefix

LEMMA PrefixOfSelf ==
    ASSUME NEW S, NEW s \in Seq(S)
    PROVE  IsPrefix(s, s)
<1>1. IsPrefix(s, s \o <<>>)
  BY EmptySeq, PrefixOfConcat
<1>2. s \o <<>> = s
  BY ConcatEmptySeq
<1>. QED
  BY <1>1, <1>2

\* A save, cut off or not, only adds at the end.
LEMMA SavesGrow ==
    ASSUME TypeOK, NEW t \in Turns, Saves(t) \/ SavesPartly(t) \/ SavesPartlyTwice(t),
           NEW c \in Convs
    PROVE  IsPrefix(disk[c], disk'[c])
<1>1. disk \in [Convs -> Seq(Messages)] /\ conv[t] \in Convs
  BY DEF TypeOK
<1>2. \A s \in Seq(Messages) : IsPrefix(s, s)
  BY PrefixOfSelf
<1>3. CASE disk' = disk
  BY <1>1, <1>2, <1>3
<1>4. ASSUME NEW n \in 0..Len(msgs[t]),
             disk' = [disk EXCEPT ![conv[t]] = SavedUpTo(conv[t], msgs[t], n)]
      PROVE  IsPrefix(disk[c], disk'[c])
  <2> DEFINE new == SubSeq(msgs[t], Len(disk[conv[t]]) + 1, n)
  <2>1. new \in Seq(Messages)
    <3>1. msgs[t] \in Seq(Messages) /\ Len(disk[conv[t]]) \in Nat /\ Len(msgs[t]) \in Nat
      BY <1>1, LenProperties DEF TypeOK
    <3>2. \A i \in (Len(disk[conv[t]]) + 1)..n : msgs[t][i] \in Messages
      BY <3>1, ElementOfSeq
    <3>. QED
      BY <3>1, <3>2, SubSeqProperties
  <2>2. SavedUpTo(conv[t], msgs[t], n) = disk[conv[t]] \o new
    BY DEF SavedUpTo
  <2>. HIDE DEF new
  <2>3. CASE c = conv[t]
    BY <1>1, <1>4, <2>1, <2>2, <2>3, PrefixOfConcat
  <2>4. CASE c # conv[t]
    BY <1>1, <1>2, <1>4, <2>4
  <2>. QED
    BY <2>3, <2>4
<1>. QED
  BY <1>3, <1>4, SavesForm
=============================================================================

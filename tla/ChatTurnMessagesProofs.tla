----------------------- MODULE ChatTurnMessagesProofs -----------------------
(***************************************************************************)
(* Theorems about the messages of ChatTurn, for any number of turns, tools *)
(* that fail and whatever else fails: tool calls and their answers, and    *)
(* what is stored of a turn that has ended.                                *)
(***************************************************************************)
EXTENDS ChatTurnProofs

\* Messages of t that neither call tools nor answer calls.
Plain(t) == {m \in Messages : m.by = t /\ m.role # "tool" /\ m.calls = {}}

\* Nothing in a list of messages is of t's writing.
Foreign(t, messages) == \A i \in 1..Len(messages) : messages[i].by # t

\* CallsAnswered of one message and of a list of messages.
AnsweredAt(t, messages, j) ==
    LET calls == messages[j].calls IN
    messages[j].role = "assistant" /\ messages[j].by = t =>
        /\ j + Cardinality(calls) <= Len(messages)
        /\ calls = UNION {messages[j + i].calls : i \in 1..Cardinality(calls)}

Answered(t, messages) == \A j \in 1..Len(messages) : AnsweredAt(t, messages, j)

\* The message that makes the calls, and their answers, as in LlmCalls and Proceed.
Calling(t, n, kind, list) == Message("assistant", t, kind, CallIds(t, n, list))
Answers(t, n, calls) ==
    [i \in 1..Cardinality(calls) |-> Message("tool", t, "result", {<<t, n, i>>})]
------------------------------------------------------------------------------
(***************************************************************************)
(* Lists of messages                                                       *)
(***************************************************************************)

\* A list of calls has as many ids as calls.
LEMMA CallCount ==
    ASSUME NEW t \in Turns, NEW n \in Nat,
           NEW list \in Seq({"run_sql", "visualize_data"})
    PROVE  Cardinality(CallIds(t, n, list)) = Len(list) /\ Len(list) \in Nat
<1> DEFINE id == [i \in 1..Len(list) |-> <<t, n, i>>]
<1>1. \A i \in 1..Len(list) : id[i] = <<t, n, i>>
  OBVIOUS
<1>2. id \in [1..Len(list) -> CallIds(t, n, list)]
  BY DEF CallIds
<1>3. \A c \in CallIds(t, n, list) : \E i \in 1..Len(list) : id[i] = c
  BY <1>1 DEF CallIds
<1>4. \A i, j \in 1..Len(list) : id[i] = id[j] => i = j
  BY <1>1
<1>. HIDE DEF id
<1>5. id \in Bijection(1..Len(list), CallIds(t, n, list))
  BY <1>2, <1>3, <1>4 DEF Bijection, Injection, IsInjective, Surjection
<1>6. ExistsBijection(1..Len(list), CallIds(t, n, list))
  BY <1>5 DEF ExistsBijection
<1>. QED
  BY <1>6, FS_CountingElements, LenProperties

LEMMA PlainTyped ==
    ASSUME NEW t \in Turns
    PROVE  /\ Seq(Plain(t)) \subseteq Seq(Messages)
           /\ Message("user", t, "ask", {}) \in Plain(t)
           /\ \A kind \in {"prose", "fallback"} : Message("assistant", t, kind, {}) \in Plain(t)
<1>1. Plain(t) \subseteq Messages
  BY DEF Plain
<1>2. Seq(Plain(t)) \subseteq Seq(Messages)
  BY <1>1
<1>. QED
  BY <1>2, OwnMessages DEF Plain, Message

\* The answers to a message's calls.
LEMMA AnswersForm ==
    ASSUME NEW t \in Turns, NEW n \in Nat, NEW calls \in CallSets
    PROVE  /\ Cardinality(calls) \in Nat
           /\ Answers(t, n, calls) \in Seq(Messages)
           /\ Len(Answers(t, n, calls)) = Cardinality(calls)
           /\ \A i \in 1..Cardinality(calls) :
                 Answers(t, n, calls)[i] = Message("tool", t, "result", {<<t, n, i>>})
<1> DEFINE size == Cardinality(calls)
           answer(i) == Message("tool", t, "result", {<<t, n, i>>})
           answers == [i \in 1..size |-> answer(i)]
<1>1. size \in Nat
  BY FS_CardinalityType DEF CallSets
<1>2. ASSUME NEW i \in 1..size PROVE answer(i) \in Messages
  <2>1. i \in Nat
    BY <1>1
  <2>2. {<<t, n, i>>} \in CallSets
    BY <2>1, OneCallTyped
  <2>. QED
    BY <2>2, MessageTyped
<1>3. /\ answers \in [1..size -> Messages]
      /\ \A i \in 1..size : answers[i] = answer(i)
  <2>. HIDE DEF answer, size
  <2>. QED
    BY <1>2
<1>4. answers \in Seq(Messages) /\ Len(answers) = size
  <2>. HIDE DEF answers, size
  <2>. QED
    BY <1>1, <1>3
<1>5. Answers(t, n, calls) = answers
  BY DEF Answers
<1>. QED
  BY <1>1, <1>3, <1>4, <1>5

\* Where the messages of a concatenation come from.
LEMMA Joined ==
    ASSUME NEW s \in Seq(Messages), NEW more \in Seq(Messages)
    PROVE  /\ s \o more \in Seq(Messages)
           /\ Len(s) \in Nat /\ Len(more) \in Nat
           /\ Len(s \o more) = Len(s) + Len(more)
           /\ \A i \in 1..Len(s) : (s \o more)[i] = s[i]
           /\ \A i \in 1..Len(more) : (s \o more)[Len(s) + i] = more[i]
           /\ \A i \in 1..Len(s \o more) :
                 i \in 1..Len(s) \/ \E k \in 1..Len(more) : i = Len(s) + k
<1>1. Len(s) \in Nat /\ Len(more) \in Nat
  BY LenProperties
<1>2. /\ s \o more \in Seq(Messages)
      /\ Len(s \o more) = Len(s) + Len(more)
      /\ \A i \in 1..Len(s) + Len(more) :
            (s \o more)[i] = IF i <= Len(s) THEN s[i] ELSE more[i - Len(s)]
  BY ConcatProperties
<1>3. \A i \in 1..Len(more) : (s \o more)[Len(s) + i] = more[i]
  BY <1>1, <1>2
<1>4. ASSUME NEW i \in 1..Len(s \o more), i \notin 1..Len(s)
      PROVE  \E k \in 1..Len(more) : i = Len(s) + k
  <2>1. i - Len(s) \in 1..Len(more) /\ i = Len(s) + (i - Len(s))
    BY <1>1, <1>2, <1>4
  <2>. QED
    BY <2>1
<1>. QED
  BY <1>1, <1>2, <1>3, <1>4

LEMMA ForeignAnswered ==
    ASSUME NEW t, NEW s, Foreign(t, s)
    PROVE  Answered(t, s)
  BY DEF Foreign, Answered, AnsweredAt

\* Answers stay where they are when something is added behind.
LEMMA AnsweredEarlier ==
    ASSUME NEW t \in Turns, NEW s \in Seq(Messages), NEW more \in Seq(Messages),
           Answered(t, s), NEW j \in 1..Len(s)
    PROVE  AnsweredAt(t, s \o more, j)
<1> DEFINE calls == s[j].calls
<1> SUFFICES ASSUME s[j].role = "assistant", s[j].by = t
             PROVE  /\ j + Cardinality(calls) <= Len(s \o more)
                    /\ calls = UNION {(s \o more)[j + i].calls : i \in 1..Cardinality(calls)}
  <2>1. (s \o more)[j] = s[j]
    BY Joined
  <2>. QED
    BY <2>1 DEF AnsweredAt
<1>2. s[j] \in Messages
  BY ElementOfSeq
<1>3. Cardinality(calls) \in Nat
  BY <1>2, FS_CardinalityType DEF Messages, CallSets
<1>4. /\ j + Cardinality(calls) <= Len(s)
      /\ calls = UNION {s[j + i].calls : i \in 1..Cardinality(calls)}
  BY DEF Answered, AnsweredAt
<1>5. Len(s) \in Nat /\ Len(more) \in Nat /\ Len(s \o more) = Len(s) + Len(more)
  BY Joined
<1>6. \A i \in 1..Cardinality(calls) : (s \o more)[j + i] = s[j + i]
  <2> SUFFICES ASSUME NEW i \in 1..Cardinality(calls) PROVE (s \o more)[j + i] = s[j + i]
    OBVIOUS
  <2>1. j + i \in 1..Len(s)
    BY <1>3, <1>4, <1>5
  <2>. QED
    BY <2>1, Joined
<1>7. {(s \o more)[j + i].calls : i \in 1..Cardinality(calls)}
        = {s[j + i].calls : i \in 1..Cardinality(calls)}
  BY <1>6
<1>8. j + Cardinality(calls) <= Len(s \o more)
  BY <1>3, <1>4, <1>5
<1>. QED
  BY <1>4, <1>7, <1>8

LEMMA AnsweredPlain ==
    ASSUME NEW t \in Turns, NEW s \in Seq(Messages), NEW more \in Seq(Plain(t)),
           Answered(t, s)
    PROVE  Answered(t, s \o more)
<1>1. more \in Seq(Messages)
  BY PlainTyped
<1>2. ASSUME NEW k \in 1..Len(more)
      PROVE  AnsweredAt(t, s \o more, Len(s) + k)
  <2>1. more[k] \in Plain(t)
    BY ElementOfSeq
  <2>2. (s \o more)[Len(s) + k].calls = {}
    BY <1>1, <2>1, Joined DEF Plain
  <2>3. Cardinality({}) = 0
    BY FS_EmptySet
  <2>4. UNION {(s \o more)[(Len(s) + k) + i].calls : i \in 1..0} = {}
    OBVIOUS
  <2>5. (Len(s) + k) + 0 <= Len(s \o more)
    BY <1>1, Joined
  <2>. QED
    BY <2>2, <2>3, <2>4, <2>5 DEF AnsweredAt
<1>3. ASSUME NEW j \in 1..Len(s) PROVE AnsweredAt(t, s \o more, j)
  BY <1>1, AnsweredEarlier
<1>4. ASSUME NEW j \in 1..Len(s \o more)
      PROVE  j \in 1..Len(s) \/ \E k \in 1..Len(more) : j = Len(s) + k
  BY <1>1, Joined
<1>. QED
  BY <1>2, <1>3, <1>4 DEF Answered

\* `all' is `s', a message that calls, and answers.
Grown(all, s, call, answers) ==
    /\ all = s \o (<<call>> \o answers) /\ <<call>> \o answers \in Seq(Messages)
    /\ Append(s, call) \in Seq(Messages)
    /\ Len(s) \in Nat /\ Len(answers) \in Nat
    /\ Len(all) = Len(s) + 1 + Len(answers)
    /\ all[Len(s) + 1] = call
    /\ \A i \in 1..Len(answers) : all[Len(s) + 1 + i] = answers[i]
    /\ \A j \in 1..Len(all) : \/ j \in 1..Len(s) \/ j = Len(s) + 1
                              \/ \E i \in 1..Len(answers) : j = Len(s) + 1 + i

\* The answers are those to the calls.
AnswersTo(answers, call) ==
    /\ Len(answers) = Cardinality(call.calls)
    /\ \A i \in 1..Len(answers) : answers[i].role # "assistant"
    /\ call.calls = UNION {answers[i].calls : i \in 1..Len(answers)}

LEMMA CallAndAnswers ==
    ASSUME NEW s \in Seq(Messages), NEW call \in Messages, NEW answers \in Seq(Messages)
    PROVE  Grown(Append(s, call) \o answers, s, call, answers)
<1> DEFINE asked == Append(s, call)
           one == <<call>>
<1>1. /\ asked \in Seq(Messages) /\ Len(asked) = Len(s) + 1 /\ Len(s) \in Nat
      /\ asked[Len(s) + 1] = call
  BY AppendProperties, LenProperties
<1>2. asked = s \o one /\ one \in Seq(Messages)
  BY AppendIsConcat
<1>. HIDE DEF asked, one
<1>3. one \o answers \in Seq(Messages)
  BY <1>2, ConcatProperties
<1>4. (s \o one) \o answers = s \o (one \o answers)
  BY <1>2, ConcatAssociative
<1>5. /\ Len(asked) \in Nat /\ Len(answers) \in Nat
      /\ Len(asked \o answers) = Len(asked) + Len(answers)
      /\ \A i \in 1..Len(asked) : (asked \o answers)[i] = asked[i]
      /\ \A i \in 1..Len(answers) : (asked \o answers)[Len(asked) + i] = answers[i]
      /\ \A i \in 1..Len(asked \o answers) :
            i \in 1..Len(asked) \/ \E k \in 1..Len(answers) : i = Len(asked) + k
  BY <1>1, Joined
<1>6. Len(s) + 1 \in 1..Len(asked)
  BY <1>1
<1>7. asked \o answers = s \o (one \o answers)
  BY <1>2, <1>4
<1>8. (asked \o answers)[Len(s) + 1] = call
  BY <1>1, <1>5, <1>6
<1>9. \A j \in 1..(Len(s) + 1) : j \in 1..Len(s) \/ j = Len(s) + 1
  BY <1>1
<1>10. Len(asked \o answers) = Len(s) + 1 + Len(answers)
  BY <1>1, <1>5
<1>11. \A i \in 1..Len(answers) : (asked \o answers)[Len(s) + 1 + i] = answers[i]
  BY <1>1, <1>5
<1>12. \A j \in 1..Len(asked \o answers) :
           j \in 1..Len(s) \/ j = Len(s) + 1 \/ \E i \in 1..Len(answers) : j = Len(s) + 1 + i
  BY <1>1, <1>5, <1>9
<1>. QED
  BY <1>1, <1>3, <1>5, <1>7, <1>8, <1>10, <1>11, <1>12 DEF Grown, asked, one

\* It is answered if the answers are those to its calls.
LEMMA AnsweredCall ==
    ASSUME NEW t \in Turns, NEW s \in Seq(Messages), Answered(t, s),
           NEW call \in Messages, NEW answers \in Seq(Messages), AnswersTo(answers, call)
    PROVE  Answered(t, Append(s, call) \o answers)
<1>1. PICK all : all = Append(s, call) \o answers
  OBVIOUS
<1>2. Grown(all, s, call, answers)
  BY <1>1, CallAndAnswers
<1>3. ASSUME NEW j \in 1..Len(s) PROVE AnsweredAt(t, all, j)
  BY <1>2, AnsweredEarlier DEF Grown
<1>4. AnsweredAt(t, all, Len(s) + 1)
  <2>1. {all[(Len(s) + 1) + i].calls : i \in 1..Len(answers)}
           = {answers[i].calls : i \in 1..Len(answers)}
    BY <1>2, Zenon DEF Grown
  <2>2. (Len(s) + 1) + Len(answers) <= Len(all)
    BY <1>2 DEF Grown
  <2>. QED
    BY <1>2, <2>1, <2>2, Zenon DEF AnsweredAt, Grown, AnswersTo
<1>5. ASSUME NEW i \in 1..Len(answers) PROVE AnsweredAt(t, all, Len(s) + 1 + i)
  BY <1>2, Zenon DEF AnsweredAt, Grown, AnswersTo
<1>6. \A j \in 1..Len(all) : AnsweredAt(t, all, j)
  BY <1>2, <1>3, <1>4, <1>5, Zenon DEF Grown
<1>. QED
  BY <1>1, <1>6 DEF Answered

\* So are the messages that LlmCalls and Proceed make.
LEMMA AnsweredCalls ==
    ASSUME NEW t \in Turns, NEW s \in Seq(Messages), Answered(t, s), NEW n \in Nat,
           NEW list \in Seq({"run_sql", "visualize_data"}),
           NEW kind \in {"", "prose"}
    PROVE  Answered(t, Append(s, Calling(t, n, kind, list))
                         \o Answers(t, n, CallIds(t, n, list)))
<1> DEFINE call == Calling(t, n, kind, list)
           ids == CallIds(t, n, list)
           answers == Answers(t, n, ids)
<1>1. ids \in CallSets /\ Cardinality(ids) = Len(list) /\ Len(list) \in Nat
  BY CallIdsTyped, CallCount
<1>2. call \in Messages /\ call.calls = ids
  BY <1>1, MessageTyped DEF Calling, Message
<1>3. /\ answers \in Seq(Messages) /\ Len(answers) = Cardinality(ids)
      /\ \A i \in 1..Cardinality(ids) : answers[i] = Message("tool", t, "result", {<<t, n, i>>})
  BY <1>1, AnswersForm
<1>. HIDE DEF call, answers
<1>. HIDE DEF ids
<1>4. \A i \in 1..Len(list) :
          answers[i].calls = {<<t, n, i>>} /\ answers[i].role # "assistant"
  <2> SUFFICES ASSUME NEW i \in 1..Len(list)
               PROVE  answers[i].calls = {<<t, n, i>>} /\ answers[i].role # "assistant"
    OBVIOUS
  <2>1. answers[i] = Message("tool", t, "result", {<<t, n, i>>})
    BY <1>1, <1>3
  <2>2. /\ Message("tool", t, "result", {<<t, n, i>>}).calls = {<<t, n, i>>}
        /\ Message("tool", t, "result", {<<t, n, i>>}).role = "tool"
    BY DEF Message
  <2>. QED
    BY <2>1, <2>2, Zenon
<1>5. UNION {answers[i].calls : i \in 1..Len(list)} = ids
  <2>1. {answers[i].calls : i \in 1..Len(list)} = {{<<t, n, i>>} : i \in 1..Len(list)}
    BY <1>4, Zenon
  <2>2. UNION {{<<t, n, i>>} : i \in 1..Len(list)} = ids
    BY DEF ids, CallIds
  <2>. QED
    BY <2>1, <2>2
<1>6. Len(answers) = Len(list)
  BY <1>1, <1>3
<1>7. AnswersTo(answers, call)
  BY <1>1, <1>2, <1>4, <1>5, <1>6 DEF AnswersTo
<1>8. Answered(t, Append(s, call) \o answers)
  BY <1>2, <1>3, <1>7, AnsweredCall
<1>. QED
  BY <1>8 DEF call, ids, answers
------------------------------------------------------------------------------
(***************************************************************************)
(* What a step does to the messages of a turn                              *)
(***************************************************************************)

Unread  == {"new", "begun"}
Asking  == {"clarify", "reply", "asked", "llm"}
AtTools == {"calling", "tool", "result"}
Over    == {"failed", "saved", "dropped"}

Says(t, base) == \E more \in Seq(Plain(t)) : msgs'[t] = base \o more

Opens(t)  == stage[t] = "new" /\ stage'[t] = "begun" /\ msgs'[t] = msgs[t]
Reads(t)  == stage[t] = "begun" /\ stage'[t] \in Asking \cup Over /\ Says(t, Loaded(t))
Talks(t)  == /\ stage[t] \in Asking /\ stage'[t] \in Asking \cup Over \cup {"closing"}
             /\ Says(t, msgs[t])
Calls(t)  == /\ stage[t] = "llm" /\ stage'[t] \in AtTools /\ iteration'[t] \in Nat
             /\ \E kind \in {"", "prose"}, list \in Seq({"run_sql", "visualize_data"}) :
                   msgs'[t] = Append(msgs[t], Calling(t, iteration'[t], kind, list))
Works(t)  == /\ stage[t] \in AtTools /\ stage'[t] \in AtTools
             /\ msgs'[t] = msgs[t] /\ iteration'[t] = iteration[t]
Returns(t) == /\ stage[t] \in AtTools /\ stage'[t] \in {"llm", "closing"}
              /\ msgs'[t] = msgs[t] \o Answers(t, iteration[t], Last(msgs[t]).calls)
Stops(t)  == stage'[t] \in Over /\ msgs'[t] = msgs[t]

\* A step of t, whatever it does besides.
MessageStep(t) ==
    /\ \A u \in Turns \ {t} : /\ stage'[u] = stage[u] /\ msgs'[u] = msgs[u]
                              /\ iteration'[u] = iteration[u]
    /\ \/ Opens(t) \/ Reads(t) \/ Talks(t) \/ Calls(t) \/ Works(t) \/ Returns(t) \/ Stops(t)

LEMMA IterationTyped ==
    ASSUME TypeOK, NEW t \in Turns
    PROVE  iteration[t] \in Nat
<1>1. iteration[t] \in 0..MaxToolIterations
  BY DEF TypeOK
<1>. QED
  BY <1>1, LimitAssumption

LEMMA IterationGrows ==
    ASSUME TypeOK, NEW t \in Turns, iteration' = [iteration EXCEPT ![t] = @ + 1]
    PROVE  /\ iteration'[t] \in Nat
           /\ \A u \in Turns \ {t} : iteration'[u] = iteration[u]
<1>1. iteration[t] \in Nat
  BY IterationTyped
<1>. QED
  BY <1>1 DEF TypeOK

LEMMA OneElement ==
    ASSUME NEW S, NEW m \in S
    PROVE  <<m>> \in Seq(S) /\ \A k \in 1..Len(<<m>>) : <<m>>[k] = m
  OBVIOUS

LEMMA LastOfAppend ==
    ASSUME NEW s \in Seq(Messages), NEW m \in Messages
    PROVE  Last(Append(s, m)) = m
<1>1. Len(Append(s, m)) = Len(s) + 1 /\ Append(s, m)[Len(s) + 1] = m
  BY AppendProperties
<1>. QED
  BY <1>1 DEF Last

LEMMA SaysNothing ==
    ASSUME TypeOK, NEW t \in Turns, NEW base \in Seq(Messages), msgs'[t] = base
    PROVE  Says(t, base)
<1>1. <<>> \in Seq(Plain(t)) /\ base \o <<>> = base
  BY EmptySeq, ConcatEmptySeq
<1>. QED
  BY <1>1 DEF Says

LEMMA SaysOne ==
    ASSUME NEW t \in Turns, NEW base \in Seq(Messages), NEW m \in Plain(t),
           msgs'[t] = Append(base, m)
    PROVE  Says(t, base)
<1>1. <<m>> \in Seq(Plain(t)) /\ m \in Messages
  BY DEF Plain
<1>2. Append(base, m) = base \o <<m>>
  BY <1>1, AppendIsConcat
<1>. QED
  BY <1>1, <1>2 DEF Says

LEMMA SaysTwo ==
    ASSUME NEW t \in Turns, NEW base \in Seq(Messages),
           msgs'[t] = base \o <<Message("user", t, "ask", {}), Message("assistant", t, "prose", {})>>
    PROVE  Says(t, base)
<1>1. <<Message("user", t, "ask", {}), Message("assistant", t, "prose", {})>> \in Seq(Plain(t))
  BY PlainTyped
<1>. QED
  BY <1>1 DEF Says

LEMMA ToModelSays ==
    ASSUME TypeOK, NEW t \in Turns, NEW base \in Seq(Messages), ToModel(t, base)
    PROVE  /\ Says(t, base) /\ stage'[t] \in {"asked", "failed"}
           /\ \A u \in Turns \ {t} : stage'[u] = stage[u] /\ msgs'[u] = msgs[u]
<1>1. /\ stage'[t] \in {"asked", "failed"}
      /\ \A u \in Turns \ {t} : stage'[u] = stage[u] /\ msgs'[u] = msgs[u]
      /\ msgs'[t] = Append(base, Message("user", t, "ask", {})) \/ msgs'[t] = base
  BY DEF ToModel, TypeOK
<1>2. Says(t, base)
  BY <1>1, PlainTyped, SaysOne, SaysNothing
<1>. QED
  BY <1>1, <1>2

LEMMA ConsultSays ==
    ASSUME TypeOK, NEW t \in Turns, NEW base \in Seq(Messages), NEW named,
           Consult(t, base, named)
    PROVE  /\ Says(t, base) /\ stage'[t] \in {"asked", "failed", "reply"}
           /\ \A u \in Turns \ {t} : stage'[u] = stage[u] /\ msgs'[u] = msgs[u]
<1>1. CASE ToModel(t, base)
  BY <1>1, ToModelSays
<1>2. CASE /\ msgs' = [msgs EXCEPT ![t] = base \o
                <<Message("user", t, "ask", {}), Message("assistant", t, "prose", {})>>]
           /\ stage' = [stage EXCEPT ![t] = "reply"]
  <2>1. /\ msgs'[t] = base \o
                <<Message("user", t, "ask", {}), Message("assistant", t, "prose", {})>>
        /\ stage'[t] = "reply"
        /\ \A u \in Turns \ {t} : stage'[u] = stage[u] /\ msgs'[u] = msgs[u]
    BY <1>2 DEF TypeOK
  <2>. QED
    BY <2>1, SaysTwo
<1>. QED
  BY <1>1, <1>2 DEF Consult

\* The steps of the gate.
LEMMA GateSteps ==
    ASSUME TypeInv, NEW t \in Turns,
           Gate(t) \/ Command(t) \/ Clarified(t) \/ GateSaveFails(t)
    PROVE  MessageStep(t)
<1>. TypeOK /\ Loaded(t) \in Seq(Messages) /\ msgs[t] \in Seq(Messages)
  BY MergedTyped DEF TypeInv, TypeOK
<1>. USE DEF Asking, Over
<1>1. iteration' = iteration
  BY DEF Gate, Command, Clarified, GateSaveFails
<1>2. CASE Gate(t)
  <2>1. stage[t] = "begun"
    BY <1>2 DEF Gate
  <2>2. CASE Consult(t, Loaded(t), Merged(t))
    <3>1. /\ Says(t, Loaded(t)) /\ stage'[t] \in {"asked", "failed", "reply"}
          /\ \A u \in Turns \ {t} : stage'[u] = stage[u] /\ msgs'[u] = msgs[u]
      BY <2>2, ConsultSays
    <3>. QED
      BY <1>1, <2>1, <3>1 DEF MessageStep, Reads
  <2>3. CASE /\ msgs' = [msgs EXCEPT ![t] = Loaded(t)]
             /\ stage' = [stage EXCEPT ![t] = "clarify"]
    <3>1. /\ msgs'[t] = Loaded(t) /\ stage'[t] = "clarify"
          /\ \A u \in Turns \ {t} : stage'[u] = stage[u] /\ msgs'[u] = msgs[u]
      BY <2>3 DEF TypeOK
    <3>2. Says(t, Loaded(t))
      BY <3>1, SaysNothing
    <3>. QED
      BY <1>1, <2>1, <3>1, <3>2 DEF MessageStep, Reads
  <2>. QED
    BY <1>2, <2>2, <2>3 DEF Gate
<1>3. CASE Command(t)
  <2>1. /\ msgs'[t] = Loaded(t) /\ stage[t] = "begun" /\ stage'[t] = "reply"
        /\ \A u \in Turns \ {t} : stage'[u] = stage[u] /\ msgs'[u] = msgs[u]
    BY <1>3 DEF Command, Goes, TypeOK
  <2>2. Says(t, Loaded(t))
    BY <2>1, SaysNothing
  <2>. QED
    BY <1>1, <2>1, <2>2 DEF MessageStep, Reads
<1>4. CASE Clarified(t)
  <2>1. stage[t] = "clarify"
    BY <1>4 DEF Clarified
  <2>2. ASSUME NEW named, Consult(t, msgs[t], named) PROVE MessageStep(t)
    <3>1. /\ Says(t, msgs[t]) /\ stage'[t] \in {"asked", "failed", "reply"}
          /\ \A u \in Turns \ {t} : stage'[u] = stage[u] /\ msgs'[u] = msgs[u]
      BY <2>2, ConsultSays
    <3>. QED
      BY <1>1, <2>1, <3>1 DEF MessageStep, Talks
  <2>3. CASE /\ msgs' = [msgs EXCEPT ![t] = @ \o
                   <<Message("user", t, "ask", {}), Message("assistant", t, "prose", {})>>]
             /\ stage' = [stage EXCEPT ![t] = "reply"]
    <3>1. /\ msgs'[t] = msgs[t] \o
                   <<Message("user", t, "ask", {}), Message("assistant", t, "prose", {})>>
          /\ stage'[t] = "reply"
          /\ \A u \in Turns \ {t} : stage'[u] = stage[u] /\ msgs'[u] = msgs[u]
      BY <2>3 DEF TypeOK
    <3>2. Says(t, msgs[t])
      BY <3>1, SaysTwo
    <3>. QED
      BY <1>1, <2>1, <3>1, <3>2 DEF MessageStep, Talks
  <2>. QED
    BY <1>4, <2>2, <2>3 DEF Clarified
<1>5. CASE GateSaveFails(t)
  <2>1. CASE stage[t] = "begun" /\ ToModel(t, Loaded(t))
    <3>1. /\ Says(t, Loaded(t)) /\ stage'[t] \in {"asked", "failed"}
          /\ \A u \in Turns \ {t} : stage'[u] = stage[u] /\ msgs'[u] = msgs[u]
      BY <2>1, ToModelSays
    <3>. QED
      BY <1>1, <2>1, <3>1 DEF MessageStep, Reads
  <2>2. CASE stage[t] = "clarify" /\ ToModel(t, msgs[t])
    <3>1. /\ Says(t, msgs[t]) /\ stage'[t] \in {"asked", "failed"}
          /\ \A u \in Turns \ {t} : stage'[u] = stage[u] /\ msgs'[u] = msgs[u]
      BY <2>2, ToModelSays
    <3>. QED
      BY <1>1, <2>2, <3>1 DEF MessageStep, Talks
  <2>. QED
    BY <1>5, <2>1, <2>2 DEF GateSaveFails
<1>. QED
  BY <1>2, <1>3, <1>4, <1>5

\* The steps of the tool loop.
LEMMA LoopSteps ==
    ASSUME TypeInv, NEW t \in Turns,
           \/ LlmCalls(t) \/ LlmAnswers(t) \/ StartTools(t) \/ SqlDone(t) \/ ChartDone(t)
           \/ ToolFails(t) \/ AfterTool(t)
    PROVE  MessageStep(t)
<1>. TypeOK /\ msgs[t] \in Seq(Messages)
  BY DEF TypeInv, TypeOK
<1>1. CASE LlmCalls(t)
  <2>1. PICK list \in ToolCalls, kind \in {"", "prose"} :
          /\ msgs' = [msgs EXCEPT ![t] = Append(@,
                Message("assistant", t, kind, CallIds(t, iteration'[t], list)))]
          /\ stage' = [stage EXCEPT ![t] = IF kind = "" THEN "tool" ELSE "calling"]
    BY <1>1 DEF LlmCalls
  <2>2. /\ msgs'[t] = Append(msgs[t], Calling(t, iteration'[t], kind, list))
        /\ stage[t] = "llm" /\ stage'[t] \in AtTools
        /\ \A u \in Turns \ {t} : stage'[u] = stage[u] /\ msgs'[u] = msgs[u]
    BY <1>1, <2>1 DEF LlmCalls, TypeOK, Calling, AtTools
  <2>3. /\ iteration'[t] \in Nat
        /\ \A u \in Turns \ {t} : iteration'[u] = iteration[u]
    BY <1>1, IterationGrows DEF LlmCalls
  <2>4. list \in Seq({"run_sql", "visualize_data"})
    BY CallsAssumption
  <2>. QED
    BY <2>2, <2>3, <2>4 DEF MessageStep, Calls
<1>2. CASE LlmAnswers(t)
  <2>1. PICK kind \in {"", "prose", "fallback"} :
          msgs' = [msgs EXCEPT ![t] =
             IF kind = "" THEN @ ELSE Append(@, Message("assistant", t, kind, {}))]
    BY <1>2 DEF LlmAnswers
  <2>2. /\ stage[t] = "llm" /\ stage'[t] = "closing"
        /\ msgs'[t] = IF kind = "" THEN msgs[t]
                      ELSE Append(msgs[t], Message("assistant", t, kind, {}))
        /\ \A u \in Turns \ {t} : /\ stage'[u] = stage[u] /\ msgs'[u] = msgs[u]
                                  /\ iteration'[u] = iteration[u]
    BY <1>2, <2>1 DEF LlmAnswers, Goes, TypeOK
  <2>3. Says(t, msgs[t])
    BY <2>2, PlainTyped, SaysOne, SaysNothing
  <2>. QED
    BY <2>2, <2>3 DEF MessageStep, Talks, Asking
<1>3. CASE StartTools(t) \/ SqlDone(t) \/ ChartDone(t)
  <2>1. /\ stage[t] \in AtTools /\ stage'[t] \in AtTools
        /\ msgs' = msgs /\ iteration' = iteration
        /\ \A u \in Turns \ {t} : stage'[u] = stage[u]
    BY <1>3 DEF StartTools, SqlDone, ChartDone, Goes, TypeOK, AtTools
  <2>. QED
    BY <2>1 DEF MessageStep, Works
<1>4. CASE ToolFails(t) \/ AfterTool(t)
  <2>1. PICK rest : Proceed(t, rest)
    BY <1>4 DEF ToolFails, AfterTool
  <2>2. stage[t] \in AtTools /\ iteration' = iteration
    BY <1>4 DEF ToolFails, AfterTool, AtTools
  <2>3. CASE rest # <<>>
    <3>1. /\ stage'[t] = "tool" /\ msgs' = msgs
          /\ \A u \in Turns \ {t} : stage'[u] = stage[u]
      BY <2>1, <2>3 DEF Proceed, TypeOK
    <3>. QED
      BY <2>2, <3>1 DEF MessageStep, Works, AtTools
  <2>4. CASE rest = <<>>
    <3>1. msgs' = [msgs EXCEPT ![t] = msgs[t] \o Answers(t, iteration[t], Last(msgs[t]).calls)]
      BY <2>1, <2>4 DEF Proceed, Answers
    <3>2. stage' = [stage EXCEPT ![t] = IF iteration[t] < MaxToolIterations THEN "llm" ELSE "closing"]
      BY <2>1, <2>4 DEF Proceed
    <3>3. /\ msgs'[t] = msgs[t] \o Answers(t, iteration[t], Last(msgs[t]).calls)
          /\ stage'[t] \in {"llm", "closing"}
          /\ \A u \in Turns \ {t} : stage'[u] = stage[u] /\ msgs'[u] = msgs[u]
      BY <3>1, <3>2 DEF TypeOK
    <3>. QED
      BY <2>2, <3>3 DEF MessageStep, Returns
  <2>. QED
    BY <2>3, <2>4
<1>. QED
  BY <1>1, <1>2, <1>3, <1>4

\* The others.
LEMMA OtherSteps ==
    ASSUME TypeInv, NEW t \in Turns,
           \/ Begin(t) \/ Reply(t) \/ ReplySaveFails(t) \/ Request(t) \/ LlmFails(t)
           \/ Close(t) \/ CloseSaveFails(t) \/ EndFailed(t) \/ Disconnect(t)
    PROVE  MessageStep(t)
<1>. TypeOK /\ msgs[t] \in Seq(Messages)
  BY DEF TypeInv, TypeOK
<1>1. CASE Begin(t)
  BY <1>1 DEF Begin, Goes, TypeOK, MessageStep, Opens
<1>2. CASE Request(t)
  <2>1. /\ stage[t] = "asked" /\ stage'[t] = "llm" /\ msgs' = msgs /\ iteration' = iteration
        /\ \A u \in Turns \ {t} : stage'[u] = stage[u]
    BY <1>2 DEF Request, Goes, TypeOK
  <2>2. Says(t, msgs[t])
    BY <2>1, SaysNothing
  <2>. QED
    BY <2>1, <2>2 DEF MessageStep, Talks, Asking
<1>3. CASE Reply(t) \/ LlmFails(t) \/ Close(t) \/ CloseSaveFails(t) \/ EndFailed(t) \/ Disconnect(t)
  <2>1. /\ stage'[t] \in Over /\ msgs' = msgs /\ iteration' = iteration
        /\ \A u \in Turns \ {t} : stage'[u] = stage[u]
    BY <1>3 DEF Reply, LlmFails, Close, CloseSaveFails, EndFailed, Disconnect, Goes, TypeOK, Over
  <2>. QED
    BY <2>1 DEF MessageStep, Stops
<1>4. CASE ReplySaveFails(t)
  <2>1. /\ stage[t] = "reply" /\ stage'[t] \in {"asked", "failed"} /\ iteration' = iteration
        /\ msgs'[t] = Append(msgs[t], Message("user", t, "ask", {})) \/ msgs'[t] = msgs[t]
        /\ \A u \in Turns \ {t} : stage'[u] = stage[u] /\ msgs'[u] = msgs[u]
    BY <1>4 DEF ReplySaveFails, TypeOK
  <2>2. Says(t, msgs[t])
    BY <2>1, PlainTyped, SaysOne, SaysNothing
  <2>. QED
    BY <2>1, <2>2 DEF MessageStep, Talks, Asking, Over
<1>. QED
  BY <1>1, <1>2, <1>3, <1>4

LEMMA MessageSteps ==
    ASSUME TypeInv, NEW t \in Turns, Begin(t) \/ Advance(t) \/ Disconnect(t)
    PROVE  MessageStep(t) /\ conv' = conv
<1>1. MessageStep(t)
  BY GateSteps, LoopSteps, OtherSteps DEF Advance
<1>2. conv' = conv
  BY DEF Begin, Advance, Disconnect, Gate, Command, Clarified, GateSaveFails, Reply,
         ReplySaveFails, Request, LlmCalls, LlmAnswers, LlmFails, StartTools, SqlDone,
         ChartDone, ToolFails, AfterTool, Close, CloseSaveFails, EndFailed, request
<1>. QED
  BY <1>1, <1>2

Written(t) == {m \in Messages : m.by = t}

\* Only t writes to its conversation in memory, behind what it has or has read.
LEMMA StepWrites ==
    ASSUME TypeInv, NEW t \in Turns, MessageStep(t)
    PROVE  \E base \in {msgs[t], Loaded(t)}, more \in Seq(Written(t)) : msgs'[t] = base \o more
<1>. TypeOK /\ msgs[t] \in Seq(Messages) /\ <<>> \in Seq(Written(t))
  BY EmptySeq DEF TypeInv, TypeOK
<1>1. CASE Reads(t) \/ Talks(t)
  <2>1. Plain(t) \subseteq Written(t)
    BY DEF Plain, Written
  <2>2. Seq(Plain(t)) \subseteq Seq(Written(t))
    BY <2>1
  <2>. QED
    BY <1>1, <2>2 DEF Reads, Talks, Says
<1>2. CASE Opens(t) \/ Works(t) \/ Stops(t)
  <2>1. msgs[t] \o <<>> = msgs[t]
    BY ConcatEmptySeq
  <2>. QED
    BY <1>2, <2>1 DEF Opens, Works, Stops
<1>3. CASE Calls(t)
  <2>1. PICK kind \in {"", "prose"}, list \in Seq({"run_sql", "visualize_data"}) :
            msgs'[t] = Append(msgs[t], Calling(t, iteration'[t], kind, list))
    BY <1>3 DEF Calls
  <2> DEFINE m == Calling(t, iteration'[t], kind, list)
  <2>2. CallIds(t, iteration'[t], list) \in CallSets
    BY <1>3, CallIdsTyped DEF Calls
  <2>3. m \in Messages /\ m.by = t
    BY <2>2, MessageTyped DEF Calling, Message
  <2>4. <<m>> \in Seq(Written(t))
    <3>. HIDE DEF m
    <3>1. m \in Written(t)
      BY <2>3 DEF Written
    <3>. QED
      BY <3>1, OneElement, Zenon
  <2>5. msgs'[t] = msgs[t] \o <<m>>
    <3>. HIDE DEF m
    <3>. QED
      BY <2>1, <2>3, AppendIsConcat DEF m
  <2>. QED
    BY <2>4, <2>5
<1>4. CASE Returns(t)
  <2> DEFINE calls == Last(msgs[t]).calls
             answers == Answers(t, iteration[t], calls)
  <2>1. msgs[t] # <<>> /\ iteration[t] \in Nat
    BY <1>4, IterationTyped DEF Returns, AtTools, TypeInv, LoopInv
  <2>2. calls \in CallSets
    <3>1. msgs[t] \in Seq(Messages)
      OBVIOUS
    <3>2. Last(msgs[t]) \in Messages
      BY <2>1, <3>1 DEF Last
    <3>. QED
      BY <3>2 DEF Messages
  <2>3. /\ Cardinality(calls) \in Nat
        /\ answers \in Seq(Messages) /\ Len(answers) = Cardinality(calls)
        /\ \A i \in 1..Cardinality(calls) :
               answers[i] = Message("tool", t, "result", {<<t, iteration[t], i>>})
    BY <2>1, <2>2, AnswersForm
  <2>. HIDE DEF calls, answers
  <2>4. \A i \in 1..Len(answers) : answers[i].by = t
    BY <2>3 DEF Message
  <2>5. \A i \in 1..Len(answers) : answers[i] \in Written(t)
    BY <2>3, <2>4, ElementOfSeq DEF Written
  <2>6. answers \in Seq(Written(t))
    BY <2>3, <2>5
  <2>. QED
    BY <1>4, <2>6 DEF Returns, calls, answers
<1>. QED
  BY <1>1, <1>2, <1>3, <1>4 DEF MessageStep
------------------------------------------------------------------------------
(***************************************************************************)
(* Calls are answered                                                      *)
(***************************************************************************)

\* Until t reads its conversation, nothing anywhere is of its writing; so what it
\* has written is its own list, in which all calls but those it is at are answered.
TurnCalls(t) ==
    /\ stage[t] \in Unread => /\ \A c \in Convs : Foreign(t, disk[c])
                              /\ \A u \in Turns : Foreign(t, msgs[u])
    /\ stage[t] \in Asking \cup {"closing"} => Answered(t, msgs[t])
    /\ stage[t] \in AtTools =>
           \E s \in Seq(Messages), kind \in {"", "prose"},
              list \in Seq({"run_sql", "visualize_data"}) :
                 Answered(t, s) /\ msgs[t] = Append(s, Calling(t, iteration[t], kind, list))

CallsInv == \A t \in Turns : TurnCalls(t)

LEMMA ForeignJoined ==
    ASSUME NEW t \in Turns, NEW u \in Turns, u # t, NEW s \in Seq(Messages), Foreign(t, s),
           NEW more \in Seq(Written(u))
    PROVE  Foreign(t, s \o more)
<1>1. more \in Seq(Messages)
  <2>1. Written(u) \subseteq Messages
    BY DEF Written
  <2>. QED
    BY <2>1
<1>2. \A k \in 1..Len(more) : more[k].by # t
  BY ElementOfSeq DEF Written
<1>3. ASSUME NEW i \in 1..Len(s \o more) PROVE (s \o more)[i].by # t
  <2>1. CASE i \in 1..Len(s)
    BY <1>1, <2>1, Joined DEF Foreign
  <2>2. ASSUME NEW k \in 1..Len(more), i = Len(s) + k PROVE (s \o more)[i].by # t
    BY <1>1, <1>2, <2>2, Joined
  <2>. QED
    BY <1>1, <2>1, <2>2, Joined
<1>. QED
  BY <1>3 DEF Foreign

\* A save, cut off or not.
AnySave(t) == Saves(t) \/ SavesPartly(t) \/ SavesPartlyTwice(t)

LEMMA ForeignSaved ==
    ASSUME TypeOK, NEW t, NEW u \in Turns, AnySave(u),
           Foreign(t, msgs[u]), \A c \in Convs : Foreign(t, disk[c])
    PROVE  \A c \in Convs : Foreign(t, disk'[c])
<1>1. CASE disk' = disk
  BY <1>1
<1>2. ASSUME NEW n \in 0..Len(msgs[u]),
             disk' = [disk EXCEPT ![conv[u]] = SavedUpTo(conv[u], msgs[u], n)]
      PROVE  \A c \in Convs : Foreign(t, disk'[c])
  <2> DEFINE stored == disk[conv[u]]
             new == SubSeq(msgs[u], Len(stored) + 1, n)
  <2>1. stored \in Seq(Messages) /\ msgs[u] \in Seq(Messages)
        /\ Len(stored) \in Nat /\ Len(msgs[u]) \in Nat
    BY LenProperties DEF TypeOK
  <2>2. \A i \in (Len(stored) + 1)..n : msgs[u][i] \in Messages
    BY <2>1
  <2> DEFINE from == Len(stored) + 1
  <2>3. /\ SubSeq(msgs[u], from, n) \in Seq(Messages)
        /\ Len(SubSeq(msgs[u], from, n)) = IF from <= n THEN n - from + 1 ELSE 0
        /\ \A i \in 1..(n - from + 1) : SubSeq(msgs[u], from, n)[i] = msgs[u][from + i - 1]
    <3>1. from \in Int /\ n \in Int
      BY <2>1
    <3>2. \A i \in from..n : msgs[u][i] \in Messages
      BY <2>2
    <3>. HIDE DEF from
    <3>. QED
      BY <3>1, <3>2, SubSeqProperties
  <2>4. \A k \in 1..Len(new) : new[k].by # t
    <3> SUFFICES ASSUME NEW k \in 1..Len(new) PROVE new[k].by # t
      OBVIOUS
    <3>1. /\ k \in 1..(n - from + 1) /\ from + k - 1 \in 1..Len(msgs[u])
      BY <2>1, <2>3
    <3>2. new[k] = msgs[u][from + k - 1]
      BY <2>3, <3>1
    <3>. QED
      BY <3>1, <3>2 DEF Foreign
  <2>5. new \in Seq(Messages)
    BY <2>3
  <2>. HIDE DEF stored, new
  <2>6. /\ Len(stored \o new) = Len(stored) + Len(new)
        /\ \A i \in 1..Len(stored) : (stored \o new)[i] = stored[i]
        /\ \A i \in 1..Len(new) : (stored \o new)[Len(stored) + i] = new[i]
        /\ \A i \in 1..Len(stored \o new) :
                 i \in 1..Len(stored) \/ \E k \in 1..Len(new) : i = Len(stored) + k
    BY <2>1, <2>5, Joined
  <2>7. Foreign(t, stored)
    BY DEF TypeOK, stored
  <2>8. Foreign(t, stored \o new)
    BY <2>4, <2>6, <2>7 DEF Foreign
  <2>9. disk' = [disk EXCEPT ![conv[u]] = stored \o new]
    BY <1>2 DEF SavedUpTo, stored, new
  <2>. QED
    BY <2>8, <2>9 DEF TypeOK
<1>. QED
  BY <1>1, <1>2, SavesForm DEF AnySave

\* What a step stores was in the memory of some turn.
LEMMA Stores ==
    ASSUME Next
    PROVE  disk' = disk \/ \E t \in Turns : AnySave(t)
<1>1. CASE Restart
  BY <1>1 DEF Restart, AnySave
<1>2. ASSUME NEW t \in Turns, Reply(t) \/ ReplySaveFails(t) \/ Close(t) \/ CloseSaveFails(t)
      PROVE  AnySave(t)
  BY <1>2 DEF Reply, ReplySaveFails, Close, CloseSaveFails, AnySave
<1>3. ASSUME NEW t \in Turns,
             \/ Gate(t) \/ Command(t) \/ Clarified(t) \/ GateSaveFails(t) \/ Begin(t)
             \/ Request(t) \/ LlmCalls(t) \/ LlmAnswers(t) \/ LlmFails(t) \/ StartTools(t)
             \/ SqlDone(t) \/ ChartDone(t) \/ ToolFails(t) \/ AfterTool(t) \/ EndFailed(t)
             \/ Disconnect(t)
      PROVE  disk' = disk
  BY <1>3 DEF Gate, Command, Clarified, GateSaveFails, Begin, Request, LlmCalls, LlmAnswers,
              LlmFails, StartTools, SqlDone, ChartDone, ToolFails, AfterTool, EndFailed,
              Disconnect, shared
<1>. QED
  BY <1>1, <1>2, <1>3 DEF Next, Advance

LEMMA CallsInit == Init => CallsInv
  BY DEF Init, CallsInv, TurnCalls, Foreign, Unread, Asking, AtTools

\* A turn that another one's step leaves alone.
LEMMA CallsOther ==
    ASSUME TypeInv, CallsInv, NEW t \in Turns, MessageStep(t),
           disk' = disk \/ \E u \in Turns : AnySave(u),
           NEW v \in Turns, v # t
    PROVE  TurnCalls(v)'
<1>1. /\ stage'[v] = stage[v] /\ msgs'[v] = msgs[v] /\ iteration'[v] = iteration[v]
      /\ \A u \in Turns \ {t} : msgs'[u] = msgs[u]
  BY DEF MessageStep
<1>2. ASSUME stage[v] \in Unread
      PROVE  /\ \A c \in Convs : Foreign(v, disk'[c])
             /\ \A u \in Turns : Foreign(v, msgs'[u])
  <2>1. /\ \A c \in Convs : Foreign(v, disk[c])
        /\ \A u \in Turns : Foreign(v, msgs[u])
    BY <1>2 DEF CallsInv, TurnCalls
  <2>2. \A c \in Convs : Foreign(v, disk'[c])
    BY <2>1, ForeignSaved DEF TypeInv
  <2>3. PICK base \in {msgs[t], Loaded(t)}, more \in Seq(Written(t)) : msgs'[t] = base \o more
    BY StepWrites
  <2>4. base \in Seq(Messages) /\ Foreign(v, base)
    <3>1. msgs[t] \in Seq(Messages) /\ Loaded(t) \in Seq(Messages) /\ conv[t] \in Convs
      BY MergedTyped DEF TypeInv, TypeOK
    <3>2. Foreign(v, <<>>)
      BY DEF Foreign
    <3>3. Foreign(v, Loaded(t))
      BY <2>1, <3>1, <3>2 DEF Loaded
    <3>. QED
      BY <2>1, <3>1, <3>3
  <2>5. Foreign(v, msgs'[t])
    BY <2>3, <2>4, ForeignJoined
  <2>. QED
    BY <1>1, <2>1, <2>2, <2>5
<1>. QED
  BY <1>1, <1>2 DEF CallsInv, TurnCalls

\* The turn that makes the step.
LEMMA CallsOwn ==
    ASSUME TypeInv, CallsInv, NEW t \in Turns, MessageStep(t),
           stage'[t] \in Unread => disk' = disk
    PROVE  TurnCalls(t)'
<1>. USE DEF Unread, Asking, AtTools, Over
<1>. TurnCalls(t) /\ TypeOK /\ msgs[t] \in Seq(Messages)
  BY DEF CallsInv, TypeInv, TypeOK
<1>1. CASE Opens(t)
  <2>1. \A u \in Turns : msgs'[u] = msgs[u]
    BY <1>1 DEF Opens, MessageStep
  <2>2. stage[t] = "new" /\ stage'[t] = "begun" /\ disk' = disk
    BY <1>1 DEF Opens
  <2>. QED
    BY <2>1, <2>2 DEF TurnCalls
<1>2. CASE Reads(t)
  <2>1. PICK more \in Seq(Plain(t)) : msgs'[t] = Loaded(t) \o more
    BY <1>2 DEF Reads, Says
  <2>2. Foreign(t, Loaded(t)) /\ Loaded(t) \in Seq(Messages)
    <3>1. Foreign(t, <<>>)
      BY DEF Foreign
    <3>2. Foreign(t, disk[conv[t]])
      BY <1>2 DEF Reads, TurnCalls, TypeOK
    <3>. QED
      BY <3>1, <3>2, MergedTyped DEF Loaded
  <2>3. Answered(t, msgs'[t])
    BY <2>1, <2>2, ForeignAnswered, AnsweredPlain
  <2>. QED
    BY <1>2, <2>3 DEF Reads, TurnCalls
<1>3. CASE Talks(t)
  <2>1. PICK more \in Seq(Plain(t)) : msgs'[t] = msgs[t] \o more
    BY <1>3 DEF Talks, Says
  <2>2. Answered(t, msgs'[t])
    BY <1>3, <2>1, AnsweredPlain DEF Talks, TurnCalls
  <2>. QED
    BY <1>3, <2>2 DEF Talks, TurnCalls
<1>4. CASE Calls(t)
  <2>1. Answered(t, msgs[t])
    BY <1>4 DEF Calls, TurnCalls
  <2>. QED
    BY <1>4, <2>1 DEF Calls, TurnCalls
<1>5. CASE Works(t)
  BY <1>5 DEF Works, TurnCalls
<1>6. CASE Returns(t)
  <2>1. PICK s \in Seq(Messages), kind \in {"", "prose"},
             list \in Seq({"run_sql", "visualize_data"}) :
                 Answered(t, s) /\ msgs[t] = Append(s, Calling(t, iteration[t], kind, list))
    BY <1>6 DEF Returns, TurnCalls
  <2>2. iteration[t] \in Nat
    BY IterationTyped
  <2>3. Last(msgs[t]).calls = CallIds(t, iteration[t], list)
    <3>1. CallIds(t, iteration[t], list) \in CallSets
      BY <2>2, CallIdsTyped
    <3>2. Calling(t, iteration[t], kind, list) \in Messages
      BY <3>1, MessageTyped DEF Calling
    <3>3. Last(msgs[t]) = Calling(t, iteration[t], kind, list)
      BY <2>1, <3>2, LastOfAppend
    <3>4. Calling(t, iteration[t], kind, list).calls = CallIds(t, iteration[t], list)
      BY DEF Calling, Message
    <3>. QED
      BY <3>3, <3>4, Zenon
  <2>4. Answered(t, msgs'[t])
    BY <1>6, <2>1, <2>2, <2>3, AnsweredCalls DEF Returns
  <2>. QED
    BY <1>6, <2>4 DEF Returns, TurnCalls
<1>7. CASE Stops(t)
  BY <1>7 DEF Stops, TurnCalls
<1>. QED
  BY <1>1, <1>2, <1>3, <1>4, <1>5, <1>6, <1>7 DEF MessageStep

LEMMA CallsStep ==
    ASSUME TypeInv, CallsInv, [Next]_vars
    PROVE  CallsInv'
<1>1. CASE UNCHANGED vars
  BY <1>1 DEF vars, CallsInv, TurnCalls
<1>2. CASE Restart
  <2>1. TypeOK /\ msgs' = msgs /\ iteration' = iteration
    BY <1>2 DEF Restart, TypeInv
  <2>2. \A t \in Turns : stage'[t] = stage[t] \/ stage'[t] \in Over
    BY <1>2 DEF Restart, Over
  <2>3. disk' = disk \/ \E t \in Turns : AnySave(t)
    BY <1>2, Stores DEF Next
  <2>4. ASSUME NEW t \in Turns, stage[t] \in Unread
        PROVE  \A c \in Convs : Foreign(t, disk'[c])
    BY <2>1, <2>3, <2>4, ForeignSaved DEF CallsInv, TurnCalls
  <2>5. ASSUME NEW t \in Turns PROVE TurnCalls(t)'
    BY <2>1, <2>2, <2>4 DEF CallsInv, TurnCalls, Unread, Asking, AtTools, Over
  <2>. QED
    BY <2>5 DEF CallsInv
<1>3. ASSUME NEW t \in Turns, Begin(t) \/ Advance(t) \/ Disconnect(t)
      PROVE  CallsInv'
  <2>1. MessageStep(t)
    BY <1>3, MessageSteps
  <2>2. disk' = disk \/ \E u \in Turns : AnySave(u)
    BY <1>3, Stores DEF Next
  <2>3. stage'[t] \in Unread => disk' = disk
    <3>1. stage'[t] \in Unread => Opens(t)
      BY <2>1 DEF MessageStep, Reads, Talks, Calls, Works, Returns, Stops, Unread, Asking,
                  AtTools, Over
    <3>2. stage[t] = "new" => ~Advance(t)
      BY DEF Advance, Gate, Command, Clarified, GateSaveFails, Reply, ReplySaveFails, Request,
             LlmCalls, LlmAnswers, LlmFails, StartTools, SqlDone, ChartDone, ToolFails,
             AfterTool, Close, CloseSaveFails, EndFailed, Goes
    <3>3. Begin(t) \/ Disconnect(t) => disk' = disk
      BY DEF Begin, Disconnect, shared
    <3>. QED
      BY <1>3, <3>1, <3>2, <3>3 DEF Opens
  <2>. QED
    BY <2>1, <2>2, <2>3, CallsOther, CallsOwn DEF CallsInv
<1>. QED
  BY <1>1, <1>2, <1>3 DEF Next

\* agent.py:1001: the results of a response's tool calls are added together, one for
\* each call and failed ones included, before the model is asked again or the turn
\* closes at the tool limit; other turns of
\* the conversation, failures and restarts change nothing about that.
THEOREM CallsAreAnswered == Spec => []CallsAnswered
<1>1. CallsInv => CallsAnswered
  BY DEF CallsInv, TurnCalls, Asking, Answered, AnsweredAt, CallsAnswered
<1>2. TypeInv /\ CallsInv /\ [Next]_vars => CallsInv'
  BY CallsStep
<1>. QED
  BY <1>1, <1>2, CallsInit, TypeInvariance, PTL DEF Spec
------------------------------------------------------------------------------
(***************************************************************************)
(* Prefixes and well-formed lists                                          *)
(***************************************************************************)

LEMMA PrefixByElements ==
    ASSUME NEW s \in Seq(Messages), NEW u \in Seq(Messages)
    PROVE  IsPrefix(s, u) <=> /\ Len(s) <= Len(u)
                              /\ \A i \in 1..Len(s) : s[i] = u[i]
<1>1. Len(s) \in Nat /\ Len(u) \in Nat /\ SubSeq(s, 1, Len(s)) = s
  BY LenProperties, SubSeqFull
<1>2. ASSUME Len(s) <= Len(u)
      PROVE  /\ SubSeq(u, 1, Len(s)) \in Seq(Messages)
             /\ Len(SubSeq(u, 1, Len(s))) = Len(s)
             /\ \A i \in 1..Len(s) : SubSeq(u, 1, Len(s))[i] = u[i]
  <2>1. \A i \in 1..Len(s) : u[i] \in Messages
    BY <1>1, <1>2, ElementOfSeq
  <2>2. /\ SubSeq(u, 1, Len(s)) \in Seq(Messages)
        /\ Len(SubSeq(u, 1, Len(s))) = IF 1 <= Len(s) THEN Len(s) - 1 + 1 ELSE 0
        /\ \A i \in 1..(Len(s) - 1 + 1) : SubSeq(u, 1, Len(s))[i] = u[1 + i - 1]
    BY <1>1, <2>1, SubSeqProperties
  <2>. QED
    BY <1>1, <2>2
<1>3. ASSUME Len(s) <= Len(u)
      PROVE  s = SubSeq(u, 1, Len(s)) <=> \A i \in 1..Len(s) : s[i] = u[i]
  <2> DEFINE head == SubSeq(u, 1, Len(s))
  <2>1. /\ head \in Seq(Messages) /\ Len(head) = Len(s)
        /\ \A i \in 1..Len(s) : head[i] = u[i]
    BY <1>2, <1>3
  <2>. HIDE DEF head
  <2>2. s = head <=> \A i \in 1..Len(s) : s[i] = head[i]
    BY <2>1, SeqEqual
  <2>3. s = head <=> \A i \in 1..Len(s) : s[i] = u[i]
    BY <2>1, <2>2
  <2>. QED
    BY <2>3 DEF head
<1>. QED
  BY <1>1, <1>3 DEF IsPrefix

LEMMA PrefixTransitive ==
    ASSUME NEW s \in Seq(Messages), NEW u \in Seq(Messages), NEW v \in Seq(Messages),
           IsPrefix(s, u), IsPrefix(u, v)
    PROVE  IsPrefix(s, v)
<1>1. Len(s) \in Nat /\ Len(u) \in Nat /\ Len(v) \in Nat
  BY LenProperties
<1>2. /\ Len(s) <= Len(u) /\ \A i \in 1..Len(s) : s[i] = u[i]
      /\ Len(u) <= Len(v) /\ \A i \in 1..Len(u) : u[i] = v[i]
  BY PrefixByElements
<1>3. Len(s) <= Len(v) /\ \A i \in 1..Len(s) : s[i] = v[i]
  BY <1>1, <1>2
<1>. QED
  BY <1>3, PrefixByElements

\* The message at i, if it answers calls, follows the message that makes them.
Follows(messages, i) ==
    messages[i].role = "tool" =>
        \E j \in 1..(i - 1) :
            /\ messages[j].role = "assistant"
            /\ messages[i].calls \subseteq messages[j].calls
            /\ \A k \in (j + 1)..(i - 1) : messages[k].role = "tool"

LEMMA ByFollows ==
    ASSUME NEW s
    PROVE  WellFormed(s) <=> \A i \in 1..Len(s) : Follows(s, i)
  BY DEF WellFormed, Follows

LEMMA FollowsAlike ==
    ASSUME NEW s, NEW u, NEW n \in Nat, \A k \in 1..n : s[k] = u[k], NEW i \in 1..n
    PROVE  Follows(s, i) <=> Follows(u, i)
<1>1. s[i] = u[i]
  OBVIOUS
<1>2. \A j \in 1..(i - 1) : s[j] = u[j]
  OBVIOUS
<1>3. \A j \in 1..(i - 1) : \A k \in (j + 1)..(i - 1) : s[k] = u[k]
  OBVIOUS
<1>. QED
  BY <1>1, <1>2, <1>3 DEF Follows

LEMMA WellFormedPrefix ==
    ASSUME NEW s \in Seq(Messages), NEW u \in Seq(Messages), IsPrefix(s, u), WellFormed(u)
    PROVE  WellFormed(s)
<1>1. Len(s) \in Nat /\ Len(u) \in Nat
  BY LenProperties
<1>2. Len(s) <= Len(u) /\ \A i \in 1..Len(s) : s[i] = u[i]
  BY PrefixByElements
<1>3. ASSUME NEW i \in 1..Len(s) PROVE Follows(s, i)
  <2>1. i \in 1..Len(u)
    BY <1>1, <1>2
  <2>2. Follows(u, i)
    BY <2>1, ByFollows
  <2>. QED
    BY <1>1, <1>2, <2>2, FollowsAlike
<1>. QED
  BY <1>3, ByFollows

\* What is added behind a well-formed list need only look at itself.
LEMMA WellFormedJoined ==
    ASSUME NEW s \in Seq(Messages), NEW more \in Seq(Messages), WellFormed(s),
           \A k \in 1..Len(more) : Follows(s \o more, Len(s) + k)
    PROVE  WellFormed(s \o more)
<1>1. Len(s) \in Nat /\ \A i \in 1..Len(s) : (s \o more)[i] = s[i]
  BY Joined
<1>2. ASSUME NEW i \in 1..Len(s) PROVE Follows(s \o more, i)
  <2>1. Follows(s, i)
    BY ByFollows
  <2>. QED
    BY <1>1, <2>1, FollowsAlike
<1>3. \A i \in 1..Len(s \o more) :
          i \in 1..Len(s) \/ \E k \in 1..Len(more) : i = Len(s) + k
  BY Joined
<1>. QED
  BY <1>2, <1>3, ByFollows

LEMMA WellFormedPlain ==
    ASSUME NEW t \in Turns, NEW s \in Seq(Messages), NEW more \in Seq(Messages),
           WellFormed(s), \A k \in 1..Len(more) : more[k].role # "tool"
    PROVE  WellFormed(s \o more)
<1>1. \A k \in 1..Len(more) : (s \o more)[Len(s) + k] = more[k]
  BY Joined
<1>2. \A k \in 1..Len(more) : Follows(s \o more, Len(s) + k)
  BY <1>1, Zenon DEF Follows
<1>. QED
  BY <1>2, WellFormedJoined

\* Answers right behind the message that calls.
LEMMA WellFormedAnswers ==
    ASSUME NEW s \in Seq(Messages), NEW call \in Messages, NEW answers \in Seq(Messages),
           WellFormed(Append(s, call)), call.role = "assistant",
           \A i \in 1..Len(answers) : /\ answers[i].role = "tool"
                                     /\ answers[i].calls \subseteq call.calls
    PROVE  WellFormed(Append(s, call) \o answers)
<1>1. PICK all : all = Append(s, call) \o answers
  OBVIOUS
<1>2. Grown(all, s, call, answers)
  BY <1>1, CallAndAnswers
<1>3. Append(s, call) \in Seq(Messages) /\ Len(Append(s, call)) = Len(s) + 1 /\ Len(s) \in Nat
  BY AppendProperties, LenProperties
<1>4. ASSUME NEW k \in 1..Len(answers) PROVE Follows(all, Len(s) + 1 + k)
  <2> DEFINE i == Len(s) + 1 + k
             j == Len(s) + 1
  <2>1. /\ all[i] = answers[k] /\ all[j] = call
        /\ j \in 1..(i - 1)
    BY <1>2, <1>3 DEF Grown
  <2>2. ASSUME NEW m \in (j + 1)..(i - 1) PROVE all[m].role = "tool"
    <3>1. m - j \in 1..Len(answers) /\ m = Len(s) + 1 + (m - j)
      BY <1>2, <1>3 DEF Grown
    <3>2. all[m] = answers[m - j]
      BY <1>2, <3>1 DEF Grown
    <3>. QED
      BY <3>1, <3>2
  <2>3. /\ all[j].role = "assistant"
        /\ all[i].calls \subseteq all[j].calls
    BY <2>1
  <2>. HIDE DEF i, j
  <2>4. Follows(all, i)
    BY <2>1, <2>2, <2>3 DEF Follows
  <2>. QED
    BY <2>4 DEF i
<1>5. \A k \in 1..Len(answers) : Follows(Append(s, call) \o answers, Len(Append(s, call)) + k)
  BY <1>1, <1>3, <1>4
<1>. QED
  BY <1>3, <1>5, WellFormedJoined

\* What is stored after a save up to the n-th of a list that continues it.
LEMMA SavedPrefix ==
    ASSUME TypeOK, NEW c \in Convs, NEW ms \in Seq(Messages), IsPrefix(disk[c], ms),
           NEW n \in 0..Len(ms)
    PROVE  /\ SavedUpTo(c, ms, n) \in Seq(Messages)
           /\ IsPrefix(SavedUpTo(c, ms, n), ms)
           /\ n = Len(ms) => SavedUpTo(c, ms, n) = ms
<1> DEFINE stored == disk[c]
           from == Len(stored) + 1
           new == SubSeq(ms, from, n)
<1>1. stored \in Seq(Messages) /\ Len(stored) \in Nat /\ Len(ms) \in Nat
  BY LenProperties DEF TypeOK
<1>2. Len(stored) <= Len(ms) /\ \A i \in 1..Len(stored) : stored[i] = ms[i]
  BY <1>1, PrefixByElements
<1>3. /\ new \in Seq(Messages)
      /\ Len(new) = IF from <= n THEN n - from + 1 ELSE 0
      /\ \A i \in 1..(n - from + 1) : new[i] = ms[from + i - 1]
  <2>1. from \in Int /\ n \in Int
    BY <1>1
  <2>2. \A i \in from..n : ms[i] \in Messages
    BY <1>1
  <2>. HIDE DEF from
  <2>. QED
    BY <2>1, <2>2, SubSeqProperties
<1>4. \A k \in 1..Len(new) : new[k] = ms[Len(stored) + k]
  <2> SUFFICES ASSUME NEW k \in 1..Len(new) PROVE new[k] = ms[Len(stored) + k]
    OBVIOUS
  <2>1. k \in 1..(n - from + 1) /\ from + k - 1 = Len(stored) + k
    BY <1>1, <1>3
  <2>. QED
    BY <1>3, <2>1
<1>5. SavedUpTo(c, ms, n) = stored \o new
  BY DEF SavedUpTo
<1>. HIDE DEF stored, new
<1>6. Len(stored) + Len(new) <= Len(ms) /\ (n = Len(ms) => Len(stored) + Len(new) = Len(ms))
  <2>1. CASE from <= n
    <3>1. Len(new) = n - (Len(stored) + 1) + 1
      BY <1>3, <2>1
    <3>. QED
      BY <1>1, <3>1
  <2>2. CASE ~(from <= n)
    <3>1. Len(new) = 0 /\ n < Len(stored) + 1
      BY <1>1, <1>3, <2>2
    <3>. QED
      BY <1>1, <1>2, <3>1
  <2>. QED
    BY <2>1, <2>2
<1>. HIDE DEF from
<1>7. /\ stored \o new \in Seq(Messages) /\ Len(stored \o new) = Len(stored) + Len(new)
      /\ \A i \in 1..Len(stored) : (stored \o new)[i] = stored[i]
      /\ \A i \in 1..Len(new) : (stored \o new)[Len(stored) + i] = new[i]
      /\ \A i \in 1..Len(stored \o new) :
               i \in 1..Len(stored) \/ \E k \in 1..Len(new) : i = Len(stored) + k
  BY <1>1, <1>3, Joined
<1>8. \A i \in 1..Len(stored \o new) : (stored \o new)[i] = ms[i]
  BY <1>2, <1>4, <1>7
<1>9. IsPrefix(stored \o new, ms)
  BY <1>6, <1>7, <1>8, PrefixByElements
<1>10. n = Len(ms) => stored \o new = ms
  BY <1>6, <1>7, <1>8, SeqEqual
<1>. QED
  BY <1>5, <1>7, <1>9, <1>10
------------------------------------------------------------------------------
(***************************************************************************)
(* What is stored, when turns of a conversation do not overlap             *)
(***************************************************************************)

AtWork == Asking \cup AtTools \cup {"closing"}

\* A turn that has read its conversation has all that is stored at the head of
\* its list, unless it took it for a new one; and the list is well formed in a
\* conversation that was seen whole.
OwnList(t) ==
    stage[t] \in AtWork => /\ t \notin blind => IsPrefix(disk[conv[t]], msgs[t])
                           /\ SeenWhole(conv[t]) => WellFormed(msgs[t])

StoredInv ==
    /\ \A c \in Convs : SeenWhole(c) => WellFormed(disk[c])
    /\ FinishedTurnsKept

ListsInv == OneAtATime /\ StoredInv /\ \A t \in Turns : OwnList(t)

LEMMA ListsInit == Init => ListsInv
<1> SUFFICES ASSUME Init PROVE ListsInv
  OBVIOUS
<1>1. WellFormed(<<>>)
  BY DEF WellFormed
<1>. QED
  BY <1>1 DEF Init, ListsInv, OneAtATime, StoredInv, OwnList, InFlight, FinishedTurnsKept,
         AtWork, Asking, AtTools

\* A turn that goes on adds to its list, and keeps it well formed.
LEMMA GoesOn ==
    ASSUME TypeInv, CallsInv, NEW t \in Turns, MessageStep(t),
           stage[t] \in AtWork, stage'[t] \in AtWork
    PROVE  IsPrefix(msgs[t], msgs'[t]) /\ (WellFormed(msgs[t]) => WellFormed(msgs'[t]))
<1>. USE DEF AtWork, Unread, Asking, AtTools, Over
<1>. TypeOK /\ msgs[t] \in Seq(Messages)
  BY DEF TypeInv, TypeOK
<1>1. CASE Talks(t)
  <2>1. PICK more \in Seq(Plain(t)) : msgs'[t] = msgs[t] \o more
    BY <1>1 DEF Talks, Says
  <2>2. more \in Seq(Messages) /\ \A k \in 1..Len(more) : more[k].role # "tool"
    BY PlainTyped, ElementOfSeq DEF Plain
  <2>. QED
    BY <2>1, <2>2, WellFormedPlain, PrefixOfConcat
<1>2. CASE Calls(t)
  <2>1. PICK kind \in {"", "prose"}, list \in Seq({"run_sql", "visualize_data"}) :
            msgs'[t] = Append(msgs[t], Calling(t, iteration'[t], kind, list))
    BY <1>2 DEF Calls
  <2>2. CallIds(t, iteration'[t], list) \in CallSets
    BY <1>2, CallIdsTyped DEF Calls
  <2>3. PICK m : m = Calling(t, iteration'[t], kind, list)
    OBVIOUS
  <2>4. m \in Messages /\ m.role = "assistant"
    BY <2>2, <2>3, MessageTyped DEF Calling, Message
  <2>5. <<m>> \in Seq(Messages) /\ msgs'[t] = msgs[t] \o <<m>>
    <3>1. <<m>> \in Seq(Messages)
      BY <2>4, OneElement
    <3>2. Append(msgs[t], m) = msgs[t] \o <<m>>
      BY <2>4, AppendIsConcat
    <3>. QED
      BY <2>1, <2>3, <3>1, <3>2
  <2>6. \A k \in 1..Len(<<m>>) : <<m>>[k].role # "tool"
    <3>1. \A k \in 1..Len(<<m>>) : <<m>>[k] = m
      BY <2>4, OneElement
    <3>2. m.role # "tool"
      BY <2>4
    <3>. QED
      BY <3>1, <3>2, Zenon
  <2>. QED
    BY <2>5, <2>6, WellFormedPlain, PrefixOfConcat
<1>3. CASE Works(t)
  BY <1>3, PrefixOfSelf DEF Works
<1>4. CASE Returns(t)
  <2>1. PICK s \in Seq(Messages), kind \in {"", "prose"},
             list \in Seq({"run_sql", "visualize_data"}) :
                 msgs[t] = Append(s, Calling(t, iteration[t], kind, list))
    BY <1>4 DEF Returns, CallsInv, TurnCalls
  <2>2. iteration[t] \in Nat
    BY IterationTyped
  <2>3. PICK ids : ids = CallIds(t, iteration[t], list)
    OBVIOUS
  <2>4. PICK call : call = Calling(t, iteration[t], kind, list)
    OBVIOUS
  <2>5. PICK answers : answers = Answers(t, iteration[t], ids)
    OBVIOUS
  <2>6. ids \in CallSets /\ Cardinality(ids) = Len(list)
    BY <2>2, <2>3, CallIdsTyped, CallCount
  <2>7. call \in Messages /\ call.role = "assistant" /\ call.calls = ids
    BY <2>3, <2>4, <2>6, MessageTyped DEF Calling, Message
  <2>8. /\ answers \in Seq(Messages) /\ Len(answers) = Len(list)
        /\ \A i \in 1..Len(list) :
               answers[i] = Message("tool", t, "result", {<<t, iteration[t], i>>})
    BY <2>2, <2>5, <2>6, AnswersForm
  <2>9. \A i \in 1..Len(list) : <<t, iteration[t], i>> \in ids
    BY <2>3 DEF CallIds
  <2>10. \A i \in 1..Len(answers) : /\ answers[i].role = "tool"
                                    /\ answers[i].calls \subseteq call.calls
    <3> SUFFICES ASSUME NEW i \in 1..Len(list)
                 PROVE  answers[i].role = "tool" /\ answers[i].calls \subseteq ids
      BY <2>7, <2>8
    <3>1. /\ Message("tool", t, "result", {<<t, iteration[t], i>>}).role = "tool"
          /\ Message("tool", t, "result", {<<t, iteration[t], i>>}).calls = {<<t, iteration[t], i>>}
      BY DEF Message
    <3>2. {<<t, iteration[t], i>>} \subseteq ids
      BY <2>9
    <3>. QED
      BY <2>8, <3>1, <3>2, Zenon
  <2>11. msgs[t] = Append(s, call) /\ Last(msgs[t]).calls = ids
    BY <2>1, <2>4, <2>7, LastOfAppend
  <2>12. msgs'[t] = msgs[t] \o answers
    BY <1>4, <2>5, <2>11 DEF Returns
  <2>13. WellFormed(msgs[t]) => WellFormed(msgs'[t])
    BY <2>7, <2>8, <2>10, <2>11, <2>12, WellFormedAnswers
  <2>. QED
    BY <2>8, <2>12, <2>13, PrefixOfConcat
<1>5. ~Opens(t) /\ ~Reads(t) /\ ~Stops(t)
  BY DEF Opens, Reads, Stops
<1>. QED
  BY <1>1, <1>2, <1>3, <1>4, <1>5 DEF MessageStep

\* Only a turn that begins may take its conversation for a new one, and for good.
LEMMA BlindGrows ==
    ASSUME Next
    PROVE  blind \subseteq blind'
<1>1. CASE Restart
  BY <1>1 DEF Restart, request
<1>2. ASSUME NEW t \in Turns, Gate(t) \/ Command(t) \/ GateSaveFails(t)
      PROVE  blind \subseteq blind'
  BY <1>2 DEF Gate, Command, GateSaveFails, Loads
<1>3. ASSUME NEW t \in Turns,
             \/ Begin(t) \/ Clarified(t) \/ Reply(t) \/ ReplySaveFails(t)
             \/ Request(t) \/ LlmCalls(t) \/ LlmAnswers(t) \/ LlmFails(t) \/ StartTools(t)
             \/ SqlDone(t) \/ ChartDone(t) \/ ToolFails(t) \/ AfterTool(t) \/ Close(t)
             \/ CloseSaveFails(t) \/ EndFailed(t) \/ Disconnect(t)
      PROVE  blind' = blind
  BY <1>3 DEF Begin, Clarified, Reply, ReplySaveFails, Request, LlmCalls, LlmAnswers, LlmFails,
              StartTools, SqlDone, ChartDone, ToolFails, AfterTool, Close, CloseSaveFails,
              EndFailed, Disconnect, request
<1>. QED
  BY <1>1, <1>2, <1>3 DEF Next, Advance

LEMMA SeenBefore ==
    ASSUME Next, conv' = conv, NEW c, SeenWhole(c)'
    PROVE  SeenWhole(c)
  BY BlindGrows DEF SeenWhole

\* A turn that reads its conversation reads all of it or takes it for a new one.
LEMMA ReadsAll ==
    ASSUME NEW t \in Turns, Advance(t), stage[t] = "begun", t \notin blind'
    PROVE  Loaded(t) = disk[conv[t]]
<1>1. Loads(t)
  BY DEF Advance, Gate, Command, Clarified, GateSaveFails, Reply, ReplySaveFails, Request,
         LlmCalls, LlmAnswers, LlmFails, StartTools, SqlDone, ChartDone, ToolFails, AfterTool,
         Close, CloseSaveFails, EndFailed, Goes
<1>. QED
  BY <1>1 DEF Loads, Loaded

LEMMA ReadsOn ==
    ASSUME TypeInv, StoredInv, Next, conv' = conv, NEW t \in Turns, Advance(t), Reads(t)
    PROVE  /\ t \notin blind' => IsPrefix(disk[conv[t]], msgs'[t])
           /\ SeenWhole(conv[t])' => WellFormed(msgs'[t])
<1> SUFFICES ASSUME t \notin blind'
             PROVE  /\ IsPrefix(disk[conv[t]], msgs'[t])
                    /\ SeenWhole(conv[t])' => WellFormed(msgs'[t])
  BY DEF SeenWhole
<1>1. Loaded(t) = disk[conv[t]] /\ disk[conv[t]] \in Seq(Messages)
  BY ReadsAll DEF TypeInv, TypeOK, Reads
<1>2. PICK more \in Seq(Plain(t)) : msgs'[t] = Loaded(t) \o more
  BY DEF Reads, Says
<1>3. more \in Seq(Messages) /\ \A k \in 1..Len(more) : more[k].role # "tool"
  BY PlainTyped, ElementOfSeq DEF Plain
<1>4. IsPrefix(disk[conv[t]], msgs'[t])
  BY <1>1, <1>2, <1>3, PrefixOfConcat
<1>5. ASSUME SeenWhole(conv[t])' PROVE WellFormed(msgs'[t])
  <2>1. WellFormed(disk[conv[t]])
    BY <1>5, SeenBefore DEF StoredInv, SeenWhole, TypeInv, TypeOK
  <2>. QED
    BY <1>1, <1>2, <1>3, <2>1, WellFormedPlain
<1>. QED
  BY <1>4, <1>5

\* The turns in flight only grow in number by one that begins.
LEMMA OneAtATimeKeeps ==
    ASSUME Serial, TypeInv, OneAtATime, NEW t \in Turns, MessageStep(t), conv' = conv,
           Begin(t) \/ Advance(t) \/ Disconnect(t)
    PROVE  OneAtATime'
<1>1. \A u \in Turns \ {t} : stage'[u] = stage[u]
  BY DEF MessageStep
<1>2. CASE Begin(t)
  <2>1. \A u \in Turns : conv[u] = conv[t] => ~InFlight(u)
    BY <1>2 DEF Begin
  <2>. QED
    BY <1>1, <2>1 DEF OneAtATime, InFlight
<1>3. CASE ~Begin(t)
  <2>1. stage[t] # "saved" /\ stage[t] # "dropped" /\ stage[t] # "new"
    BY <1>3 DEF Advance, Gate, Command, Clarified, GateSaveFails, Reply, ReplySaveFails, Request,
           LlmCalls, LlmAnswers, LlmFails, StartTools, SqlDone, ChartDone, ToolFails,
           AfterTool, Close, CloseSaveFails, EndFailed, Disconnect, Goes, InFlight
  <2>. QED
    BY <1>1, <2>1 DEF OneAtATime, InFlight
<1>. QED
  BY <1>2, <1>3

\* Only a turn at its end, or at an answer of the gate, stores; it stores its list or a
\* part of it.
Stored(t) ==
    /\ stage[t] \in {"reply", "closing"}
    /\ AnySave(t)

LEMMA WhoStores ==
    ASSUME Next
    PROVE  disk' = disk \/ \E t \in Turns : Stored(t)
<1>1. CASE Restart
  BY <1>1 DEF Restart, Stored, AnySave
<1>2. ASSUME NEW t \in Turns, Reply(t) \/ ReplySaveFails(t) \/ Close(t) \/ CloseSaveFails(t)
      PROVE  Stored(t)
  BY <1>2 DEF Reply, ReplySaveFails, Close, CloseSaveFails, Stored, Goes, AnySave
<1>3. ASSUME NEW t \in Turns,
             \/ Gate(t) \/ Command(t) \/ Clarified(t) \/ GateSaveFails(t) \/ Begin(t)
             \/ Request(t) \/ LlmCalls(t) \/ LlmAnswers(t) \/ LlmFails(t) \/ StartTools(t)
             \/ SqlDone(t) \/ ChartDone(t) \/ ToolFails(t) \/ AfterTool(t) \/ EndFailed(t)
             \/ Disconnect(t)
      PROVE  disk' = disk
  BY <1>3 DEF Gate, Command, Clarified, GateSaveFails, Begin, Request, LlmCalls, LlmAnswers,
              LlmFails, StartTools, SqlDone, ChartDone, ToolFails, AfterTool, EndFailed,
              Disconnect, shared
<1>. QED
  BY <1>1, <1>2, <1>3 DEF Next, Advance

\* What such a save leaves: more of the turn's list if the turn has read what was
\* stored, and nothing else is touched.
LEMMA OthersStay ==
    ASSUME TypeInv, NEW t \in Turns, Stored(t), NEW c \in Convs \ {conv[t]}
    PROVE  disk'[c] = disk[c]
  BY SavesForm DEF Stored, AnySave, TypeInv, TypeOK

LEMMA AfterStoring ==
    ASSUME TypeInv, ListsInv, NEW t \in Turns, Stored(t), t \notin blind
    PROVE  /\ disk'[conv[t]] \in Seq(Messages) /\ IsPrefix(disk'[conv[t]], msgs[t])
           /\ Saves(t) => disk'[conv[t]] = msgs[t]
<1>. TypeOK /\ msgs[t] \in Seq(Messages) /\ conv[t] \in Convs /\ Len(msgs[t]) \in Nat
  BY LenProperties DEF TypeInv, TypeOK
<1>1. IsPrefix(disk[conv[t]], msgs[t])
  BY DEF ListsInv, OwnList, Stored, AtWork, Asking
<1>2. ASSUME disk' = disk
      PROVE  disk'[conv[t]] \in Seq(Messages) /\ IsPrefix(disk'[conv[t]], msgs[t])
  BY <1>1, <1>2 DEF TypeOK
<1>3. ASSUME NEW n \in 0..Len(msgs[t]),
             disk' = [disk EXCEPT ![conv[t]] = SavedUpTo(conv[t], msgs[t], n)]
      PROVE  /\ disk'[conv[t]] \in Seq(Messages) /\ IsPrefix(disk'[conv[t]], msgs[t])
             /\ n = Len(msgs[t]) => disk'[conv[t]] = msgs[t]
  <2>1. disk'[conv[t]] = SavedUpTo(conv[t], msgs[t], n)
    BY <1>3 DEF TypeOK
  <2>. QED
    BY <1>1, <2>1, SavedPrefix
<1>4. ASSUME Saves(t) PROVE disk'[conv[t]] = msgs[t]
  <2>1. disk' = [disk EXCEPT ![conv[t]] = SavedUpTo(conv[t], msgs[t], Len(msgs[t]))]
    BY <1>4 DEF Saves, Saved
  <2>2. Len(msgs[t]) \in 0..Len(msgs[t])
    OBVIOUS
  <2>. QED
    BY <1>3, <2>1, <2>2
<1>5. \/ disk' = disk
      \/ \E n \in 0..Len(msgs[t]) :
             disk' = [disk EXCEPT ![conv[t]] = SavedUpTo(conv[t], msgs[t], n)]
  BY SavesForm DEF Stored, AnySave
<1>. QED
  BY <1>2, <1>3, <1>4, <1>5

\* A turn that ends well has stored its list.
LEMMA SavedStores ==
    ASSUME TypeInv, Next, NEW t \in Turns, stage'[t] = "saved", stage[t] # "saved"
    PROVE  Stored(t) /\ Saves(t) /\ msgs'[t] = msgs[t]
<1>1. CASE Restart
  BY <1>1 DEF Restart
<1>2. ASSUME NEW u \in Turns, Begin(u) \/ Advance(u) \/ Disconnect(u)
      PROVE  Stored(t) /\ Saves(t) /\ msgs'[t] = msgs[t]
  <2>1. u = t
    <3>1. \A v \in Turns \ {u} : stage'[v] = stage[v]
      BY <1>2, MessageSteps DEF MessageStep
    <3>. QED
      BY <3>1
  <2>2. CASE Reply(t) \/ Close(t)
    BY <2>2 DEF Reply, Close, Goes, Stored, AnySave
  <2>3. CASE ~Reply(t) /\ ~Close(t)
    <3>1. ASSUME NEW base, ToModel(t, base) PROVE stage'[t] # "saved"
      BY <3>1 DEF ToModel, TypeInv, TypeOK
    <3>2. ASSUME NEW base, NEW named, Consult(t, base, named) PROVE stage'[t] # "saved"
      BY <3>1, <3>2 DEF Consult, TypeInv, TypeOK
    <3>3. ASSUME NEW rest, Proceed(t, rest) PROVE stage'[t] # "saved"
      BY <3>3 DEF Proceed, TypeInv, TypeOK
    <3>4. ~(Gate(t) \/ Clarified(t) \/ GateSaveFails(t))
      BY <3>1, <3>2 DEF Gate, Clarified, GateSaveFails, TypeInv, TypeOK
    <3>5. ~(ToolFails(t) \/ AfterTool(t))
      BY <3>3 DEF ToolFails, AfterTool
    <3>6. ~(Begin(t) \/ Command(t) \/ ReplySaveFails(t) \/ Request(t) \/ LlmAnswers(t)
            \/ LlmFails(t) \/ StartTools(t) \/ SqlDone(t) \/ ChartDone(t) \/ CloseSaveFails(t)
            \/ EndFailed(t) \/ Disconnect(t))
      BY DEF Begin, Command, ReplySaveFails, Request, LlmAnswers, LlmFails, StartTools, SqlDone,
             ChartDone, CloseSaveFails, EndFailed, Disconnect, Goes, TypeInv, TypeOK
    <3>7. ~LlmCalls(t)
      BY DEF LlmCalls, TypeInv, TypeOK
    <3>. QED
      BY <1>2, <2>1, <2>3, <3>4, <3>5, <3>6, <3>7 DEF Advance
  <2>. QED
    BY <2>2, <2>3
<1>. QED
  BY <1>1, <1>2 DEF Next

\* The stored conversations after a step, given what it stores.
LEMMA StoredKeeps ==
    ASSUME TypeInv, ListsInv, Next, conv' = conv
    PROVE  StoredInv'
<1>. TypeOK /\ disk' \in [Convs -> Seq(Messages)]
  <2>1. disk \in [Convs -> Seq(Messages)]
    BY DEF TypeInv, TypeOK
  <2>2. ASSUME NEW t \in Turns, Stored(t) PROVE disk' \in [Convs -> Seq(Messages)]
    BY <2>2, SavesTyped DEF Stored, AnySave, TypeInv
  <2>. QED
    BY <2>1, <2>2, WhoStores DEF TypeInv
<1>1. ASSUME NEW c \in Convs
      PROVE  /\ IsPrefix(disk[c], disk'[c])
             /\ SeenWhole(c)' => WellFormed(disk'[c])
  <2>0. SeenWhole(c)' => SeenWhole(c)
    BY SeenBefore
  <2>1. CASE disk' = disk
    BY <2>0, <2>1, PrefixOfSelf DEF ListsInv, StoredInv, TypeOK
  <2>2. ASSUME NEW t \in Turns, Stored(t)
        PROVE  /\ IsPrefix(disk[c], disk'[c])
               /\ SeenWhole(c)' => WellFormed(disk'[c])
    <3>1. IsPrefix(disk[c], disk'[c])
      BY <2>2, SavesGrow DEF Stored, AnySave
    <3>2. CASE c # conv[t]
      BY <2>0, <2>2, <3>1, <3>2, OthersStay DEF ListsInv, StoredInv
    <3>3. ASSUME c = conv[t], SeenWhole(c) PROVE WellFormed(disk'[c])
      <4>1. WellFormed(msgs[t]) /\ msgs[t] \in Seq(Messages) /\ t \notin blind
        BY <2>2, <3>3 DEF ListsInv, OwnList, SeenWhole, Stored, AtWork, Asking, TypeOK
      <4>2. disk'[c] \in Seq(Messages) /\ IsPrefix(disk'[c], msgs[t])
        BY <2>2, <3>3, <4>1, AfterStoring
      <4>. QED
        BY <4>1, <4>2, WellFormedPrefix
    <3>. QED
      BY <2>0, <3>1, <3>2, <3>3
  <2>. QED
    BY <2>1, <2>2, WhoStores
<1>2. ASSUME NEW t \in Turns \ blind', stage'[t] = "saved"
      PROVE  IsPrefix(msgs'[t], disk'[conv[t]])
  <2>. conv[t] \in Convs /\ msgs[t] \in Seq(Messages) /\ t \notin blind
    BY BlindGrows DEF TypeOK
  <2>1. CASE stage[t] = "saved"
    <3>1. msgs'[t] = msgs[t]
      <4>1. CASE Restart
        BY <4>1 DEF Restart
      <4>2. ASSUME NEW u \in Turns, MessageStep(u) PROVE msgs'[t] = msgs[t]
        BY <2>1, <4>2 DEF MessageStep, Opens, Reads, Talks, Calls, Works, Returns, Stops,
               Asking, AtTools
      <4>. QED
        BY <4>1, <4>2, MessageSteps DEF Next
    <3>2. IsPrefix(msgs[t], disk[conv[t]])
      BY <2>1 DEF ListsInv, StoredInv, FinishedTurnsKept
    <3>3. IsPrefix(disk[conv[t]], disk'[conv[t]])
      BY <1>1
    <3>4. disk[conv[t]] \in Seq(Messages) /\ disk'[conv[t]] \in Seq(Messages)
      BY DEF TypeOK
    <3>. QED
      BY <3>1, <3>2, <3>3, <3>4, PrefixTransitive
  <2>2. CASE stage[t] # "saved"
    BY <1>2, <2>2, SavedStores, AfterStoring, PrefixOfSelf
  <2>. QED
    BY <2>1, <2>2
<1>. QED
  BY <1>1, <1>2 DEF StoredInv, FinishedTurnsKept

\* The list of a turn after a step, its own or another's.
LEMMA OwnListKeeps ==
    ASSUME TypeInv, CallsInv, ListsInv, Next, conv' = conv, NEW t \in Turns,
           Begin(t) \/ Advance(t) \/ Disconnect(t), MessageStep(t), NEW u \in Turns
    PROVE  OwnList(u)'
<1>. USE DEF AtWork, Unread, Asking, AtTools, Over
<1>. TypeOK /\ msgs[u] \in Seq(Messages) /\ conv[u] \in Convs
     /\ disk[conv[u]] \in Seq(Messages)
  BY DEF TypeInv, TypeOK
<1> SUFFICES ASSUME stage'[u] \in AtWork
             PROVE  /\ u \notin blind' => IsPrefix(disk'[conv[u]], msgs'[u])
                    /\ SeenWhole(conv[u])' => WellFormed(msgs'[u])
  BY DEF OwnList, SeenWhole
<1>1. CASE stage[u] \in AtWork
  <2>1. IsPrefix(msgs[u], msgs'[u]) /\ (WellFormed(msgs[u]) => WellFormed(msgs'[u]))
    <3>1. CASE u = t
      BY <1>1, <3>1, GoesOn
    <3>2. CASE u # t
      BY <3>2, PrefixOfSelf DEF MessageStep
    <3>. QED
      BY <3>1, <3>2
  <2>2. SeenWhole(conv[u])' => WellFormed(msgs'[u])
    <3>1. SeenWhole(conv[u])' => SeenWhole(conv[u])
      BY SeenBefore DEF SeenWhole
    <3>. QED
      BY <1>1, <2>1, <3>1 DEF ListsInv, OwnList
  <2>3. ASSUME u \notin blind
        PROVE  IsPrefix(disk'[conv[u]], msgs[u]) /\ disk'[conv[u]] \in Seq(Messages)
    <3>1. IsPrefix(disk[conv[u]], msgs[u])
      BY <1>1, <2>3 DEF ListsInv, OwnList
    <3>2. ASSUME NEW v \in Turns, Stored(v)
          PROVE  IsPrefix(disk'[conv[u]], msgs[u]) /\ disk'[conv[u]] \in Seq(Messages)
      <4>1. CASE conv[v] = conv[u]
        <5>1. InFlight(v) /\ InFlight(u)
          BY <1>1, <3>2 DEF InFlight, Stored
        <5>2. v = u
          BY <4>1, <5>1 DEF ListsInv, OneAtATime
        <5>. QED
          BY <2>3, <3>2, <5>2, AfterStoring
      <4>2. CASE conv[v] # conv[u]
        BY <3>1, <3>2, <4>2, OthersStay
      <4>. QED
        BY <4>1, <4>2
    <3>. QED
      BY <3>1, <3>2, WhoStores
  <2>4. msgs'[u] \in Seq(Messages)
    <3>1. msgs' \in [Turns -> Seq(Messages)]
      BY TypeStep DEF TypeInv, TypeOK
    <3>. QED
      BY <3>1
  <2>5. u \notin blind' => IsPrefix(disk'[conv[u]], msgs'[u])
    BY <2>1, <2>3, <2>4, BlindGrows, PrefixTransitive
  <2>. QED
    BY <2>2, <2>5
<1>2. CASE stage[u] \notin AtWork
  <2>1. u = t
    BY <1>2 DEF MessageStep
  <2>2. Reads(t)
    BY <1>2, <2>1 DEF MessageStep, Opens, Talks, Calls, Works, Returns, Stops
  <2>3. Advance(t)
    BY <2>1, <2>2 DEF Begin, Disconnect, Goes, Reads, TypeOK
  <2>4. /\ t \notin blind' => IsPrefix(disk[conv[t]], msgs'[t])
        /\ SeenWhole(conv[t])' => WellFormed(msgs'[t])
    BY <2>2, <2>3, ReadsOn DEF ListsInv
  <2>5. disk'[conv[t]] = disk[conv[t]] \/ \E v \in Turns : Stored(v) /\ conv[v] = conv[t]
    BY <2>1, WhoStores, OthersStay
  <2>6. ASSUME NEW v \in Turns, Stored(v), conv[v] = conv[t] PROVE FALSE
    <3>1. InFlight(v) /\ InFlight(t) /\ stage[v] # stage[t]
      BY <2>2, <2>6 DEF InFlight, Stored, Reads
    <3>. QED
      BY <2>6, <3>1 DEF ListsInv, OneAtATime
  <2>. QED
    BY <2>1, <2>4, <2>5, <2>6
<1>. QED
  BY <1>1, <1>2

LEMMA ListsStep ==
    ASSUME Serial, TypeInv, CallsInv, ListsInv, [Next]_vars
    PROVE  ListsInv'
<1>1. CASE UNCHANGED vars
  BY <1>1 DEF vars, ListsInv, OneAtATime, StoredInv, OwnList, InFlight, FinishedTurnsKept,
              SeenWhole
<1>2. CASE Restart
  <2>1. conv' = conv /\ \A t \in Turns : stage'[t] \notin AtWork /\ ~InFlight(t)'
    BY <1>2 DEF Restart, request, InFlight, AtWork, Asking, AtTools
  <2>2. StoredInv'
    BY <1>2, <2>1, StoredKeeps DEF Next
  <2>. QED
    BY <2>1, <2>2 DEF ListsInv, OneAtATime, OwnList
<1>3. ASSUME NEW t \in Turns, Begin(t) \/ Advance(t) \/ Disconnect(t)
      PROVE  ListsInv'
  <2>1. MessageStep(t) /\ conv' = conv /\ Next
    BY <1>3, MessageSteps DEF Next
  <2>. QED
    BY <1>3, <2>1, OneAtATimeKeeps, StoredKeeps, OwnListKeeps DEF ListsInv
<1>. QED
  BY <1>1, <1>2, <1>3 DEF Next

THEOREM ListsInvariance == Serial => (Spec => []ListsInv)
<1> SUFFICES ASSUME Serial PROVE Spec => []ListsInv
  OBVIOUS
<1>1. TypeInv /\ CallsInv /\ [Next]_vars => CallsInv'
  BY CallsStep
<1>2. TypeInv /\ CallsInv /\ ListsInv /\ [Next]_vars => ListsInv'
  BY ListsStep
<1>. QED
  BY <1>1, <1>2, CallsInit, ListsInit, TypeInvariance, PTL DEF Spec

\* agent.py:662: tool messages follow the message that calls, in what is stored and in
\* what the model is sent, whichever turns fail, are abandoned or cut off by a restart
\* while they save, until a turn takes the conversation for a new one because its
\* metadata.json was torn.
THEOREM RepliesFollowCalls == Serial => (Spec => []ToolRepliesFollowCalls)
<1> SUFFICES ASSUME Serial PROVE Spec => []ToolRepliesFollowCalls
  OBVIOUS
<1>1. ListsInv => ToolRepliesFollowCalls
  BY DEF ListsInv, StoredInv, OwnList, ToolRepliesFollowCalls, AtWork, Asking
<1>. QED
  BY ListsInvariance, <1>1, PTL

\* update_conversation: what a turn that has ended had in its list is the head of what
\* is stored, for good, whatever failed, if it had read what was stored before it.
THEOREM TurnsAreKept == Serial => (Spec => []FinishedTurnsKept)
<1> SUFFICES ASSUME Serial PROVE Spec => []FinishedTurnsKept
  OBVIOUS
<1>1. ListsInv => FinishedTurnsKept
  BY DEF ListsInv, StoredInv
<1>. QED
  BY ListsInvariance, <1>1, PTL
=============================================================================

------------------------- MODULE ChatTurnCalmProofs -------------------------
(***************************************************************************)
(* Theorems about ChatTurn when nothing fails and the turns of a           *)
(* conversation do not overlap, for any number of turns, any tools the     *)
(* model calls, and tools that fail.                                       *)
(***************************************************************************)
EXTENDS ChatTurnMessagesProofs

Calm == Serial /\ Faults = {}

Early == {"begun", "clarify", "reply", "asked"}
Late  == {"llm", "calling", "tool", "result", "closing"}

\* What the stash and the server's copy are while t is at `stage[t]'.  Before
\* its tools run t has stashed nothing and found nothing; later, the run that is
\* stashed is its last; when it is saved, that is the run that was shown.
OwnStash(t) ==
    /\ stage[t] \in Early \cup Late \cup {"new", "saved"}
    /\ stage[t] \in Early \cup {"new"} => ran[t] = 0
    /\ ran[t] = 0 => copy[t] = NoRun
    /\ stage[t] \in Early => pending[conv[t]] = EmptyStash
    /\ stage[t] \in Early \cup Late =>
           pending[conv[t]].run = IF ran[t] = 0 THEN NoRun ELSE <<t, ran[t]>>
    /\ shown[t] = IF stage[t] = "saved" /\ ran[t] # 0 THEN <<t, ran[t]>> ELSE NoRun

CalmInv == OneAtATime /\ (\A t \in Turns : OwnStash(t)) /\ NoStashLeftBehind

LEMMA FlightStages ==
    ASSUME NEW t \in Turns, OwnStash(t)
    PROVE  InFlight(t) <=> stage[t] \in Early \cup Late
  BY DEF OwnStash, InFlight, Early, Late

LEMMA CalmInit == Init => CalmInv
  BY DEF Init, CalmInv, OneAtATime, OwnStash, NoStashLeftBehind, InFlight, EmptyStash,
         Early, Late

\* A turn goes on without touching the stash.
Quiet(t, s) ==
    /\ stage[t] \in Early \cup Late
    /\ s \in Late \/ (s \in Early /\ stage[t] \in Early)
    /\ stage' = [stage EXCEPT ![t] = s]
    /\ UNCHANGED <<pending, ran, shown, conv>>
    /\ copy' = copy \/ Peek(t)

LEMMA QuietKeeps ==
    ASSUME TypeOK, CalmInv, NEW t \in Turns, NEW s, Quiet(t, s)
    PROVE  CalmInv'
<1>1. /\ \A u \in Turns : stage'[u] = IF u = t THEN s ELSE stage[u]
      /\ pending' = pending /\ ran' = ran /\ shown' = shown /\ conv' = conv
  BY DEF Quiet, TypeOK
<1>2. \A u \in Turns : InFlight(u)' <=> InFlight(u)
  BY <1>1 DEF Quiet, InFlight, Early, Late
<1>3. \A u \in Turns : ran[u] = 0 => copy'[u] = NoRun
  <2>1. CASE copy' = copy
    BY <2>1 DEF CalmInv, OwnStash
  <2>2. CASE Peek(t)
    <3>1. ran[t] = 0 => pending[conv[t]].run = NoRun
      BY DEF Quiet, CalmInv, OwnStash
    <3>. QED
      BY <2>2, <3>1 DEF Peek, TypeOK, CalmInv, OwnStash
  <2>. QED
    BY <2>1, <2>2 DEF Quiet
<1>4. \A u \in Turns : OwnStash(u)'
  <2> SUFFICES ASSUME NEW u \in Turns PROVE OwnStash(u)'
    OBVIOUS
  <2>1. CASE u = t
    <3>1. s # "saved" /\ s # "new" /\ stage[t] # "saved"
      BY DEF Quiet, Early, Late
    <3>2. s \in Early => stage[t] \in Early
      BY DEF Quiet, Early, Late
    <3>. QED
      BY <1>1, <1>3, <2>1, <3>1, <3>2 DEF Quiet, CalmInv, OwnStash
  <2>2. CASE u # t
    BY <1>1, <1>3, <2>2 DEF CalmInv, OwnStash
  <2>. QED
    BY <2>1, <2>2
<1>5. NoStashLeftBehind'
  BY <1>1, <1>2 DEF CalmInv, NoStashLeftBehind
<1>. QED
  BY <1>1, <1>2, <1>4, <1>5 DEF CalmInv, OneAtATime

LEMMA BeginKeeps ==
    ASSUME TypeOK, CalmInv, Calm, NEW t \in Turns, Begin(t)
    PROVE  CalmInv'
<1>1. /\ stage[t] = "new" /\ \A u \in Turns : stage'[u] = IF u = t THEN "begun" ELSE stage[u]
      /\ pending' = pending /\ ran' = ran /\ shown' = shown /\ conv' = conv /\ copy' = copy
      /\ \A u \in Turns : conv[u] = conv[t] => ~InFlight(u)
  BY DEF Begin, Goes, TypeOK, Calm, shared, request
<1>2. pending[conv[t]] = EmptyStash
  BY <1>1 DEF CalmInv, NoStashLeftBehind, TypeOK
<1>3. \A u \in Turns : InFlight(u)' <=> InFlight(u) \/ u = t
  BY <1>1 DEF InFlight
<1>4. \A u \in Turns : OwnStash(u)'
  <2> SUFFICES ASSUME NEW u \in Turns PROVE OwnStash(u)'
    OBVIOUS
  <2>1. CASE u = t
    BY <1>1, <1>2, <2>1 DEF CalmInv, OwnStash, Early, Late, EmptyStash
  <2>2. CASE u # t
    BY <1>1, <2>2 DEF CalmInv, OwnStash
  <2>. QED
    BY <2>1, <2>2
<1>5. NoStashLeftBehind'
  BY <1>1, <1>3 DEF CalmInv, NoStashLeftBehind
<1>. QED
  BY <1>1, <1>3, <1>4, <1>5 DEF CalmInv, OneAtATime

\* Another turn of the conversation is not in flight while t is.
LEMMA OthersRest ==
    ASSUME CalmInv, NEW t \in Turns, InFlight(t), NEW u \in Turns, u # t, conv[u] = conv[t]
    PROVE  stage[u] \notin Early \cup Late
  BY DEF CalmInv, OneAtATime, InFlight, Early, Late

LEMMA ReplyKeeps ==
    ASSUME TypeOK, CalmInv, NEW t \in Turns, Reply(t)
    PROVE  CalmInv'
<1>1. /\ stage[t] = "reply" /\ \A u \in Turns : stage'[u] = IF u = t THEN "saved" ELSE stage[u]
      /\ pending' = pending /\ ran' = ran /\ shown'[t] = copy'[t]
      /\ \A u \in Turns : u # t => shown'[u] = shown[u] /\ copy'[u] = copy[u]
      /\ conv' = conv
  BY DEF Reply, Goes, Peek, TypeOK, shared, request
<1>2. ran[t] = 0 /\ pending[conv[t]] = EmptyStash /\ copy[t] = NoRun
  BY <1>1 DEF CalmInv, OwnStash, Early, Late
<1>3. copy'[t] = NoRun
  BY <1>1, <1>2 DEF Reply, Peek, TypeOK, EmptyStash
<1>4. \A u \in Turns : InFlight(u)' <=> InFlight(u) /\ u # t
  BY <1>1 DEF InFlight
<1>5. \A u \in Turns : OwnStash(u)'
  BY <1>1, <1>2, <1>3 DEF CalmInv, OwnStash, Early, Late
<1>6. NoStashLeftBehind'
  <2> SUFFICES ASSUME NEW c \in Convs, \A u \in Turns : conv[u] = c => ~InFlight(u)'
               PROVE  pending[c] = EmptyStash
    BY <1>1 DEF NoStashLeftBehind
  <2>1. CASE c = conv[t]
    BY <1>2, <2>1
  <2>2. CASE c # conv[t]
    BY <1>4, <2>2 DEF CalmInv, NoStashLeftBehind
  <2>. QED
    BY <2>1, <2>2
<1>. QED
  BY <1>1, <1>4, <1>5, <1>6 DEF CalmInv, OneAtATime

LEMMA ToolKeeps ==
    ASSUME TypeOK, CalmInv, NEW t \in Turns, SqlDone(t) \/ ChartDone(t)
    PROVE  CalmInv'
<1>1. /\ stage[t] = "tool" /\ \A u \in Turns : stage'[u] = IF u = t THEN "result" ELSE stage[u]
      /\ shown' = shown /\ conv' = conv /\ copy' = copy
      /\ \A c \in Convs : c # conv[t] => pending'[c] = pending[c]
      /\ \A u \in Turns : u # t => ran'[u] = ran[u]
      /\ ran[t] \in Nat /\ conv[t] \in Convs
  BY DEF SqlDone, ChartDone, Goes, TypeOK, shared, request
<1>2. pending'[conv[t]].run = IF ran'[t] = 0 THEN NoRun ELSE <<t, ran'[t]>>
  <2>1. CASE SqlDone(t)
    <3>1. ran'[t] = ran[t] + 1 /\ pending'[conv[t]].run = <<t, ran'[t]>>
      BY <2>1 DEF SqlDone, TypeOK, Stashes
    <3>. QED
      BY <1>1, <3>1
  <2>2. CASE ChartDone(t)
    <3>1. ran' = ran /\ pending'[conv[t]].run = pending[conv[t]].run
      BY <2>2 DEF ChartDone, TypeOK, Stashes
    <3>. QED
      BY <1>1, <3>1 DEF CalmInv, OwnStash, Early, Late
  <2>. QED
    BY <2>1, <2>2
<1>3. ran'[t] = 0 => ran[t] = 0
  BY <1>1 DEF SqlDone, ChartDone, TypeOK
<1>4. \A u \in Turns : InFlight(u)' <=> InFlight(u)
  BY <1>1 DEF InFlight
<1>5. \A u \in Turns : OwnStash(u)'
  <2> SUFFICES ASSUME NEW u \in Turns PROVE OwnStash(u)'
    OBVIOUS
  <2>1. CASE u = t
    BY <1>1, <1>2, <1>3, <2>1 DEF CalmInv, OwnStash, Early, Late
  <2>2. CASE u # t /\ conv[u] = conv[t]
    <3>1. stage[u] \notin Early \cup Late
      BY <1>1, <2>2, OthersRest DEF InFlight
    <3>. QED
      BY <1>1, <2>2, <3>1 DEF CalmInv, OwnStash
  <2>3. CASE conv[u] # conv[t]
    <3>1. pending'[conv[u]] = pending[conv[u]] /\ u # t
      BY <1>1, <2>3 DEF TypeOK
    <3>. QED
      BY <1>1, <3>1 DEF CalmInv, OwnStash
  <2>. QED
    BY <2>1, <2>2, <2>3
<1>6. NoStashLeftBehind'
  <2>1. InFlight(t)
    BY <1>1 DEF InFlight
  <2>. QED
    BY <1>1, <1>4, <2>1 DEF CalmInv, NoStashLeftBehind
<1>. QED
  BY <1>1, <1>4, <1>5, <1>6 DEF CalmInv, OneAtATime

\* The hook takes the stash, and the run the server has copied is the last.
LEMMA CloseKeeps ==
    ASSUME TypeOK, CalmInv, NEW t \in Turns, Close(t)
    PROVE  CalmInv'
<1>1. /\ stage[t] = "closing" /\ \A u \in Turns : stage'[u] = IF u = t THEN "saved" ELSE stage[u]
      /\ ran' = ran /\ conv' = conv /\ conv[t] \in Convs /\ ran[t] \in Nat
      /\ shown'[t] = copy'[t]
      /\ \A u \in Turns : u # t => shown'[u] = shown[u] /\ copy'[u] = copy[u]
      /\ \A c \in Convs : pending'[c] = IF c = conv[t] THEN EmptyStash ELSE pending[c]
  BY DEF Close, Goes, Peek, Hook, TypeOK, request
<1>2. /\ pending[conv[t]].run = IF ran[t] = 0 THEN NoRun ELSE <<t, ran[t]>>
      /\ ran[t] = 0 => copy[t] = NoRun
  BY <1>1 DEF CalmInv, OwnStash, Early, Late
<1>3. copy'[t] = IF ran[t] = 0 THEN NoRun ELSE <<t, ran[t]>>
  <2>1. copy'[t] = IF pending[conv[t]].run = NoRun THEN copy[t] ELSE pending[conv[t]].run
    BY DEF Close, Peek, TypeOK
  <2>2. ran[t] # 0 => <<t, ran[t]>> # NoRun
    BY <1>1, NoRunAssumption
  <2>. QED
    BY <1>2, <2>1, <2>2
<1>4. \A u \in Turns : InFlight(u)' <=> InFlight(u) /\ u # t
  BY <1>1 DEF InFlight
<1>5. \A u \in Turns : OwnStash(u)'
  <2> SUFFICES ASSUME NEW u \in Turns PROVE OwnStash(u)'
    OBVIOUS
  <2>1. CASE u = t
    BY <1>1, <1>3, <2>1 DEF CalmInv, OwnStash, Early, Late
  <2>2. CASE u # t /\ conv[u] = conv[t]
    <3>1. stage[u] \notin Early \cup Late
      BY <1>1, <2>2, OthersRest DEF InFlight
    <3>. QED
      BY <1>1, <2>2, <3>1 DEF CalmInv, OwnStash
  <2>3. CASE conv[u] # conv[t]
    <3>1. pending'[conv[u]] = pending[conv[u]] /\ u # t
      BY <1>1, <2>3 DEF TypeOK
    <3>. QED
      BY <1>1, <3>1 DEF CalmInv, OwnStash
  <2>. QED
    BY <2>1, <2>2, <2>3
<1>6. NoStashLeftBehind'
  <2> SUFFICES ASSUME NEW c \in Convs, \A u \in Turns : conv[u] = c => ~InFlight(u)'
               PROVE  pending'[c] = EmptyStash
    BY <1>1 DEF NoStashLeftBehind
  <2>1. CASE c = conv[t]
    BY <1>1, <2>1
  <2>2. CASE c # conv[t]
    <3>1. \A u \in Turns : conv[u] = c => ~InFlight(u)
      BY <1>4, <2>2
    <3>. QED
      BY <1>1, <2>2, <3>1 DEF CalmInv, NoStashLeftBehind
  <2>. QED
    BY <2>1, <2>2
<1>. QED
  BY <1>1, <1>4, <1>5, <1>6 DEF CalmInv, OneAtATime

LEMMA NothingFails ==
    ASSUME Calm, NEW t \in Turns
    PROVE  /\ ~Disconnect(t) /\ ~LlmFails(t) /\ ~GateSaveFails(t)
           /\ ~ReplySaveFails(t) /\ ~CloseSaveFails(t)
  BY DEF Calm, Disconnect, LlmFails, GateSaveFails, ReplySaveFails, CloseSaveFails

\* All other steps are quiet.
LEMMA QuietSteps ==
    ASSUME TypeInv, Calm, NEW t \in Turns,
           \/ Gate(t) \/ Command(t) \/ Clarified(t) \/ Request(t) \/ LlmCalls(t)
           \/ LlmAnswers(t) \/ StartTools(t) \/ ToolFails(t) \/ AfterTool(t)
    PROVE  \E s : Quiet(t, s)
<1>1. ASSUME NEW base, ToModel(t, base) PROVE stage' = [stage EXCEPT ![t] = "asked"]
  BY <1>1 DEF ToModel, Calm
<1>2. ASSUME NEW base, NEW named, Consult(t, base, named)
      PROVE  \E s \in Early : stage' = [stage EXCEPT ![t] = s]
  BY <1>1, <1>2 DEF Consult, Early
<1>3. CASE Gate(t)
  <2>1. \E s \in Early : stage' = [stage EXCEPT ![t] = s]
    BY <1>2, <1>3 DEF Gate, Early
  <2>. QED
    BY <1>3, <2>1 DEF Gate, Quiet, Early
<1>4. CASE Clarified(t)
  <2>1. \E s \in Early : stage' = [stage EXCEPT ![t] = s]
    BY <1>2, <1>4 DEF Clarified, Early
  <2>. QED
    BY <1>4, <2>1 DEF Clarified, Quiet, Early, request
<1>5. CASE Command(t)
  <2>1. Quiet(t, "reply")
    BY <1>5 DEF Command, Goes, Quiet, Early, shared
  <2>. QED
    BY <2>1
<1>6. CASE Request(t)
  <2>1. Quiet(t, "llm")
    BY <1>6 DEF Request, Goes, Quiet, Early, Late, shared, request
  <2>. QED
    BY <2>1
<1>7. CASE LlmCalls(t)
  <2>1. PICK s \in {"tool", "calling"} : stage' = [stage EXCEPT ![t] = s]
    BY <1>7 DEF LlmCalls
  <2>2. Quiet(t, s)
    BY <1>7, <2>1 DEF LlmCalls, Quiet, Late, shared, request
  <2>. QED
    BY <2>2
<1>8. CASE LlmAnswers(t)
  <2>1. Quiet(t, "closing")
    BY <1>8 DEF LlmAnswers, Goes, Quiet, Late, shared, request
  <2>. QED
    BY <2>1
<1>9. CASE StartTools(t)
  <2>1. Quiet(t, "tool")
    BY <1>9 DEF StartTools, Goes, Quiet, Late, shared, request
  <2>. QED
    BY <2>1
<1>10. CASE ToolFails(t) \/ AfterTool(t)
  <2>1. PICK s \in {"tool", "llm", "closing"} : stage' = [stage EXCEPT ![t] = s]
    BY <1>10 DEF ToolFails, AfterTool, Proceed
  <2>2. Quiet(t, s)
    BY <1>10, <2>1 DEF ToolFails, AfterTool, Quiet, Late, shared, request
  <2>. QED
    BY <2>2
<1>. QED
  BY <1>3, <1>4, <1>5, <1>6, <1>7, <1>8, <1>9, <1>10

LEMMA CalmStep ==
    ASSUME Calm, TypeInv, CalmInv, [Next]_vars
    PROVE  CalmInv'
<1>1. TypeOK
  BY DEF TypeInv
<1>2. ASSUME NEW t \in Turns, EndFailed(t) PROVE FALSE
  BY <1>2 DEF EndFailed, Goes, CalmInv, OwnStash, Early, Late
<1>3. ASSUME NEW t \in Turns,
             \/ Gate(t) \/ Command(t) \/ Clarified(t) \/ Request(t) \/ LlmCalls(t)
             \/ LlmAnswers(t) \/ StartTools(t) \/ ToolFails(t) \/ AfterTool(t)
      PROVE  CalmInv'
  BY <1>1, <1>3, QuietSteps, QuietKeeps
<1>4. CASE UNCHANGED vars
  BY <1>4 DEF vars, CalmInv, OneAtATime, OwnStash, NoStashLeftBehind, InFlight
<1>5. ~Restart
  BY DEF Calm, Restart
<1>6. ASSUME NEW t \in Turns, Advance(t) PROVE CalmInv'
  BY <1>1, <1>2, <1>3, <1>6, ReplyKeeps, ToolKeeps, CloseKeeps, NothingFails DEF Advance
<1>7. ASSUME NEW t \in Turns, Begin(t) PROVE CalmInv'
  BY <1>1, <1>7, BeginKeeps
<1>8. ASSUME NEW t \in Turns PROVE ~Disconnect(t)
  BY NothingFails
<1>. QED
  BY <1>4, <1>5, <1>6, <1>7, <1>8 DEF Next

THEOREM CalmInvariance == Calm => (Spec => []CalmInv)
<1> SUFFICES ASSUME Calm PROVE Spec => []CalmInv
  OBVIOUS
<1>1. TypeInv /\ CalmInv /\ [Next]_vars => CalmInv'
  BY CalmStep
<1>. QED
  BY <1>1, CalmInit, TypeInvariance, PTL DEF Spec

\* hooks.py: after a turn the stash of its conversation is empty, whatever the
\* model did with its tools and whatever became of them.
THEOREM StashIsTaken == Calm => (Spec => []NoStashLeftBehind)
<1> SUFFICES ASSUME Calm PROVE Spec => []NoStashLeftBehind
  OBVIOUS
<1>1. CalmInv => NoStashLeftBehind
  BY DEF CalmInv
<1>. QED
  BY CalmInvariance, <1>1, PTL

\* server.py: the provenance sent with an answer is that of its own last run,
\* and is sent exactly if there was one.
THEOREM ProvenanceIsOwn == Calm => (Spec => []ProvenanceOfLastRun)
<1> SUFFICES ASSUME Calm PROVE Spec => []ProvenanceOfLastRun
  OBVIOUS
<1>1. CalmInv => ProvenanceOfLastRun
  BY DEF CalmInv, OwnStash, ProvenanceOfLastRun
<1>. QED
  BY CalmInvariance, <1>1, PTL
------------------------------------------------------------------------------
(***************************************************************************)
(* What is remembered, and what a question is answered with                *)
(***************************************************************************)

Asked == {"asked"} \cup Late

\* The last message of a user in the list is t's.
LastAsk(t, messages) ==
    \E k \in 1..Len(messages) :
        /\ messages[k].role = "user" /\ messages[k].kind # "" /\ messages[k].by = t
        /\ \A j \in 1..Len(messages) : j > k => messages[j].role # "user"

\* A turn waits for the clarifying model only while nobody has named a company; one
\* that has asked the model has its own question last, and the company it names.
Understood(t) ==
    /\ stage[t] = "clarify" => slots[conv[t]] = NoCompany /\ CompanyIn[text[t]] = NoCompany
    /\ stage[t] \in Asked =>
           /\ LastAsk(t, msgs[t])
           /\ CompanyIn[text[t]] # NoCompany => company[t] = CompanyIn[text[t]]

ReportsFit ==
    \A x \in Texts : cache[x] # NoReport /\ CompanyIn[x] # NoCompany
                        => cache[x].company = CompanyIn[x]

FitInv == (\A t \in Turns : Understood(t)) /\ ReportsFit /\ SelfContainedReplaysFit

LEMMA FitInit == Init => FitInv
  BY DEF Init, FitInv, Understood, ReportsFit, SelfContainedReplaysFit, Asked, Late

LEMMA AskIsLast ==
    ASSUME NEW t \in Turns, NEW s \in Seq(Messages)
    PROVE  LastAsk(t, Append(s, Message("user", t, "ask", {})))
<1>1. PICK m : m = Message("user", t, "ask", {})
  OBVIOUS
<1>2. m \in Messages /\ m.role = "user" /\ m.kind = "ask" /\ m.by = t
  BY <1>1, OwnMessages DEF Message
<1>3. /\ Len(Append(s, m)) = Len(s) + 1 /\ Append(s, m)[Len(s) + 1] = m
      /\ Len(s) \in Nat
  BY <1>2, AppendProperties, LenProperties
<1>4. /\ Len(s) + 1 \in 1..Len(Append(s, m))
      /\ \A j \in 1..Len(Append(s, m)) : ~(j > Len(s) + 1)
  BY <1>3
<1>. QED
  BY <1>1, <1>2, <1>3, <1>4 DEF LastAsk

\* What the model and its tools say leaves it so.
LEMMA AskStaysLast ==
    ASSUME NEW t \in Turns, NEW s \in Seq(Messages), LastAsk(t, s),
           NEW more \in Seq(Messages), \A i \in 1..Len(more) : more[i].role # "user"
    PROVE  LastAsk(t, s \o more)
<1>1. /\ Len(s) \in Nat /\ Len(more) \in Nat /\ Len(s \o more) = Len(s) + Len(more)
      /\ \A i \in 1..Len(s) : (s \o more)[i] = s[i]
      /\ \A i \in 1..Len(more) : (s \o more)[Len(s) + i] = more[i]
      /\ \A i \in 1..Len(s \o more) :
            i \in 1..Len(s) \/ \E k \in 1..Len(more) : i = Len(s) + k
  BY Joined
<1>2. PICK k \in 1..Len(s) :
         /\ s[k].role = "user" /\ s[k].kind # "" /\ s[k].by = t
         /\ \A j \in 1..Len(s) : j > k => s[j].role # "user"
  BY DEF LastAsk
<1>3. \A j \in 1..Len(s \o more) : j > k => (s \o more)[j].role # "user"
  BY <1>1, <1>2
<1>4. k \in 1..Len(s \o more)
  BY <1>1
<1>. QED
  BY <1>1, <1>2, <1>3, <1>4 DEF LastAsk

LEMMA NotAbove ==
    ASSUME NEW n \in Nat, NEW j \in 1..n, NEW k \in 1..n, ~(j > k)
    PROVE  j <= k
  OBVIOUS

\* The hook finds it.
LEMMA HookFindsAsk ==
    ASSUME NEW t \in Turns, NEW s \in Seq(Messages), LastAsk(t, s)
    PROVE  LastWith(s, "user").by = t
<1> DEFINE at == {i \in 1..Len(s) : s[i].role = "user" /\ s[i].kind # ""}
           last == CHOOSE i \in at : \A j \in at : j <= i
<1>1. PICK k \in 1..Len(s) :
         /\ s[k].role = "user" /\ s[k].kind # "" /\ s[k].by = t
         /\ \A j \in 1..Len(s) : j > k => s[j].role # "user"
  BY DEF LastAsk
<1>2. Len(s) \in Nat /\ at \subseteq 1..Len(s) /\ k \in at
  BY <1>1, LenProperties
<1>3. \A j \in at : j <= k
  <2> SUFFICES ASSUME NEW j \in at PROVE j <= k
    OBVIOUS
  <2>1. j \in 1..Len(s) /\ s[j].role = "user"
    OBVIOUS
  <2>2. ~(j > k)
    BY <1>1, <2>1
  <2>. HIDE DEF at
  <2>3. k \in 1..Len(s)
    BY <1>1
  <2>. QED
    BY <1>2, <2>1, <2>2, <2>3, NotAbove
<1>4. last \in at /\ \A j \in at : j <= last
  <2>. HIDE DEF at
  <2>. QED
    BY <1>2, <1>3
<1>5. last = k
  <2>1. last \in 1..Len(s) /\ last <= k /\ k <= last
    BY <1>2, <1>3, <1>4
  <2>. HIDE DEF at, last
  <2>. QED
    BY <1>2, <2>1
<1>6. LastWith(s, "user") = s[last]
  BY <1>2 DEF LastWith
<1>. QED
  BY <1>1, <1>5, <1>6

\* What a step of the tool loop appends holds no message of a user.
Adds(t) ==
    \E more \in Seq(Messages) : /\ \A i \in 1..Len(more) : more[i].role # "user"
                                /\ msgs'[t] = msgs[t] \o more

LEMMA AddsNothing ==
    ASSUME TypeOK, NEW t \in Turns, msgs'[t] = msgs[t]
    PROVE  Adds(t)
<1>1. msgs[t] \o <<>> = msgs[t]
  BY ConcatEmptySeq DEF TypeOK
<1>2. PICK none \in Seq(Messages) : none = <<>> /\ \A i \in 1..Len(none) : FALSE
  <2>1. <<>> \in Seq(Messages) /\ Len(<<>>) = 0
    BY EmptySeq
  <2>2. PICK none : none = <<>>
    OBVIOUS
  <2>3. none \in Seq(Messages) /\ Len(none) = 0
    BY <2>1, <2>2
  <2>4. \A i \in 1..Len(none) : FALSE
    BY <2>3
  <2>. QED
    BY <2>2, <2>3, <2>4
<1>3. msgs'[t] = msgs[t] \o none /\ \A i \in 1..Len(none) : none[i].role # "user"
  BY <1>1, <1>2
<1>. QED
  BY <1>3 DEF Adds

LEMMA AddsOne ==
    ASSUME TypeOK, NEW t \in Turns, NEW m \in Messages, m.role = "assistant",
           msgs'[t] = Append(msgs[t], m)
    PROVE  Adds(t)
<1>1. <<m>> \in Seq(Messages) /\ \A k \in 1..Len(<<m>>) : <<m>>[k] = m
  BY OneElement
<1>2. Append(msgs[t], m) = msgs[t] \o <<m>>
  BY AppendIsConcat DEF TypeOK
<1>3. m.role # "user"
  OBVIOUS
<1>. QED
  BY <1>1, <1>2, <1>3 DEF Adds

LEMMA LoopAdds ==
    ASSUME TypeInv, NEW t \in Turns,
           \/ LlmCalls(t) \/ LlmAnswers(t) \/ StartTools(t) \/ SqlDone(t) \/ ChartDone(t)
           \/ ToolFails(t) \/ AfterTool(t)
    PROVE  Adds(t)
<1>. TypeOK /\ msgs[t] \in Seq(Messages)
  BY DEF TypeInv, TypeOK
<1>1. CASE LlmAnswers(t)
  <2>1. PICK kind \in {"", "prose", "fallback"} :
          msgs' = [msgs EXCEPT ![t] =
             IF kind = "" THEN @ ELSE Append(@, Message("assistant", t, kind, {}))]
    BY <1>1 DEF LlmAnswers
  <2>2. CASE kind = ""
    BY <2>1, <2>2, AddsNothing DEF TypeOK
  <2>3. CASE kind # ""
    <3>1. PICK m : m = Message("assistant", t, kind, {})
      OBVIOUS
    <3>2. m \in Messages /\ m.role = "assistant"
      BY <2>3, <3>1, OwnMessages DEF Message
    <3>3. msgs'[t] = Append(msgs[t], m)
      BY <2>1, <2>3, <3>1 DEF TypeOK
    <3>. QED
      BY <3>2, <3>3, AddsOne
  <2>. QED
    BY <2>2, <2>3
<1>2. CASE ~LlmAnswers(t)
  <2>1. MessageStep(t)
    BY LoopSteps
  <2>2. CASE Calls(t)
    <3>1. PICK kind \in {"", "prose"}, list \in Seq({"run_sql", "visualize_data"}) :
              msgs'[t] = Append(msgs[t], Calling(t, iteration'[t], kind, list))
      BY <2>2 DEF Calls
    <3>2. CallIds(t, iteration'[t], list) \in CallSets
      BY <2>2, CallIdsTyped DEF Calls
    <3>3. PICK m : m = Calling(t, iteration'[t], kind, list)
      OBVIOUS
    <3>4. m \in Messages /\ m.role = "assistant"
      BY <3>2, <3>3, MessageTyped DEF Calling, Message
    <3>. QED
      BY <3>1, <3>3, <3>4, AddsOne
  <2>3. CASE Returns(t)
    <3> DEFINE calls == Last(msgs[t]).calls
               answers == Answers(t, iteration[t], calls)
    <3>1. msgs[t] # <<>> /\ iteration[t] \in Nat
      BY <2>3, IterationTyped DEF Returns, AtTools, TypeInv, LoopInv
    <3>2. calls \in CallSets
      <4>1. Last(msgs[t]) \in Messages
        BY <3>1 DEF Last
      <4>. QED
        BY <4>1 DEF Messages
    <3>3. /\ Cardinality(calls) \in Nat
          /\ answers \in Seq(Messages) /\ Len(answers) = Cardinality(calls)
          /\ \A i \in 1..Cardinality(calls) :
                 answers[i] = Message("tool", t, "result", {<<t, iteration[t], i>>})
      BY <3>1, <3>2, AnswersForm
    <3>. HIDE DEF calls, answers
    <3>4. \A i \in 1..Len(answers) : answers[i].role # "user"
      BY <3>3 DEF Message
    <3>. QED
      BY <2>3, <3>3, <3>4 DEF Returns, Adds, calls, answers
  <2>4. CASE Works(t)
    BY <2>4, AddsNothing DEF Works
  <2>5. ~Opens(t) /\ ~Reads(t) /\ ~Talks(t) /\ ~Stops(t)
    <3>1. \/ stage[t] = "llm" /\ stage'[t] \in AtTools
          \/ stage[t] \in AtTools /\ stage'[t] \in AtTools \cup {"llm", "closing"}
      BY <1>2 DEF LlmCalls, StartTools, SqlDone, ChartDone, ToolFails, AfterTool, Goes,
                  Proceed, TypeOK, AtTools
    <3>. QED
      BY <3>1 DEF Opens, Reads, Talks, Stops, AtTools, Asking, Over
  <2>. QED
    BY <2>1, <2>2, <2>3, <2>4, <2>5 DEF MessageStep
<1>. QED
  BY <1>1, <1>2

\* A step of t that neither remembers, nor caches, nor answers from the cache.
Plainly(t) ==
    /\ UNCHANGED <<slots, cache, company, replayed, text, conv>>
    /\ \A u \in Turns \ {t} : stage'[u] = stage[u] /\ msgs'[u] = msgs[u]
    /\ stage'[t] # "clarify"
    /\ stage'[t] \in Asked => stage[t] \in Asked /\ Adds(t)

LEMMA PlainlyKeeps ==
    ASSUME TypeOK, FitInv, NEW t \in Turns, Plainly(t)
    PROVE  FitInv'
<1>1. ASSUME stage'[t] \in Asked PROVE LastAsk(t, msgs'[t])
  <2>1. PICK more \in Seq(Messages) : /\ \A i \in 1..Len(more) : more[i].role # "user"
                                      /\ msgs'[t] = msgs[t] \o more
    BY <1>1 DEF Plainly, Adds
  <2>2. LastAsk(t, msgs[t]) /\ msgs[t] \in Seq(Messages)
    BY <1>1 DEF Plainly, FitInv, Understood, TypeOK
  <2>. QED
    BY <2>1, <2>2, AskStaysLast
<1>2. ASSUME NEW u \in Turns PROVE Understood(u)'
  <2>1. CASE u = t
    <3>1. stage'[t] \in Asked => /\ CompanyIn[text[t]] # NoCompany => company[t] = CompanyIn[text[t]]
      BY DEF Plainly, FitInv, Understood
    <3>2. (LastAsk(t, msgs[t]))' = LastAsk(t, msgs'[t])
      BY DEF LastAsk
    <3>. QED
      BY <1>1, <2>1, <3>1, <3>2 DEF Plainly, Understood
  <2>2. CASE u # t
    <3>1. Understood(u)
      BY DEF FitInv
    <3>2. msgs'[u] = msgs[u] /\ stage'[u] = stage[u]
      BY <2>2 DEF Plainly
    <3>. QED
      BY <3>1, <3>2 DEF Plainly, Understood, LastAsk
  <2>. QED
    BY <2>1, <2>2
<1>3. ReportsFit' /\ SelfContainedReplaysFit'
  BY DEF Plainly, FitInv, ReportsFit, SelfContainedReplaysFit
<1>. QED
  BY <1>2, <1>3 DEF FitInv

LEMMA PlainSteps ==
    ASSUME TypeInv, NEW t \in Turns,
           \/ Begin(t) \/ Command(t) \/ Reply(t) \/ Request(t) \/ LlmCalls(t)
           \/ LlmAnswers(t) \/ StartTools(t) \/ SqlDone(t) \/ ChartDone(t)
           \/ ToolFails(t) \/ AfterTool(t)
    PROVE  Plainly(t)
<1>. TypeOK
  BY DEF TypeInv
<1>1. CASE Begin(t) \/ Command(t) \/ Reply(t)
  <2>1. /\ UNCHANGED <<slots, cache, company, replayed, text, conv>>
        /\ \A u \in Turns \ {t} : stage'[u] = stage[u] /\ msgs'[u] = msgs[u]
        /\ stage'[t] \in {"begun", "reply", "saved"}
    BY <1>1 DEF Begin, Command, Reply, Goes, shared, request, TypeOK
  <2>. QED
    BY <2>1 DEF Plainly, Asked, Late
<1>2. CASE Request(t)
  <2>1. /\ UNCHANGED <<slots, cache, company, replayed, text, conv, msgs>>
        /\ \A u \in Turns \ {t} : stage'[u] = stage[u]
        /\ stage[t] = "asked" /\ stage'[t] = "llm"
    BY <1>2 DEF Request, Goes, shared, request, TypeOK
  <2>2. Adds(t)
    BY <2>1, AddsNothing
  <2>. QED
    BY <2>1, <2>2 DEF Plainly, Asked, Late
<1>3. CASE \/ LlmCalls(t) \/ LlmAnswers(t) \/ StartTools(t) \/ SqlDone(t) \/ ChartDone(t)
           \/ ToolFails(t) \/ AfterTool(t)
  <2>1. Adds(t) /\ MessageStep(t)
    BY <1>3, LoopAdds, LoopSteps
  <2>2. UNCHANGED <<slots, cache, company, replayed, text, conv>>
    BY <1>3 DEF LlmCalls, LlmAnswers, StartTools, SqlDone, ChartDone, ToolFails, AfterTool,
                shared, request
  <2>3. stage[t] \in Late /\ stage'[t] # "clarify"
    BY <1>3 DEF LlmCalls, LlmAnswers, StartTools, SqlDone, ChartDone, ToolFails, AfterTool,
                Proceed, Goes, Late, TypeOK
  <2>. QED
    BY <2>1, <2>2, <2>3 DEF Plainly, MessageStep, Asked
<1>. QED
  BY <1>1, <1>2, <1>3

\* What the hook stores is what t asked, under t's question.
LEMMA CloseFits ==
    ASSUME TypeOK, CalmInv, FitInv, NEW t \in Turns, Close(t)
    PROVE  FitInv'
<1>1. /\ UNCHANGED <<slots, company, replayed, text, conv, msgs>>
      /\ stage[t] = "closing" /\ stage'[t] = "saved"
      /\ \A u \in Turns \ {t} : stage'[u] = stage[u]
  BY DEF Close, Goes, request, TypeOK
<1>2. \A u \in Turns : Understood(u)'
  BY <1>1 DEF FitInv, Understood, LastAsk, Asked, Late
<1>3. LastAsk(t, msgs[t]) /\ (CompanyIn[text[t]] # NoCompany => company[t] = CompanyIn[text[t]])
  BY <1>1 DEF FitInv, Understood, Asked, Late
<1>4. text[LastWith(msgs[t], "user").by] = text[t]
  BY <1>3, HookFindsAsk DEF TypeOK
<1>5. CASE cache' = cache
  BY <1>1, <1>2, <1>5 DEF FitInv, ReportsFit, SelfContainedReplaysFit
<1>6. CASE /\ Storable(t, pending[conv[t]])
           /\ cache' = [cache EXCEPT ![text[t]] = Report(t, pending[conv[t]])]
  <2>1. pending[conv[t]].run = <<t, ran[t]>>
    BY <1>1, <1>6 DEF Storable, CalmInv, OwnStash, Late
  <2>2. pending[conv[t]].run[1] = t
    BY <2>1
  <2>3. Report(t, pending[conv[t]]).company = company[t]
    BY <2>2 DEF Report
  <2>4. PICK report : report = Report(t, pending[conv[t]])
    OBVIOUS
  <2>5. \A x \in Texts : cache'[x] = IF x = text[t] THEN report ELSE cache[x]
    BY <1>6, <2>4 DEF TypeOK
  <2>6. ReportsFit'
    BY <1>3, <2>3, <2>4, <2>5 DEF FitInv, ReportsFit
  <2>. QED
    BY <1>1, <1>2, <2>6 DEF FitInv, SelfContainedReplaysFit
<1>. QED
  BY <1>4, <1>5, <1>6 DEF Close, Hook

\* What t consults the cache with is what it names, if it names a company.
LEMMA ConsultFits ==
    ASSUME TypeOK, CalmInv, FitInv, Calm, NEW t \in Turns, InFlight(t), NEW named,
           CompanyIn[text[t]] # NoCompany => named = CompanyIn[text[t]],
           NEW base \in Seq(Messages), Consult(t, base, named),
           UNCHANGED <<cache, text, conv>>
    PROVE  FitInv'
<1>1. /\ stage'[t] \in {"asked", "reply"}
      /\ \A u \in Turns \ {t} : stage'[u] = stage[u] /\ msgs'[u] = msgs[u]
      /\ stage'[t] = "asked" =>
            msgs'[t] = Append(base, Message("user", t, "ask", {}))
  BY DEF Consult, ToModel, Calm, TypeOK
<1>2. /\ company'[t] = named /\ \A u \in Turns \ {t} : company'[u] = company[u]
      /\ \A c \in Convs : c # conv[t] => slots'[c] = slots[c]
      /\ replayed'[t] \in {replayed[t], cache[text[t]]}
      /\ \A u \in Turns \ {t} : replayed'[u] = replayed[u]
  BY DEF Consult, TypeOK
<1>3. ASSUME stage'[t] = "asked" PROVE LastAsk(t, msgs'[t])
  BY <1>1, <1>3, AskIsLast
<1>4. ASSUME NEW u \in Turns PROVE Understood(u)'
  <2>1. CASE u = t
    <3>1. (LastAsk(t, msgs[t]))' = LastAsk(t, msgs'[t])
      BY DEF LastAsk
    <3>2. stage'[t] # "clarify" /\ (stage'[t] \in Asked => stage'[t] = "asked")
      BY <1>1 DEF Asked, Late
    <3>. QED
      BY <1>2, <1>3, <2>1, <3>1, <3>2 DEF Understood
  <2>2. CASE u # t
    <3>1. Understood(u) /\ conv[u] \in Convs
      BY DEF FitInv, TypeOK
    <3>2. stage[u] = "clarify" => slots'[conv[u]] = slots[conv[u]]
      <4>1. CASE conv[u] = conv[t]
        BY <2>2, <4>1, OthersRest DEF Early
      <4>. QED
        BY <1>2, <3>1, <4>1
    <3>3. msgs'[u] = msgs[u] /\ stage'[u] = stage[u] /\ company'[u] = company[u]
      BY <1>1, <1>2, <2>2
    <3>. QED
      BY <3>1, <3>2, <3>3 DEF Understood, LastAsk
  <2>. QED
    BY <2>1, <2>2
<1>5. ReportsFit'
  BY DEF FitInv, ReportsFit
<1>6. SelfContainedReplaysFit'
  <2> SUFFICES ASSUME NEW u \in Turns, replayed'[u] # NoReport, CompanyIn[text[u]] # NoCompany
               PROVE  replayed'[u].company = CompanyIn[text[u]]
    BY DEF SelfContainedReplaysFit
  <2>1. CASE replayed'[u] = replayed[u]
    BY <2>1 DEF FitInv, SelfContainedReplaysFit
  <2>2. CASE u = t /\ replayed'[t] = cache[text[t]]
    <3>1. text[t] \in Texts
      BY DEF TypeOK
    <3>. QED
      BY <2>2, <3>1 DEF FitInv, ReportsFit
  <2>. QED
    BY <1>2, <2>1, <2>2
<1>. QED
  BY <1>4, <1>5, <1>6 DEF FitInv

LEMMA GateFits ==
    ASSUME TypeOK, CalmInv, FitInv, Calm, NEW t \in Turns, Gate(t)
    PROVE  FitInv'
<1>1. /\ stage[t] = "begun" /\ InFlight(t) /\ Loaded(t) \in Seq(Messages)
      /\ UNCHANGED <<cache, text, conv>>
  BY MergedTyped DEF Gate, InFlight
<1>2. CASE Consult(t, Loaded(t), Merged(t))
  BY <1>1, <1>2, ConsultFits DEF Merged
<1>3. CASE ~Settled(t) /\ msgs' = [msgs EXCEPT ![t] = Loaded(t)]
           /\ stage' = [stage EXCEPT ![t] = "clarify"]
           /\ UNCHANGED <<slots, company, replayed>>
  <2>1. slots[conv[t]] = NoCompany /\ CompanyIn[text[t]] = NoCompany
    BY <1>3 DEF Settled, Merged
  <2>2. \A u \in Turns : /\ stage'[u] = IF u = t THEN "clarify" ELSE stage[u]
                         /\ u # t => msgs'[u] = msgs[u]
    BY <1>3 DEF TypeOK
  <2>3. ASSUME NEW u \in Turns PROVE Understood(u)'
    <3>1. CASE u = t
      BY <1>1, <1>3, <2>1, <2>2, <3>1 DEF Understood, Asked, Late
    <3>2. CASE u # t
      <4>1. msgs'[u] = msgs[u] /\ stage'[u] = stage[u]
        BY <2>2, <3>2
      <4>2. UNCHANGED <<slots, company, text, conv>>
        BY <1>1, <1>3
      <4>3. Understood(u)
        BY DEF FitInv
      <4>. QED
        BY <4>1, <4>2, <4>3 DEF Understood, LastAsk
    <3>. QED
      BY <3>1, <3>2
  <2>. QED
    BY <1>1, <1>3, <2>3 DEF FitInv, ReportsFit, SelfContainedReplaysFit
<1>. QED
  BY <1>2, <1>3 DEF Gate

LEMMA ClarifiedFits ==
    ASSUME TypeOK, CalmInv, FitInv, Calm, NEW t \in Turns, Clarified(t)
    PROVE  FitInv'
<1>1. /\ stage[t] = "clarify" /\ InFlight(t) /\ msgs[t] \in Seq(Messages)
      /\ UNCHANGED <<cache, text, conv>> /\ CompanyIn[text[t]] = NoCompany
  BY DEF Clarified, InFlight, request, TypeOK, FitInv, Understood
<1>2. ASSUME NEW named, Consult(t, msgs[t], named) PROVE FitInv'
  BY <1>1, <1>2, ConsultFits
<1>3. ASSUME NEW understood, slots' = [slots EXCEPT ![conv[t]] = understood],
             company' = [company EXCEPT ![t] = understood],
             stage' = [stage EXCEPT ![t] = "reply"],
             \A u \in Turns \ {t} : msgs'[u] = msgs[u], UNCHANGED replayed
      PROVE  FitInv'
  <2>1. /\ \A u \in Turns : stage'[u] = IF u = t THEN "reply" ELSE stage[u]
        /\ \A u \in Turns \ {t} : company'[u] = company[u]
        /\ \A c \in Convs : c # conv[t] => slots'[c] = slots[c]
    BY <1>3 DEF TypeOK
  <2>2. ASSUME NEW u \in Turns PROVE Understood(u)'
    <3>1. CASE u = t
      BY <2>1, <3>1 DEF Understood, Asked, Late
    <3>2. CASE u # t
      <4>1. Understood(u) /\ conv[u] \in Convs
        BY DEF FitInv, TypeOK
      <4>2. stage[u] = "clarify" => slots'[conv[u]] = slots[conv[u]]
        <5>1. CASE conv[u] = conv[t]
          BY <1>1, <3>2, <5>1, OthersRest DEF Early
        <5>. QED
          BY <2>1, <4>1, <5>1
      <4>3. msgs'[u] = msgs[u] /\ stage'[u] = stage[u] /\ company'[u] = company[u]
        BY <1>3, <2>1, <3>2
      <4>. QED
        BY <1>1, <4>1, <4>2, <4>3 DEF Understood, LastAsk
    <3>. QED
      BY <3>1, <3>2
  <2>. QED
    BY <1>1, <1>3, <2>2 DEF FitInv, ReportsFit, SelfContainedReplaysFit
<1>4. ASSUME NEW ms, msgs' = [msgs EXCEPT ![t] = ms]
      PROVE  \A u \in Turns \ {t} : msgs'[u] = msgs[u]
  BY <1>4 DEF TypeOK
<1>. QED
  BY <1>2, <1>3, <1>4 DEF Clarified

LEMMA FitStep ==
    ASSUME Calm, TypeInv, CalmInv, FitInv, [Next]_vars
    PROVE  FitInv'
<1>1. TypeOK
  BY DEF TypeInv
<1>2. CASE UNCHANGED vars
  BY <1>2 DEF vars, FitInv, Understood, LastAsk, ReportsFit, SelfContainedReplaysFit
<1>3. ~Restart
  BY DEF Calm, Restart
<1>4. ASSUME NEW t \in Turns, Advance(t) \/ Begin(t) PROVE FitInv'
  <2>1. ~EndFailed(t)
    BY DEF EndFailed, Goes, CalmInv, OwnStash, Early, Late
  <2>2. CASE Gate(t) \/ Clarified(t) \/ Close(t)
    BY <1>1, <2>2, GateFits, ClarifiedFits, CloseFits
  <2>3. CASE \/ Begin(t) \/ Command(t) \/ Reply(t) \/ Request(t) \/ LlmCalls(t)
             \/ LlmAnswers(t) \/ StartTools(t) \/ SqlDone(t) \/ ChartDone(t)
             \/ ToolFails(t) \/ AfterTool(t)
    BY <1>1, <2>3, PlainSteps, PlainlyKeeps
  <2>. QED
    BY <1>4, <2>1, <2>2, <2>3, NothingFails DEF Advance
<1>5. ASSUME NEW t \in Turns PROVE ~Disconnect(t)
  BY NothingFails
<1>. QED
  BY <1>2, <1>3, <1>4, <1>5 DEF Next

THEOREM FitInvariance == Calm => (Spec => [](TypeInv /\ CalmInv /\ FitInv))
<1> SUFFICES ASSUME Calm PROVE Spec => [](TypeInv /\ CalmInv /\ FitInv)
  OBVIOUS
<1>1. TypeInv /\ CalmInv /\ FitInv /\ [Next]_vars => FitInv'
  BY FitStep
<1>. QED
  BY <1>1, FitInit, CalmInvariance, TypeInvariance, PTL DEF Spec

\* workflow.py, clarify.py: a message that names all it asks about is answered
\* from the cache only with rows fetched for that.
THEOREM ReplaysFit == Calm => (Spec => []SelfContainedReplaysFit)
<1> SUFFICES ASSUME Calm PROVE Spec => []SelfContainedReplaysFit
  OBVIOUS
<1>1. FitInv => SelfContainedReplaysFit
  BY DEF FitInv
<1>. QED
  BY FitInvariance, <1>1, PTL

\* A turn that clarifies has been told of no company; one that does not, keeps
\* the thread's when it names none.
LEMMA SlotsStep ==
    ASSUME Calm, TypeInv, CalmInv, FitInv, [Next]_vars, NEW c \in Convs,
           slots[c] # NoCompany
    PROVE  slots'[c] # NoCompany
<1>1. TypeOK
  BY DEF TypeInv
<1>2. CASE UNCHANGED vars
  BY <1>2 DEF vars
<1>3. ~Restart
  BY DEF Calm, Restart
<1>4. ASSUME NEW t \in Turns, Gate(t) PROVE slots'[c] # NoCompany
  <2>1. CASE slots' = [slots EXCEPT ![conv[t]] = Merged(t)]
    <3>1. c = conv[t] => Merged(t) # NoCompany
      BY DEF Merged
    <3>. QED
      BY <1>1, <2>1, <3>1 DEF TypeOK
  <2>2. CASE slots' = slots
    BY <2>2
  <2>. QED
    BY <1>4, <2>1, <2>2 DEF Gate, Consult
<1>5. ASSUME NEW t \in Turns, Clarified(t) PROVE slots'[c] # NoCompany
  <2>1. c # conv[t]
    BY <1>5 DEF Clarified, FitInv, Understood
  <2>2. \E named : slots' = [slots EXCEPT ![conv[t]] = named]
    BY <1>5 DEF Clarified, Consult
  <2>. QED
    BY <1>1, <2>1, <2>2 DEF TypeOK
<1>6. ASSUME NEW t \in Turns,
             \/ Begin(t) \/ Command(t) \/ Reply(t) \/ Request(t) \/ LlmCalls(t)
             \/ LlmAnswers(t) \/ StartTools(t) \/ SqlDone(t) \/ ChartDone(t)
             \/ ToolFails(t) \/ AfterTool(t) \/ Close(t) \/ EndFailed(t)
      PROVE  slots' = slots
  <2>1. CASE Close(t)
    BY <2>1 DEF Close
  <2>2. CASE EndFailed(t)
    BY <2>2 DEF EndFailed, shared
  <2>. QED
    BY <1>1, <1>6, <2>1, <2>2, PlainSteps DEF Plainly
<1>7. ASSUME NEW t \in Turns, Begin(t) \/ Advance(t) \/ Disconnect(t)
      PROVE  slots'[c] # NoCompany
  BY <1>4, <1>5, <1>6, <1>7, NothingFails DEF Advance
<1>. QED
  BY <1>2, <1>3, <1>7 DEF Next

\* workflow.py: a thread that knows its company never forgets it.
THEOREM SlotsAreKept == Calm => (Spec => SlotsNeverForgotten)
<1> SUFFICES ASSUME Calm PROVE Spec => SlotsNeverForgotten
  OBVIOUS
<1>1. TypeInv /\ CalmInv /\ FitInv /\ [Next]_vars
        => [\A c \in Convs : slots[c] # NoCompany => slots'[c] # NoCompany]_vars
  BY SlotsStep
<1>. QED
  BY <1>1, FitInvariance, PTL DEF Spec, SlotsNeverForgotten
=============================================================================

------------------------------- MODULE ToolUse -------------------------------
(***************************************************************************)
(* The engine's tool registry, its audit trail, the memory tools, and the  *)
(* pages and commands of DefaultWorkflowHandler that look at them.         *)
(*                                                                         *)
(* ToolRegistry.execute waits where it calls the audit logger and where it *)
(* calls the tool: one action is the stretch from one wait to the next,    *)
(* and a call's `stage' says what it waits for.  A logger's log_event may  *)
(* raise, and may have recorded the event or not when it does.  The tools  *)
(* run on DemoAgentMemory, which never waits; a query or a chart (external *)
(* services) succeeds, fails, or raises.                                   *)
(***************************************************************************)
EXTENDS AgentMemory

CONSTANTS
    Users,
    GroupsOf,      \* group_memberships
    Tools,         \* tool names
    Wirings,       \* the registries the wiring of an application may begin with
    AccessChoices, \* AccessChoices[t]: the access_groups t may be registered with later
    Calls,         \* tool calls in flight; a finished one makes room for a new one
    Audited,       \* subset of {"access", "invocation", "result"}: AuditConfig
    Faults,        \* subset of {"audit", "tool"}
    ContextLimit,  \* memories put into a prompt: 5
    SearchLimit,   \* memories a search returns: args.limit or 10
    ListLimit,     \* memories of each kind on the /memories page: 10
    MaxIssued,     \* bound on the memories saved
    NoCall

VARIABLES
    registry,      \* _tools: name |-> access_groups
    call,          \* call[c]: the execution of c, or NoCall
    said           \* the last memory command: who, which id, what was answered

vars == <<registry, call, said, memories, texts, issued, toolIds, gone>>

SqlTools   == {"run_sql", "sql_query", "execute_sql", "query_sql"}
ChartTools == {"visualize_data", "create_chart", "plot_data", "generate_chart"}
SearchTool == "search_saved_correct_tool_uses"
SaveTool   == "save_question_tool_args"
SaveText   == "save_text_memory"

Stages  == {"asked", "denying", "granting", "invoking", "running", "logging", "done"}
Results == {"none", "absent", "denied", "invalid", "ok", "failed", "raised"}
Events  == {"denied", "granted", "invoked", "succeeded", "failed"}
\* schemas: the tools offered with the request to the model, while it answers;
\* offered: whether the tool called was one of them; history: what the tool
\* returned, and whether the logger raised.
CallRecords == [stage : Stages, user : Users, schemas : SUBSET Tools,
                tool : Tools \cup {NoTool}, offered : BOOLEAN, about : Questions,
                trail : Seq(Events), saved : SUBSET (1..MaxIssued),
                found : BOOLEAN, result : Results,
                returned : {"none", "ok", "failed"}, loggerRaised : BOOLEAN]
Kept == [id : 1..MaxIssued, about : Questions]
KeptTool == [id : 1..MaxIssued, about : Questions, tool : Tools \cup {"run_sql"}]

ASSUME ToolUseAssumption ==
    /\ MaxIssued \in Nat /\ ContextLimit \in Nat /\ ListLimit \in Nat
    /\ \A wiring \in Wirings : DOMAIN wiring \subseteq Tools
    /\ NoCall \notin CallRecords

TypeOK ==
    /\ DOMAIN registry \subseteq Tools
    /\ call \in [Calls -> CallRecords \cup {NoCall}]
    /\ said \in [by : Users \cup {NoCall}, id : 0..MaxIssued,
                 answer : {"", "refused", "deleted", "unknown"}]
    /\ memories \in Seq(KeptTool) /\ texts \in Seq(Kept)
    /\ issued \in 0..MaxIssued
    /\ toolIds \subseteq 1..issued /\ gone \subseteq 1..issued

Init ==
    /\ registry \in Wirings
    /\ call = [c \in Calls |-> NoCall]
    /\ said = [by |-> NoCall, id |-> 0, answer |-> ""]
    /\ MemoryInit

------------------------------------------------------------------------------
(* The registry. *)

\* A second registration replaces the first.
SlipRegister(t, groups) ==
    /\ registry' = [n \in DOMAIN registry \cup {t} |-> IF n = t THEN groups ELSE registry[n]]
    /\ UNCHANGED <<call, said, memoryVars>>

\* A name already taken raises.
Register(t, groups) ==
    /\ t \notin DOMAIN registry
    /\ registry' = [n \in DOMAIN registry \cup {t} |-> IF n = t THEN groups ELSE registry[n]]
    /\ UNCHANGED <<call, said, memoryVars>>

Permitted(u, t) == registry[t] = {} \/ registry[t] \cap GroupsOf[u] # {}

GetSchemas(u) == {t \in DOMAIN registry : Permitted(u, t)}

------------------------------------------------------------------------------
(* ToolRegistry.execute. *)

\* The stage after `stage': log calls that AuditConfig leaves out are skipped.
Skipped(stage) ==
    CASE stage = "granting" /\ "access" \notin Audited ->
             IF "invocation" \in Audited THEN "invoking" ELSE "running"
      [] stage = "invoking" /\ "invocation" \notin Audited -> "running"
      [] stage = "denying" /\ "access" \notin Audited -> "done"
      [] stage = "logging" /\ "result" \notin Audited -> "done"
      [] OTHER -> stage

At(c, stage) == call[c] # NoCall /\ call[c].stage = stage

\* A turn of u asks the model, with the schemas of the tools u may use.
Ask(c, u, about) ==
    /\ call[c] = NoCall \/ At(c, "done")
    /\ call' = [call EXCEPT ![c] =
           [stage |-> "asked", user |-> u, schemas |-> GetSchemas(u), tool |-> NoTool,
            offered |-> FALSE, about |-> about, trail |-> <<>>, saved |-> {},
            found |-> FALSE, result |-> "none", returned |-> "none", loggerRaised |-> FALSE]]
    /\ UNCHANGED <<registry, said, memoryVars>>

\* The model calls tool t, one it was offered or not.
Execute(c, t, valid) ==
    /\ At(c, "asked")
    /\ LET begin(stage, result) ==
               call' = [call EXCEPT ![c] =
                   [@ EXCEPT !.tool = t, !.offered = t \in call[c].schemas, !.schemas = {},
                             !.stage = Skipped(stage), !.result = result]]
       IN  IF t \notin DOMAIN registry          THEN begin("done", "absent")
           ELSE IF ~Permitted(call[c].user, t) THEN begin("denying", "denied")
           ELSE IF ~valid                      THEN begin("done", "invalid")
           ELSE begin("granting", "none")
    /\ UNCHANGED <<registry, said, memoryVars>>

\* The result is recorded as the tool reported it.
SlipEventOf(k) ==
    CASE k.stage = "denying"  -> "denied"
      [] k.stage = "granting" -> "granted"
      [] k.stage = "invoking" -> "invoked"
      [] OTHER -> k.result

\* What the event of a stage records.
EventOf(k) ==
    CASE k.stage = "denying"  -> "denied"
      [] k.stage = "granting" -> "granted"
      [] k.stage = "invoking" -> "invoked"
      [] OTHER -> IF k.result = "ok" THEN "succeeded" ELSE "failed"

\* The trail of k with this event.
Logged(k) == Append(k.trail, EventOf(k))

\* The stage after an event.
NextStage(stage) ==
    CASE stage = "granting" -> Skipped("invoking")
      [] stage = "invoking" -> "running"
      [] OTHER -> "done"

Logs(c) ==
    /\ \E stage \in {"denying", "granting", "invoking", "logging"} : At(c, stage)
    /\ call' = [call EXCEPT ![c] = [@ EXCEPT !.trail = Logged(call[c]),
                                             !.stage = NextStage(call[c].stage)]]
    /\ UNCHANGED <<registry, said, memoryVars>>

\* The invocation is logged when the tool has run.
SlipLogRaises(c) ==
    /\ "audit" \in Faults
    /\ \E stage \in {"denying", "granting", "invoking", "logging"} : At(c, stage)
    /\ \E trail \in {call[c].trail, Logged(call[c])} :
           call' = [call EXCEPT ![c] =
               [@ EXCEPT !.trail = trail,
                         !.stage = NextStage(call[c].stage)]]
    /\ UNCHANGED <<registry, said, memoryVars>>

\* The logger raises.  Before the tool the exception leaves execute(); after
\* it, it is taken for a failure of the tool.
LogRaises(c) ==
    /\ "audit" \in Faults
    /\ \E stage \in {"denying", "granting", "invoking", "logging"} : At(c, stage)
    /\ \E trail \in {call[c].trail, Logged(call[c])} :
           call' = [call EXCEPT ![c] =
               [@ EXCEPT !.trail = trail,
                         !.stage = "done", !.loggerRaised = TRUE,
                         !.result = IF call[c].stage = "logging" THEN "failed" ELSE "raised"]]
    /\ UNCHANGED <<registry, said, memoryVars>>

\* The tool of c returns a result.
Returns(c, result, saved, found) ==
    call' = [call EXCEPT ![c] = [@ EXCEPT !.result = result, !.stage = Skipped("logging"),
                                          !.returned = result,
                                          !.saved = saved, !.found = found]]

\* save_question_tool_args: the tool named in the arguments is run_sql here.
RunSaveTool(c) ==
    /\ At(c, "running") /\ call[c].tool = SaveTool /\ issued < MaxIssued
    /\ SaveToolUsage(call[c].about, "run_sql")
    /\ Returns(c, "ok", {issued + 1}, FALSE)
    /\ UNCHANGED <<registry, said>>

RunSaveText(c) ==
    /\ At(c, "running") /\ call[c].tool = SaveText /\ issued < MaxIssued
    /\ SaveTextMemory(call[c].about)
    /\ Returns(c, "ok", {issued + 1}, FALSE)
    /\ UNCHANGED <<registry, said>>

RunSearch(c) ==
    /\ At(c, "running") /\ call[c].tool = SearchTool
    /\ \E filter \in {NoTool} \cup Tools :
           Returns(c, "ok", {}, SearchSimilarUsage(call[c].about, filter, SearchLimit) # <<>>)
    /\ UNCHANGED <<registry, said, memoryVars>>

\* A query or a chart.
RunOther(c) ==
    /\ At(c, "running") /\ call[c].tool \notin {SaveTool, SaveText, SearchTool}
    /\ \E result \in {"ok", "failed"} : Returns(c, result, {}, FALSE)
    /\ UNCHANGED <<registry, said, memoryVars>>

\* "Execution failed": no result event is written.
ToolRaises(c) ==
    /\ "tool" \in Faults
    /\ At(c, "running") /\ call[c].tool \notin {SaveTool, SaveText, SearchTool}
    /\ call' = [call EXCEPT ![c] = [@ EXCEPT !.result = "failed", !.stage = "done"]]
    /\ UNCHANGED <<registry, said, memoryVars>>

------------------------------------------------------------------------------
(* DefaultWorkflowHandler: the memory commands, typed by anyone. *)

Admin(u) == "admin" \in GroupsOf[u]

\* The texts, then the tool uses, newest first, each with a delete button.
MemoriesPage == Recent(texts, ListLimit) \o Recent(memories, ListLimit)

Says(u, id, answer) == said' = [by |-> u, id |-> id, answer |-> answer]

Commands(u) == {"/help"} \cup (IF Admin(u) THEN {"/status", "/memories", "/delete"} ELSE {})

\* Anyone may delete.
SlipDelete(u, id) ==
    /\ \/ DeleteById(id) /\ Says(u, id, "deleted")
       \/ id \notin Ids(memories) /\ DeleteTextMemory(id) /\ Says(u, id, "deleted")
    /\ UNCHANGED <<registry, call>>

\* /delete id, typed or clicked on a page that may be out of date: a tool use
\* of that id is looked for first, then a text.
Delete(u, id) ==
    /\ \/ "/delete" \notin Commands(u) /\ Says(u, 0, "refused") /\ UNCHANGED memoryVars
       \/ /\ "/delete" \in Commands(u)
          /\ \/ DeleteById(id) /\ Says(u, id, "deleted")
             \/ id \notin Ids(memories) /\ DeleteTextMemory(id) /\ Says(u, id, "deleted")
             \/ /\ id \notin Ids(memories) \cup Ids(texts)
                /\ Says(u, 0, "unknown") /\ UNCHANGED memoryVars
    /\ UNCHANGED <<registry, call>>

\* clear_memories, which no command reaches.
Clear ==
    /\ \E tool \in {NoTool, "run_sql"}, before \in {1 + issued \div 2, issued + 1} :
           ClearMemories(tool, before)
    /\ gone' # gone
    /\ said' = [by |-> NoCall, id |-> 0, answer |-> ""]
    /\ UNCHANGED <<registry, call>>

------------------------------------------------------------------------------
(* The setup pages. *)

\* Either memory tool counts as a memory system.
SlipAnalyzeSetup(names) ==
    LET sql == names \cap SqlTools # {}
        viz == names \cap ChartTools # {}
        memory == {SearchTool, SaveTool} \cap names # {}
    IN  [sql |-> sql, viz |-> viz, memory |-> memory,
         partial |-> memory, complete |-> sql /\ memory /\ viz]

AnalyzeSetup(names) ==
    LET sql == names \cap SqlTools # {}
        viz == names \cap ChartTools # {}
        memory == {SearchTool, SaveTool} \subseteq names
    IN  [sql |-> sql, viz |-> viz, memory |-> memory,
         partial |-> {SearchTool, SaveTool} \cap names # {}, complete |-> sql /\ memory /\ viz]

StatusCards(a) ==
    [sql |-> IF a.sql THEN "success" ELSE "error",
     memory |-> IF a.memory THEN "success" ELSE "warning",
     viz |-> IF a.viz THEN "success" ELSE "info"]

\* What the guidance asks for; {} is no guidance.
Guidance(a) ==
    IF ~a.sql THEN {"sql"}
    ELSE (IF a.memory THEN {} ELSE {"memory"}) \cup (IF a.viz THEN {} ELSE {"viz"})

StatusPage(u) ==
    LET a == AnalyzeSetup(GetSchemas(u))
    IN  [verdict |-> IF a.complete THEN "excellent" ELSE IF a.sql THEN "good" ELSE "action",
         memoryLine |-> IF a.memory THEN "complete" ELSE IF a.partial THEN "incomplete" ELSE "missing",
         cards |-> StatusCards(a), guidance |-> Guidance(a)]

\* The card an admin is greeted with, and the commands on its buttons.
AdminCard(a) ==
    [status |-> IF ~a.sql THEN "error" ELSE IF a.memory THEN "success" ELSE "warning",
     buttons |-> (IF a.sql THEN {"/help"} ELSE {}) \cup (IF a.memory THEN {"/memories"} ELSE {})]

UserCard(a) == [status |-> IF a.sql THEN "welcome" ELSE "setup required", buttons |-> {}]

StarterUi(u) ==
    LET a == AnalyzeSetup(GetSchemas(u)) IN IF Admin(u) THEN AdminCard(a) ELSE UserCard(a)

\* The texts the enhancer adds to the system prompt of a turn about `query'.
ContextFor(query) == SearchTextMemories(query, ContextLimit)

------------------------------------------------------------------------------
Next ==
    \/ \E t \in Tools : \E groups \in AccessChoices[t] : Register(t, groups)
    \/ \E c \in Calls, u \in Users, about \in Questions : Ask(c, u, about)
    \/ \E c \in Calls, t \in Tools, valid \in BOOLEAN : Execute(c, t, valid)
    \/ \E c \in Calls : \/ Logs(c) \/ LogRaises(c)
                        \/ RunSaveTool(c) \/ RunSaveText(c) \/ RunSearch(c)
                        \/ RunOther(c) \/ ToolRaises(c)
    \/ \E u \in Users, id \in 1..issued : Delete(u, id)
    \/ Clear

Spec == Init /\ [][Next]_vars

------------------------------------------------------------------------------
(* Properties. *)

\* Eviction is oldest first, in each list by itself and whatever was deleted
\* in between: a memory that is missing from its list and was not deleted is
\* older than every memory still in it, and no list outgrows max_items.
\* (in_memory.py: the cut after the append, del by position, the filters of
\* clear_memories.)
KeepsNewestOf(s, mine) ==
    /\ Len(s) <= MaxItems
    /\ Ids(s) \subseteq mine
    /\ \A i, j \in DOMAIN s : i < j => s[i].id < s[j].id
    /\ \A lost \in mine \ (Ids(s) \cup gone) : \A i \in DOMAIN s : lost < s[i].id
KeepsNewest ==
    /\ KeepsNewestOf(memories, toolIds)
    /\ KeepsNewestOf(texts, (1..issued) \ toolIds)

Recorded(k, event) == \E i \in DOMAIN k.trail : k.trail[i] = event

\* What is on the trail of a call when its tool runs.
Granted == IF "access" \in Audited THEN <<"granted">> ELSE <<>>
Invoked == IF "invocation" \in Audited THEN <<"invoked">> ELSE <<>>

\* The audit trail and the answer to the model tell what happened.  A tool
\* returned something, or saved or found a memory, only in a call whose access
\* and invocation were recorded before, in this order; a call whose trail or
\* answer is a denial never got there.  A result on the trail is what the tool
\* returned, and only a logger that raised keeps it off.  The model is told of a
\* success exactly when the tool returned one and the logger did not raise behind
\* it: then alone a call that took effect is reported as failed
\* (registry.py:249-278, where one except clause covers tool and logger).
TellsEffects(k) ==
    /\ k.saved # {} \/ k.found => k.returned = "ok"
    /\ k.returned # "none" => IsPrefix(Granted \o Invoked, k.trail)
    /\ k.result \in {"absent", "denied", "invalid", "raised"} => k.returned = "none"
    /\ Recorded(k, "denied") => Len(k.trail) = 1 /\ k.returned = "none"
    /\ Recorded(k, "succeeded") => k.returned = "ok"
    /\ Recorded(k, "failed") => k.returned = "failed"
    /\ k.stage = "done" =>
          /\ k.result = "ok" <=> k.returned = "ok" /\ ~k.loggerRaised
          /\ k.returned = "failed" => k.result = "failed"
          /\ k.returned # "none" /\ ~k.loggerRaised /\ "result" \in Audited =>
                Recorded(k, "succeeded") \/ Recorded(k, "failed")
TrailTellsEffects == \A c \in Calls : call[c] # NoCall => TellsEffects(call[c])

\* A tool whose schema went with a request is not refused when the model calls
\* it, whatever was registered while the model was answering: registrations are
\* never replaced, so what get_schemas offered, execute permits.
OfferedToolsRun ==
    \A c \in Calls : call[c] # NoCall /\ call[c].result \in {"absent", "denied"} => ~call[c].offered

\* A memory leaves its list in three ways only: it is the oldest of a full list
\* to which one is added; an administrator asked for exactly it and is told it
\* was deleted; the memory is cleared.  A user who is told "deleted" was an
\* administrator whose id went, and nobody else's memory went with it.
OnlyAdminsForget ==
    [][LET held  == Ids(memories) \cup Ids(texts)
           left  == held \ (Ids(memories') \cup Ids(texts'))
       IN  /\ issued' # issued =>
                  /\ Cardinality(left) <= 1
                  /\ left \subseteq {s[1].id : s \in {s \in {memories, texts} : Len(s) = MaxItems}}
           /\ issued' = issued /\ left # {} =>
                  said'.by = NoCall \/ (Admin(said'.by) /\ said'.answer = "deleted" /\ left = {said'.id})
           /\ said'.answer = "deleted" /\ said' # said => left = {said'.id}]_vars

\* Would execute() run t for u, given valid arguments?
Runs(u, t) == t \in DOMAIN registry /\ Permitted(u, t)

\* What the pages say is so: three green cards, the verdict "excellent" and no
\* guidance go together; a green card stands for tools that would run for that
\* user (both memory tools for the memory card); a starter card promises no
\* more than the status page, and no button that would be refused; the /memories
\* page lists the newest of each kind; and neither it nor the context a prompt is
\* given holds a deleted memory.
PagesKeepTheirWord ==
    /\ \A query \in Questions : ToSet(ContextFor(query)) \cap gone = {}
    /\ ToSet(MemoriesPage) \cap gone = {}
    /\ \A kind \in {toolIds, (1..issued) \ toolIds} :
           LET shown == ToSet(MemoriesPage) \cap kind
               held  == (Ids(memories) \cup Ids(texts)) \cap kind
           IN  /\ Cardinality(shown) = (IF Cardinality(held) < ListLimit THEN Cardinality(held) ELSE ListLimit)
               /\ \A id \in shown, other \in held \ shown : other < id
    /\ \A u \in Users :
        LET page == StatusPage(u)  starter == StarterUi(u)
            green == {card \in DOMAIN page.cards : page.cards[card] = "success"}
        IN  /\ page.verdict = "excellent" <=> green = {"sql", "memory", "viz"}
            /\ page.verdict = "excellent" <=> page.guidance = {}
            /\ page.guidance \cap green = {}
            /\ "sql" \in green <=> \E t \in SqlTools : Runs(u, t)
            /\ "memory" \in green <=> Runs(u, SearchTool) /\ Runs(u, SaveTool)
            /\ page.memoryLine = "complete" <=> "memory" \in green
            /\ starter.status = "success" => {"sql", "memory"} \subseteq green
            /\ starter.status \in {"error", "setup required"} <=> page.verdict = "action"
            /\ starter.buttons \subseteq Commands(u)
==============================================================================

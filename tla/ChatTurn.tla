------------------------------ MODULE ChatTurn ------------------------------
(***************************************************************************)
(* A chat turn from POST /api/chat to [DONE], and what turns share.        *)
(*                                                                         *)
(* app/server.py streams what Agent.send_message yields; the agent runs    *)
(* app/workflow.py (slots, clarification, answer cache), then the tool     *)
(* loop; app/sql.py and app/charts.py leave their results in the `_pending'*)
(* stash of app/cache.py; after the turn app/hooks.py takes the stash and  *)
(* fills the answer cache, and the server sends the provenance it copied   *)
(* from the stash while streaming.                                         *)
(*                                                                         *)
(* One process, one event loop: a turn runs undisturbed until it yields a  *)
(* chunk to the client or awaits a worker thread (a language-model call, a *)
(* query).  One action is one such stretch, named for what it does, and    *)
(* `stage' says what the turn waits for at its end.                        *)
(*                                                                         *)
(* Of the four slots (company, metric, period, basis) the company stands   *)
(* for all: it is asked for, remembered and inherited like the others, and *)
(* a text that names it names all it needs.                                *)
(* The data version of cached answers is AnswerCache's subject: here the   *)
(* filings do not change.                                                  *)
(***************************************************************************)
EXTENDS Naturals, Sequences, FiniteSets, SequencesExt

CONSTANTS
    Turns,               \* requests
    Convs,               \* conversation ids
    Companies,           \* companies of the catalog
    Texts,               \* normalised message texts
    CompanyIn,           \* CompanyIn[x]: the company x names, or NoCompany
    Rankings,            \* texts that ask for no company: rankings, listings
    Commands,            \* texts the engine answers itself: "help", "status"...
    ToolCalls,           \* the tool-call lists a model response may hold
    MaxToolIterations,   \* app/agent.py: 3
    Serial,              \* TRUE: clients wait for [DONE], as app.js does (busy)
    Faults,              \* subset of {"llm", "disconnect", "disk", "restart"}
    NoCompany, NoRun, NoTurn, NoReport

ASSUME TextAssumption == CompanyIn \in [Texts -> Companies \cup {NoCompany}]
ASSUME KindAssumption == Rankings \subseteq Texts /\ Commands \subseteq Texts
ASSUME LimitAssumption == MaxToolIterations \in Nat \ {0}
ASSUME CallsAssumption ==
    \A list \in ToolCalls : /\ list \in Seq({"run_sql", "visualize_data"})
                            /\ list # <<>>
ASSUME FaultsAssumption ==
    Serial \in BOOLEAN /\ Faults \subseteq {"llm", "disconnect", "disk", "restart"}
ASSUME NoRunAssumption == NoRun \notin Turns \X Nat

VARIABLES
    \* Shared by all turns.
    slots,       \* slots[c]: the company in conversations/{c}/state.json
    disk,        \* disk[c]: the messages the conversation store holds
    opened,      \* opened[c]: the metadata.json of c is there and can be read
    pending,     \* pending[c]: the stash of conversation c
    cache,       \* cache[x]: the report cached under text x, or NoReport
    \* Per turn.
    stage,       \* stage[t]: what t waits for
    conv,        \* conv[t], text[t]: the request
    text,
    isNew,       \* isNew[t]: is_new_conversation
    company,     \* company[t]: the merged slot of t
    msgs,        \* msgs[t]: conversation.messages in memory
    todo,        \* todo[t]: tool calls still to run
    iteration,   \* iteration[t]: tool_iterations
    copy,        \* copy[t]: the SQL run in the server's pending_copy
    \* History.
    blind,       \* turns that took a conversation with messages for a new one
    ran,         \* ran[t]: SQL runs of t so far
    replayed,    \* replayed[t]: the report t was answered with, or NoReport
    shown        \* shown[t]: the SQL run whose provenance the client was sent

shared == <<slots, disk, opened, pending, cache>>
request == <<conv, text, isNew, blind>>
vars == <<slots, disk, opened, pending, cache, stage, conv, text, isNew, blind, company,
          msgs, todo, iteration, copy, ran, replayed, shown>>
------------------------------------------------------------------------------
(***************************************************************************)
(* Data                                                                    *)
(***************************************************************************)

\* Definitions named Slip... are the definition that follows them with one
\* plausible mistake; the properties are checked to notice it.

\* Stages at which the turn has yielded a chunk; at the others it awaits a
\* worker thread, has not begun, or has ended.
AtChunk == {"begun", "asked", "calling", "result", "closing", "reply", "failed"}
Stages == AtChunk \cup {"new", "clarify", "llm", "tool", "saved", "dropped"}

InFlight(t) == stage[t] \notin {"new", "saved", "dropped"}

\* A message: its role, the turn that wrote it, what its text is ("" when
\* empty), and the tool calls it makes (assistant) or answers (tool).
Message(role, t, kind, calls) ==
    [role |-> role, by |-> t, kind |-> kind, calls |-> calls]

\* Finitely many call ids.
CallSets == {ids \in SUBSET (Turns \X Nat \X Nat) : IsFiniteSet(ids)}

Messages == [role : {"user", "assistant", "tool"}, by : Turns,
             kind : {"", "ask", "prose", "fallback", "result"},
             calls : CallSets]

\* The n-th SQL run of a turn; the rows and columns it returned go with it.
Runs == Turns \X Nat

\* An entry of _pending: the run, whether it returned rows, who drew the chart.
Stashes == [run : Runs \cup {NoRun}, rows : BOOLEAN, chart : Turns \cup {NoTurn}]

\* A cached report: who stored it, the run and the chart in it, who wrote its
\* markdown, and the company the run was about.
Reports == [by : Turns, run : Runs, chart : Turns \cup {NoTurn}, wrote : Turns,
            company : Companies \cup {NoCompany}]

EmptyStash == [run |-> NoRun, rows |-> FALSE, chart |-> NoTurn]

\* The call ids of the tool calls t makes in an iteration.
CallIds(t, n, list) == {<<t, n, i>> : i \in 1..Len(list)}

TypeOK ==
    /\ slots \in [Convs -> Companies \cup {NoCompany}]
    /\ disk \in [Convs -> Seq(Messages)] /\ opened \in [Convs -> BOOLEAN]
    /\ pending \in [Convs -> Stashes]
    /\ cache \in [Texts -> Reports \cup {NoReport}]
    /\ stage \in [Turns -> Stages]
    /\ conv \in [Turns -> Convs] /\ text \in [Turns -> Texts]
    /\ isNew \in [Turns -> BOOLEAN] /\ blind \subseteq Turns
    /\ company \in [Turns -> Companies \cup {NoCompany}]
    /\ msgs \in [Turns -> Seq(Messages)]
    /\ todo \in [Turns -> Seq({"run_sql", "visualize_data"})]
    /\ iteration \in [Turns -> 0..MaxToolIterations]
    /\ copy \in [Turns -> Runs \cup {NoRun}]
    /\ ran \in [Turns -> Nat]
    /\ replayed \in [Turns -> Reports \cup {NoReport}]
    /\ shown \in [Turns -> Runs \cup {NoRun}]

Init ==
    /\ slots = [c \in Convs |-> NoCompany]
    /\ disk = [c \in Convs |-> <<>>] /\ opened = [c \in Convs |-> FALSE]
    /\ pending = [c \in Convs |-> EmptyStash]
    /\ cache = [x \in Texts |-> NoReport]
    /\ stage = [t \in Turns |-> "new"]
    /\ isNew = [t \in Turns |-> FALSE] /\ blind = {}
    /\ conv \in [Turns -> Convs] /\ text \in [Turns -> Texts]
    /\ company = [t \in Turns |-> NoCompany]
    /\ msgs = [t \in Turns |-> <<>>] /\ todo = [t \in Turns |-> <<>>]
    /\ iteration = [t \in Turns |-> 0] /\ ran = [t \in Turns |-> 0]
    /\ copy = [t \in Turns |-> NoRun] /\ shown = [t \in Turns |-> NoRun]
    /\ replayed = [t \in Turns |-> NoReport]

Goes(t, from, to) == stage[t] = from /\ stage' = [stage EXCEPT ![t] = to]

\* The first stash seen is kept.
SlipPeekKeepsFirst(t) ==
    copy' = [copy EXCEPT ![t] = IF @ # NoRun THEN @ ELSE pending[conv[t]].run]

\* The server looks at the stash after every chunk it has sent, before it asks
\* the agent for the next one.
Peek(t) ==
    copy' = [copy EXCEPT ![t] = IF pending[conv[t]].run = NoRun
                                THEN @ ELSE pending[conv[t]].run]

\* Messages without text are not stored.
SlipSavedUpToSkipsEmpty(c, messages, n) ==
    disk[c] \o SelectSeq(SubSeq(messages, Len(disk[c]) + 1, n), LAMBDA m : m.kind # "")

\* Everything in memory is appended.
SlipSavedUpToAll(c, messages, n) == disk[c] \o SubSeq(messages, 1, n)

\* update_conversation up to the n-th message: what is in memory beyond the
\* number of messages stored is appended.
SavedUpTo(c, messages, n) == disk[c] \o SubSeq(messages, Len(disk[c]) + 1, n)

Saved(c, messages) == SavedUpTo(c, messages, Len(messages))

Saves(t) ==
    /\ disk' = [disk EXCEPT ![conv[t]] = Saved(conv[t], msgs[t])]
    /\ opened' = [opened EXCEPT ![conv[t]] = TRUE]

\* metadata.json is overwritten in place, before any message: cut off there, it
\* is left as it was, whole or torn.
WritesMetadata(c) ==
    \E whole \in BOOLEAN : opened' = [opened EXCEPT ![c] = whole]

\* A save that raised or was cut off, at its metadata or between two messages.
SavesPartly(t) ==
    \/ /\ WritesMetadata(conv[t])
       /\ UNCHANGED disk
    \/ /\ opened' = [opened EXCEPT ![conv[t]] = TRUE]
       /\ \E n \in 1..(Len(msgs[t]) - 1) :
             disk' = [disk EXCEPT ![conv[t]] = SavedUpTo(conv[t], msgs[t], n)]

\* Two saves, neither of which came to its end.
SavesPartlyTwice(t) ==
    /\ WritesMetadata(conv[t])
    /\ \E n \in 0..(Len(msgs[t]) - 1) :
          disk' = [disk EXCEPT ![conv[t]] = SavedUpTo(conv[t], msgs[t], n)]
------------------------------------------------------------------------------
(***************************************************************************)
(* The gate: app/workflow.py                                               *)
(***************************************************************************)

\* A request arrives; the first chunk ("Processing your request") is sent.
Begin(t) ==
    /\ Serial => \A u \in Turns : conv[u] = conv[t] => ~InFlight(u)
    /\ Goes(t, "new", "begun")
    /\ UNCHANGED <<shared, request, company, msgs, todo, iteration, copy, ran,
                   replayed, shown>>

\* The workflow did not answer: a new conversation is saved as loaded, without
\* messages, and t's message goes after it and on to the model.  If saving
\* raises, the turn fails.
ToModel(t, base) ==
    \/ /\ stage' = [stage EXCEPT ![t] = "asked"]
       /\ msgs' = [msgs EXCEPT ![t] = Append(base, Message("user", t, "ask", {}))]
       /\ opened' = IF isNew'[t] THEN [opened EXCEPT ![conv[t]] = TRUE] ELSE opened
    \/ /\ "disk" \in Faults /\ isNew'[t]
       /\ stage' = [stage EXCEPT ![t] = "failed"]
       /\ msgs' = [msgs EXCEPT ![t] = base]
       /\ WritesMetadata(conv[t])

\* Every slot is known: save the slots, then answer from the cache (which may
\* miss because of a database error) or go on to the model.
Consult(t, base, named) ==
    /\ slots' = [slots EXCEPT ![conv[t]] = named]
    /\ company' = [company EXCEPT ![t] = named]
    /\ \/ /\ cache[text[t]] # NoReport
          /\ replayed' = [replayed EXCEPT ![t] = cache[text[t]]]
          /\ msgs' = [msgs EXCEPT ![t] = base \o
                <<Message("user", t, "ask", {}), Message("assistant", t, "prose", {})>>]
          /\ stage' = [stage EXCEPT ![t] = "reply"]
          /\ UNCHANGED opened
       \/ /\ ToModel(t, base)
          /\ UNCHANGED replayed

\* Only the message counts.
SlipMergedForgets(t) == CompanyIn[text[t]]

\* The thread overrides the message.
SlipMergedThreadFirst(t) ==
    IF slots[conv[t]] = NoCompany THEN CompanyIn[text[t]] ELSE slots[conv[t]]

\* The slots inherited from the thread are overridden by those in the message.
Merged(t) ==
    IF CompanyIn[text[t]] = NoCompany THEN slots[conv[t]] ELSE CompanyIn[text[t]]

\* The conversation is loaded, or, without a metadata.json that can be read,
\* made: whatever messages there are stay where they are, unseen.
Loads(t) ==
    /\ isNew' = [isNew EXCEPT ![t] = ~opened[conv[t]]]
    /\ blind' = IF opened[conv[t]] \/ disk[conv[t]] = <<>> THEN blind ELSE blind \cup {t}

Loaded(t) == IF opened[conv[t]] THEN disk[conv[t]] ELSE <<>>

\* Is it settled what t asks about?
Settled(t) == Merged(t) # NoCompany \/ text[t] \in Rankings

\* Load the conversation and its slots, and merge.
Gate(t) ==
    /\ stage[t] = "begun"
    /\ text[t] \notin Commands
    /\ Peek(t)
    /\ Loads(t)
    /\ \/ /\ Settled(t)
          /\ Consult(t, Loaded(t), Merged(t))
       \/ /\ ~Settled(t)
          /\ msgs' = [msgs EXCEPT ![t] = Loaded(t)]
          /\ stage' = [stage EXCEPT ![t] = "clarify"]
          /\ UNCHANGED <<slots, opened, company, replayed>>
    /\ UNCHANGED <<disk, pending, cache, conv, text, todo, iteration, ran, shown>>

\* A command is answered at once, and leaves no message in the conversation.
Command(t) ==
    /\ Goes(t, "begun", "reply")
    /\ text[t] \in Commands
    /\ Peek(t)
    /\ Loads(t)
    /\ msgs' = [msgs EXCEPT ![t] = Loaded(t)]
    /\ UNCHANGED <<shared, conv, text, company, todo, iteration, ran, replayed, shown>>

\* The clarifying model call returns (or raises): the slots as they were loaded
\* before it, plus what it understood, are saved, and a question is put unless
\* they are complete and the model is ready.
Clarified(t) ==
    /\ stage[t] = "clarify"
    /\ UNCHANGED <<request, copy>>
    /\ \E understood \in Companies \cup {NoCompany} :
          \/ /\ understood # NoCompany
             /\ Consult(t, msgs[t], understood)
          \/ /\ slots' = [slots EXCEPT ![conv[t]] = understood]
             /\ company' = [company EXCEPT ![t] = understood]
             /\ msgs' = [msgs EXCEPT ![t] = @ \o
                   <<Message("user", t, "ask", {}), Message("assistant", t, "prose", {})>>]
             /\ stage' = [stage EXCEPT ![t] = "reply"]
             /\ UNCHANGED <<opened, replayed>>
    /\ UNCHANGED <<disk, pending, cache, todo, iteration, ran, shown>>

\* Writing state.json raised, and may have emptied it: the agent takes it for a
\* failed workflow and falls through to the model, with the cache not consulted
\* and no question put.
GateSaveFails(t) ==
    /\ "disk" \in Faults
    /\ \/ /\ stage[t] = "begun"
          /\ Peek(t)
          /\ Loads(t)
          /\ text[t] \notin Commands /\ Settled(t)
          /\ ToModel(t, Loaded(t))
       \/ /\ stage[t] = "clarify"
          /\ UNCHANGED <<isNew, blind, copy>>
          /\ ToModel(t, msgs[t])
    /\ slots' \in {slots, [slots EXCEPT ![conv[t]] = NoCompany]}
    /\ UNCHANGED <<disk, pending, cache, conv, text, company, todo, iteration, ran,
                   replayed, shown>>

\* The workflow's answer has been streamed: save it and end.  The hooks that
\* follow a message are not run on this path.
Reply(t) ==
    /\ Goes(t, "reply", "saved")
    /\ Peek(t)
    /\ Saves(t)
    /\ shown' = [shown EXCEPT ![t] = copy'[t]]
    /\ UNCHANGED <<slots, pending, cache, request, company, msgs, todo, iteration,
                   ran, replayed>>

\* Saving raised: again the agent takes it for a failed workflow, and goes on to
\* the model with what it has answered in its history and the message again.  A
\* new conversation is saved once more first, which may raise and end the turn.
ReplySaveFails(t) ==
    /\ "disk" \in Faults
    /\ stage[t] = "reply"
    /\ Peek(t)
    /\ \/ /\ stage' = [stage EXCEPT ![t] = "asked"]
          /\ msgs' = [msgs EXCEPT ![t] = Append(@, Message("user", t, "ask", {}))]
          /\ IF isNew[t] THEN Saves(t) ELSE SavesPartly(t)
       \/ /\ isNew[t]
          /\ stage' = [stage EXCEPT ![t] = "failed"]
          /\ SavesPartlyTwice(t)
          /\ UNCHANGED msgs
    /\ UNCHANGED <<slots, pending, cache, request, company, todo, iteration, ran,
                   replayed, shown>>
------------------------------------------------------------------------------
(***************************************************************************)
(* The tool loop: Agent._send_message                                      *)
(***************************************************************************)

\* Chunks before the first model call have been sent.
Request(t) ==
    /\ Goes(t, "asked", "llm")
    /\ Peek(t)
    /\ UNCHANGED <<shared, request, company, msgs, todo, iteration, ran, replayed, shown>>

\* The model answers with tool calls, with or without text before them; only
\* that text is sent as a chunk.
LlmCalls(t) ==
    /\ stage[t] = "llm"
    /\ iteration' = [iteration EXCEPT ![t] = @ + 1]
    /\ \E list \in ToolCalls, kind \in {"", "prose"} :
          /\ msgs' = [msgs EXCEPT ![t] = Append(@,
                Message("assistant", t, kind, CallIds(t, iteration'[t], list)))]
          /\ todo' = [todo EXCEPT ![t] = list]
          /\ stage' = [stage EXCEPT ![t] = IF kind = "" THEN "tool" ELSE "calling"]
    /\ UNCHANGED <<shared, request, company, copy, ran, replayed, shown>>

\* The model answers with text only: a summary, the fallback sentence, nothing.
LlmAnswers(t) ==
    /\ Goes(t, "llm", "closing")
    /\ \E kind \in {"", "prose", "fallback"} :
          msgs' = [msgs EXCEPT ![t] =
             IF kind = "" THEN @ ELSE Append(@, Message("assistant", t, kind, {}))]
    /\ UNCHANGED <<shared, request, company, todo, iteration, copy, ran, replayed, shown>>

\* The model call raises: send_message turns it into error chunks.
LlmFails(t) ==
    /\ "llm" \in Faults
    /\ Goes(t, "llm", "failed")
    /\ UNCHANGED <<shared, request, company, msgs, todo, iteration, copy, ran,
                   replayed, shown>>

StartTools(t) ==
    /\ Goes(t, "calling", "tool")
    /\ Peek(t)
    /\ UNCHANGED <<shared, request, company, msgs, todo, iteration, ran, replayed, shown>>

\* The limit checked one iteration late.
SlipProceedLate(t, rest) ==
    LET calls == Last(msgs[t]).calls
        answer(id) == Message("tool", t, "result", {id})
    IN  /\ todo' = [todo EXCEPT ![t] = rest]
        /\ IF rest # <<>>
           THEN /\ stage' = [stage EXCEPT ![t] = "tool"]
                /\ UNCHANGED msgs
           ELSE /\ msgs' = [msgs EXCEPT ![t] = @ \o
                      [i \in 1..Cardinality(calls) |-> answer(<<t, iteration[t], i>>)]]
                /\ stage' = [stage EXCEPT ![t] =
                      IF iteration[t] <= MaxToolIterations THEN "llm" ELSE "closing"]

\* Only the last call of the list is answered.
SlipProceedLastOnly(t, rest) ==
    /\ todo' = [todo EXCEPT ![t] = rest]
    /\ IF rest # <<>>
       THEN /\ stage' = [stage EXCEPT ![t] = "tool"]
            /\ UNCHANGED msgs
       ELSE /\ msgs' = [msgs EXCEPT ![t] = Append(@, Message("tool", t, "result",
                  {<<t, iteration[t], Cardinality(Last(msgs[t]).calls)>>}))]
            /\ stage' = [stage EXCEPT ![t] =
                  IF iteration[t] < MaxToolIterations THEN "llm" ELSE "closing"]

\* After a tool call: the next one of the list; after the last, the results go
\* into the conversation, and the model is called again unless the limit is hit.
Proceed(t, rest) ==
    LET calls == Last(msgs[t]).calls
        answer(id) == Message("tool", t, "result", {id})
    IN  /\ todo' = [todo EXCEPT ![t] = rest]
        /\ IF rest # <<>>
           THEN /\ stage' = [stage EXCEPT ![t] = "tool"]
                /\ UNCHANGED msgs
           ELSE /\ msgs' = [msgs EXCEPT ![t] = @ \o
                      [i \in 1..Cardinality(calls) |-> answer(<<t, iteration[t], i>>)]]
                /\ stage' = [stage EXCEPT ![t] =
                      IF iteration[t] < MaxToolIterations THEN "llm" ELSE "closing"]

\* The stash is one for all conversations.
SlipSqlDoneEverywhere(t) ==
    /\ Goes(t, "tool", "result")
    /\ Head(todo[t]) = "run_sql"
    /\ ran' = [ran EXCEPT ![t] = @ + 1]
    /\ \E some \in BOOLEAN :
          pending' = [c \in Convs |-> [pending[c] EXCEPT !.run = <<t, ran'[t]>>,
                                                       !.rows = some]]
    /\ UNCHANGED <<slots, disk, opened, cache, request, company, msgs, todo, iteration,
                   copy, replayed, shown>>

\* run_sql succeeds: its run replaces the stashed one, a stashed chart stays.
SqlDone(t) ==
    /\ Goes(t, "tool", "result")
    /\ Head(todo[t]) = "run_sql"
    /\ ran' = [ran EXCEPT ![t] = @ + 1]
    /\ \E some \in BOOLEAN :
          pending' = [pending EXCEPT ![conv[t]].run = <<t, ran'[t]>>,
                                     ![conv[t]].rows = some]
    /\ UNCHANGED <<slots, disk, opened, cache, request, company, msgs, todo, iteration,
                   copy, replayed, shown>>

\* visualize_data succeeds: the file the model names is charted.
ChartDone(t) ==
    /\ Goes(t, "tool", "result")
    /\ Head(todo[t]) = "visualize_data"
    /\ pending' = [pending EXCEPT ![conv[t]].chart = t]
    /\ UNCHANGED <<slots, disk, opened, cache, request, company, msgs, todo, iteration,
                   copy, ran, replayed, shown>>

\* A failed tool is called again.
SlipToolFailsRetries(t) ==
    /\ stage[t] = "tool"
    /\ stage' = [stage EXCEPT ![t] = "calling"]
    /\ UNCHANGED <<shared, request, company, msgs, todo, iteration, copy, ran, replayed,
                   shown>>

\* A tool fails (a blocked or failing query, a timeout, a missing file): nothing
\* is stashed and, for this user group, nothing is streamed.
ToolFails(t) ==
    /\ stage[t] = "tool"
    /\ Proceed(t, Tail(todo[t]))
    /\ UNCHANGED <<shared, request, company, iteration, copy, ran, replayed, shown>>

\* A result has been streamed.
AfterTool(t) ==
    /\ stage[t] = "result"
    /\ Peek(t)
    /\ Proceed(t, Tail(todo[t]))
    /\ UNCHANGED <<shared, request, company, iteration, ran, replayed, shown>>
------------------------------------------------------------------------------
(***************************************************************************)
(* The end of a turn: saving, CacheWriteHook.after_message, provenance     *)
(***************************************************************************)

\* The hook's walk back through the whole conversation: the last message of a
\* role with some text, whichever turn wrote it.
LastWith(messages, role) ==
    LET at == {i \in 1..Len(messages) : messages[i].role = role /\ messages[i].kind # ""}
    IN  IF at = {} THEN Message(role, NoTurn, "", {})
        ELSE messages[CHOOSE i \in at : \A j \in at : j <= i]

\* What the hook stores, if anything, from the stash it has taken.  `company' is
\* the company the stashed query was about.
Report(t, stash) ==
    [by |-> t, run |-> stash.run, chart |-> stash.chart,
     wrote |-> LastWith(msgs[t], "assistant").by,
     company |-> company[stash.run[1]]]

Storable(t, stash) ==
    /\ stash.run # NoRun /\ stash.rows
    /\ LastWith(msgs[t], "assistant").kind = "prose"
    /\ LastWith(msgs[t], "user").kind # ""

\* The stash is looked at, not taken.
SlipHookLeaves(t) ==
    LET stash == pending[conv[t]]
        key == text[LastWith(msgs[t], "user").by]
    IN  /\ UNCHANGED pending
        /\ \/ /\ Storable(t, stash)
              /\ cache' = [cache EXCEPT ![key] = Report(t, stash)]
           \/ UNCHANGED cache

\* The stash is taken only when it is stored.
SlipHookTakesLate(t) ==
    LET stash == pending[conv[t]]
        key == text[LastWith(msgs[t], "user").by]
    IN  \/ /\ Storable(t, stash)
           /\ cache' = [cache EXCEPT ![key] = Report(t, stash)]
           /\ pending' = [pending EXCEPT ![conv[t]] = EmptyStash]
        \/ UNCHANGED <<cache, pending>>

\* CacheWriteHook.after_message: the stash is taken whatever becomes of it.
Hook(t) ==
    LET stash == pending[conv[t]]
        key == text[LastWith(msgs[t], "user").by]
    IN  /\ pending' = [pending EXCEPT ![conv[t]] = EmptyStash]
        /\ \/ /\ Storable(t, stash)
              /\ cache' = [cache EXCEPT ![key] = Report(t, stash)]
           \/ UNCHANGED cache    \* nothing to store, or put() failed

\* The last chunk has been sent: save, run the hook, send the provenance.
Close(t) ==
    /\ Goes(t, "closing", "saved")
    /\ Peek(t)
    /\ Saves(t)
    /\ Hook(t)
    /\ shown' = [shown EXCEPT ![t] = copy'[t]]
    /\ UNCHANGED <<slots, request, company, msgs, todo, iteration, ran, replayed>>

\* Saving raised: error chunks; the hook is not run.
CloseSaveFails(t) ==
    /\ "disk" \in Faults
    /\ Goes(t, "closing", "failed")
    /\ Peek(t)
    /\ SavesPartly(t)
    /\ UNCHANGED <<slots, pending, cache, request, company, msgs, todo, iteration, ran,
                   replayed, shown>>

\* The error chunks have been sent.  Nothing of the turn is saved; provenance is
\* still sent for whatever the server has copied.
EndFailed(t) ==
    /\ Goes(t, "failed", "dropped")
    /\ Peek(t)
    /\ shown' = [shown EXCEPT ![t] = copy'[t]]
    /\ UNCHANGED <<shared, request, company, msgs, todo, iteration, ran, replayed>>

\* The client goes away: the response is cancelled where it stands.
Disconnect(t) ==
    /\ "disconnect" \in Faults
    /\ InFlight(t)
    /\ stage' = [stage EXCEPT ![t] = "dropped"]
    /\ UNCHANGED <<shared, request, company, msgs, todo, iteration, copy, ran,
                   replayed, shown>>

\* The process dies at the gate: while the slots are written, or after that,
\* when a new conversation is.
DiesAtGate(t) ==
    LET gate == stage[t] = "begun" /\ text[t] \notin Commands /\ Settled(t)
        asked == stage[t] = "clarify"
        fresh == IF gate THEN ~opened[conv[t]] ELSE isNew[t]
    IN  /\ gate \/ asked
        /\ \/ /\ slots' = [slots EXCEPT ![conv[t]] = NoCompany]    \* torn
              /\ UNCHANGED opened
           \/ /\ \E named \in IF gate THEN {Merged(t)} ELSE Companies \cup {NoCompany} :
                    slots' = [slots EXCEPT ![conv[t]] = named]
              /\ IF fresh THEN WritesMetadata(conv[t]) ELSE UNCHANGED opened

\* The process restarts: files and database stay, the stash and turns are lost.
\* It may have died while a turn was saving its messages or its slots.
Restart ==
    /\ "restart" \in Faults
    /\ stage' = [t \in Turns |-> IF InFlight(t) THEN "dropped" ELSE stage[t]]
    /\ pending' = [c \in Convs |-> EmptyStash]
    /\ \/ UNCHANGED <<slots, disk, opened>>
       \/ /\ \E t \in Turns : /\ stage[t] \in {"reply", "closing"}
                              /\ SavesPartly(t) \/ Saves(t)
          /\ UNCHANGED slots
       \/ /\ \E t \in Turns : DiesAtGate(t)
          /\ UNCHANGED disk
    /\ UNCHANGED <<cache, request, company, msgs, todo, iteration, copy, ran, replayed,
                   shown>>

Advance(t) ==
    \/ Gate(t) \/ Command(t) \/ Clarified(t) \/ GateSaveFails(t) \/ Reply(t) \/ ReplySaveFails(t)
    \/ Request(t) \/ LlmCalls(t) \/ LlmAnswers(t) \/ LlmFails(t) \/ StartTools(t)
    \/ SqlDone(t) \/ ChartDone(t) \/ ToolFails(t) \/ AfterTool(t)
    \/ Close(t) \/ CloseSaveFails(t) \/ EndFailed(t)

Next == Restart \/ \E t \in Turns : Begin(t) \/ Advance(t) \/ Disconnect(t)

Spec == Init /\ [][Next]_vars

\* The event loop resumes whatever is ready, model and database calls return or
\* raise within their timeouts, and a client that stays reads its stream.
FairSpec == Spec /\ \A t \in Turns : WF_vars(Advance(t))
------------------------------------------------------------------------------
(***************************************************************************)
(* Properties                                                              *)
(***************************************************************************)

\* agent.py:662: every tool message follows, with only tool messages between,
\* the assistant message whose call it answers.
WellFormed(messages) ==
    \A i \in 1..Len(messages) :
        messages[i].role = "tool" =>
            \E j \in 1..(i - 1) :
                /\ messages[j].role = "assistant"
                /\ messages[i].calls \subseteq messages[j].calls
                /\ \A k \in (j + 1)..(i - 1) : messages[k].role = "tool"

\* No turn has taken the conversation, messages and all, for a new one: its
\* metadata.json was never torn when it was loaded.
SeenWhole(c) == \A t \in blind : conv[t] # c

\* So it is in what is stored and in what is sent to the model, whatever else
\* fails, in a conversation that was seen whole and whose turns do not overlap.
ToolRepliesFollowCalls ==
    /\ \A c \in Convs : SeenWhole(c) => WellFormed(disk[c])
    /\ \A t \in Turns : stage[t] = "llm" /\ SeenWhole(conv[t]) => WellFormed(msgs[t])

\* agent.py:1001: when a turn asks the model again, or closes at the tool limit,
\* each tool call it made has its answer right behind the message that makes it,
\* failed calls included, whatever fails and whoever else writes to the
\* conversation.
CallsAnswered ==
    \A t \in Turns : stage[t] \in {"llm", "closing"} =>
        \A j \in 1..Len(msgs[t]) : LET calls == msgs[t][j].calls IN
            msgs[t][j].role = "assistant" /\ msgs[t][j].by = t =>
                /\ j + Cardinality(calls) <= Len(msgs[t])
                /\ calls = UNION {msgs[t][j + i].calls : i \in 1..Cardinality(calls)}

\* update_conversation: what a finished turn had in its conversation is stored,
\* in order, and stays at the head of it, whatever failed in earlier turns or in
\* this one, as long as turns of a conversation do not overlap, unless it took a
\* conversation with messages for a new one.
FinishedTurnsKept ==
    \A t \in Turns \ blind : stage[t] = "saved" => IsPrefix(msgs[t], disk[conv[t]])

\* workflow.py: a thread that knows its company never forgets it, as long as its
\* turns do not overlap and state.json can be written.
SlotsNeverForgotten ==
    [][\A c \in Convs : slots[c] # NoCompany => slots'[c] # NoCompany]_vars

\* cache.py: _pending is shared by all turns, but rows stashed in one
\* conversation never reach another through it: not its reports, and not the
\* provenance sent to its clients.
StashStaysInThread ==
    /\ \A c \in Convs : pending[c].run # NoRun => conv[pending[c].run[1]] = c
    /\ \A x \in Texts : cache[x] # NoReport => conv[cache[x].run[1]] = conv[cache[x].by]
    /\ \A t \in Turns : shown[t] # NoRun => conv[shown[t][1]] = conv[t]

\* take_pending: a run is stashed or in one report, never in two places; no
\* question is answered with a run that another one was cached with.
RunsFiledOnce ==
    /\ \A x, y \in Texts : x # y /\ cache[x] # NoReport /\ cache[y] # NoReport
                              => cache[x].run # cache[y].run
    /\ \A x \in Texts, c \in Convs : cache[x] # NoReport => cache[x].run # pending[c].run

\* hooks.py: without faults and overlaps, a turn leaves no stash behind,
\* whatever the model did: fallback, no rows, no text, the tool limit.
NoStashLeftBehind ==
    \A c \in Convs : (\A t \in Turns : conv[t] = c => ~InFlight(t))
                       => pending[c] = EmptyStash

\* server.py: then the provenance a client is sent is that of its own last run,
\* and it is sent exactly if there was one.
ProvenanceOfLastRun ==
    \A t \in Turns : stage[t] = "saved" =>
        shown[t] = IF ran[t] = 0 THEN NoRun ELSE <<t, ran[t]>>

\* workflow.py, clarify.py: then a message that names all it asks about is
\* answered from the cache only with rows fetched for that.
SelfContainedReplaysFit ==
    \A t \in Turns : replayed[t] # NoReport /\ CompanyIn[text[t]] # NoCompany
                        => replayed[t].company = CompanyIn[text[t]]

\* Every accepted request ends, whichever tools the model calls.
TurnsEnd == \A t \in Turns : InFlight(t) ~> ~InFlight(t)
==============================================================================

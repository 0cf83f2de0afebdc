# TLA+ models of SJ AI

SJ AI answers questions about stock-exchange filings.  A browser posts a message to
a FastAPI server (`app/`); an agent from the bundled Vanna engine
(`vanna/src/vanna/core/agent`) decides with a language model which SQL to run,
streams text, a table and a chart back, and caches the finished report in
PostgreSQL.  Paths below are relative to the repository's root.

This directory holds TLA+ modules for the parts of the program that keep state and
can go wrong in ways a unit test does not reach, TLC configurations that check them
on small instances, and TLAPS proofs for every instance.  `PROJECT.json` is the
index: components, runs, the source lines of every definition, hazards, theorems.

Contents: 1 inventory, 2 modules, 3 how the models correspond to the code, 4 runs
and bounds, 5 fairness, 6 proofs, 7 where code and documentation disagree, 8 what
is not modelled, 9 what is left.

## 1. Inventory

| component | state it keeps | operations | hard behaviour | what makes it correct |
|---|---|---|---|---|
| Answer cache (`app/db_cache.py`, `fingerprint.py`) | tables `report_cache`, `query_log`; the data version is computed from the filings on each read | `get`, `put`, `current_version` | each call is two transactions; the ingestion pipeline commits between any two of them; any statement may raise; the process may die | a report found out of date is not replayed; what is replayed was current; both tables agree |
| Chat turn, server side (`app/server.py`, `app/web/app.js`) | per stream: `pending_copy` | stream chunks, peek at the stash, send provenance | runs between the agent's chunks; clients disconnect | provenance belongs to the query the client sees |
| Agent loop (`core/agent/agent.py`) | `conversation.messages` in memory, `tool_iterations` | workflow, tool loop, save, hooks, error chunks | awaits anywhere; tools and model raise; loop limit | tool messages follow the calls they answer; turns end |
| Workflow gate (`app/workflow.py`, `clarify.py`, `conversation.py`) | `conversations/{id}/state.json` | merge slots, clarify, replay, command | slots are read before a model call and written after it; a failing save is taken for a failed workflow | a thread does not lose what it is about; a replay fits the question |
| Stash and cache hook (`app/cache.py`, `hooks.py`) | module-level `_pending`, by conversation | remember, peek, take | one dictionary for all turns; outlives a failed turn | rows are filed once, under their own question |
| Conversation store (`file_system_conversation_store.py`) | `metadata.json`, one file per message | create, get, update (append by count), delete, list | nothing is atomic; two writers count the same files | a reader gets all that is stored or nothing; nothing is stored twice, or out of order |
| Tools of the application (`app/sql.py`, `charts.py`, `sql_guard.py`, `provenance.py`, `tools/run_sql.py`) | CSV files, the stash | `run_sql`, `visualize_data` | queries run in worker threads while other turns run, and raise; empty results; NULL figures; several periods | what is kept of a run is of that run; a ranking shows the latest figures |
| Tool registry and audit (`core/registry.py`, `core/audit/base.py`) | `_tools`, the audit trail | register, `get_schemas`, `execute` | three awaited log calls around the tool, each may raise; registration while the model answers | the trail tells what was done; what was offered is permitted |
| Agent memory (`in_memory.py`, `tools/agent_memory.py`, `core/enhancer/default.py`) | two capped lists | save, search, recent, delete, clear | eviction between deletions and filters | only the oldest goes by itself |
| Default workflow (`core/workflow/default.py`) | none of its own | commands, greeting, status and memories pages, delete | pages look at a registry and at lists that change behind them | pages promise nothing that is not so; only administrators delete |
| Slots of a thread (`app/clarify.py`, `conversation.py`, `workflow.py`) | `state.json` | merge, missing, clarify, decide | over many messages, with a model that fills slots and a file that may be lost | what was said once is not asked again |
| Model request (`core/agent/agent.py`, `integrations/openai/llm.py`, `app/llm.py`) | builders of partial tool calls, spans | filters, enhancer, middlewares, whole and streamed answers | fragments of several calls interleave; out of tokens; anything raises | the calls the model made arrive, whole |
| Page (`app/web/app.js`) | search box, list, stream buffer, busy flag | type, search, send, read | answers overtake each other; the stream is cut anywhere | every whole frame is handled once; the latest search's answer is that of the box |
| Catalog pages (`app/catalog.py`) | none | search companies, tags | escaping of a search text into a pattern | a search is literal |
| Cache migration (`scripts/migrate_answer_cache.py`) | files of the old cache, `report_cache`, `query_log` | migrate, `--delete-files` | dies half-way, is run again, the application stores meanwhile | an earlier answer never wins over a later one; running twice notes nothing twice |
| Evaluation (`core/evaluation`) | a semaphore, a queue, results | run, compare, stream, four evaluators | concurrency limit, raising evaluators, names that are not distinct | every case of a variant with a name of its own is reported; it ends |
| Configuration, prompts, schema text, component manager, chart generator, other integrations | none the application runs | | | (see 8) |

How they interact: the server iterates the agent's generator and looks at the stash
after every chunk it has sent.  The agent calls the gate, which calls `get` of the
answer cache; then, in the tool loop, the tools, which write the stash.  After
saving the conversation the agent runs `CacheWriteHook.after_message`, which takes
the stash and calls `put`.  Everything but worker-thread calls (model, queries) runs
on one event loop; two turns interleave exactly where one yields a chunk or awaits.

## 2. Modules

| module | what it is |
|---|---|
| `AnswerLedger` | abstract: what the answer cache promises.  A turn looks a report up at most once and gets the one filed under its own question, or files its own there, or neither; a report that could not be handed over leaves its turn open |
| `AnswerCache` | `get` and `put` transaction by transaction, the fingerprint, ingestion, restarts; implements `AnswerLedger` |
| `AnswerCacheProofs` | TLAPS proofs about `AnswerCache` |
| `ChatTurn` | turns from `POST /api/chat` to `[DONE]`: gate, tool loop, store, stash, hook, provenance, with faults and restarts |
| `ChatTurnProofs` | TLAPS proofs about `ChatTurn`: types and the stash |
| `ChatTurnMessagesProofs` | extends it: tool calls and their answers, what is stored of a turn |
| `ChatTurnCalmProofs` | extends that: what holds when nothing fails and turns do not overlap |
| `Subsequences` | the subsequences of a sequence by the positions they keep; used by the store, the request, the page, the catalogue and the migration |
| `Patterns` | texts, the `ILIKE` patterns made of them and what these match; used by the catalogue |
| `OperatorProofs` | TLAPS proofs of what the operators of `Subsequences` and `Patterns` return |
| `Transcript` | abstract: what those who write and read a conversation may rely on.  A reader gets all of it or nothing; turns add their own messages, in order; only a deletion between turns takes any out |
| `ConversationStore` | the files of one conversation: get, create, update, delete, each write of which may be cut off; implements `Transcript` |
| `ConversationStoreProofs` | TLAPS proofs about `ConversationStore`, and that it implements `Transcript` |
| `AgentMemory` | `DemoAgentMemory`: the two lists, saving, searching, deleting, clearing |
| `ToolUse` | extends `AgentMemory`: the registry, `execute` between its waits, the memory tools, the commands and pages of `DefaultWorkflowHandler` |
| `ToolUseProofs` | TLAPS proofs about `ToolUse` and the lists |
| `Slots` | the gate's four slots over a conversation of any length |
| `Analysis` | from a query through guard, worker thread, row cap and CSV file to stash and chart |
| `ModelCalls` | one model request: filters, middlewares, spans, three ways of an answer |
| `Browser` | the page: the debounced search, and the stream put together from pieces |
| `Catalog` | the catalogue searches, evaluated for all short texts |
| `Migration` | the migration script, run again after any failure |
| `Evaluation` | both comparisons, the semaphore, the evaluators |
| `MCAnswerCache`, `MCChatTurn`, `MCConversationStore`, `MCToolUse` | constants and symmetry for TLC |
| `Parts` | instances of the seven modules from `Slots` to `Evaluation`, with the assumptions on their constants; they share no state, and a behaviour is one of the part it chooses at the start |
| `PartsProofs` | TLAPS proofs about those seven, as theorems of `Parts` |
| `MCParts` | constants of `Parts` for TLC |

`ChatTurn` and `AnswerCache` share the cache at different detail: in `AnswerCache` a
turn is `get`, SQL, `put` and the subject is time (transactions, loads, versions);
in `ChatTurn` `get` and `put` are one step each, filings do not change, and the
subject is which rows, words and messages end up under which question and thread.
`ChatTurn` and `ConversationStore` likewise share the store: in `ChatTurn` a conversation
is the list of its whole messages and whether its `metadata.json` can be read, and a failed save
leaves a prefix of what it had to add, or a conversation that counts as new; `ConversationStore`
has the files, with those that do not parse.

Definitions named `Slip...` are the definition that follows them with one plausible
programming mistake, used to show that each property can fail.

## 3. Correspondence with the code

### AnswerCache

`commits` is the history of the filing database, one entry (the counts the
fingerprint hashes) per committed load; `Revision` is its length.  Values may come
back, because a withdrawn filing lowers the counts, and a load may leave them as
they were (values restated).  The hash is taken as injective on the counts.
`cache[q]` is the `report_cache` row of question `q`; `stamp.version` is its
`data_version`, `invalidated` says that `invalidated_at` is set.  `rows`, `at` and
`by` (the commit rows were read at, when a version was read, who stored a row) are
not columns: they are there for the properties.  `hitLog` and `storeLog` count the
`query_log` rows a turn has written.

`get` is `BeginGet` (transaction 1: fingerprint) then `GetMiss`, `GetStale` or
`GetHit` (transaction 2); `put` is `BeginPut` then `Put` or `PutFails`.  `loop` says
which turn is inside one of the two: both are synchronous calls on the event loop,
so no other turn runs meanwhile, but `Ingest`, another process, may.  Every
statement may raise; both calls roll back and swallow the error, which is `GetMiss`
and `PutFails`, and a fingerprint that cannot be read is `NoVersion`.  A report that `get` returned
is sent and the conversation saved (`replay`): `ReplayEnds`; when that raises, the agent
catches it and goes on to the model, so that the same turn may come to `put`
(`ReplayFails`, `agent.py:489-504`; `undelivered` is history).  A commit that
raises is taken as not having happened.  `RunSql` runs in a worker thread and may
be repeated; `Restart` loses turns in flight and nothing else.

### ChatTurn

One action is a stretch of code the event loop does not interrupt: from one chunk or
await to the next.  `stage[t]` is what the turn waits for at its end:

| stage | waiting for | next action |
|---|---|---|
| `begun` | first chunk sent | `Gate`, `Command`, `GateSaveFails` |
| `clarify` | the clarifying model call | `Clarified`, `GateSaveFails` |
| `reply` | the workflow's answer being streamed | `Reply`, `ReplySaveFails` |
| `asked` | status chunks being streamed | `Request` |
| `llm` | the model | `LlmCalls`, `LlmAnswers`, `LlmFails` |
| `calling` | text and tool status being streamed | `StartTools` |
| `tool` | a tool | `SqlDone`, `ChartDone`, `ToolFails` |
| `result` | a result being streamed | `AfterTool` |
| `closing` | the last chunk | `Close`, `CloseSaveFails` |
| `failed` | error chunks | `EndFailed` |

Each action that resumes from a chunk starts with `Peek`: the server copies the stash
after sending a chunk and before asking for the next one.  `Close` is `Saves` (the
store's append by count), `Hook` (`CacheWriteHook.after_message`) and the provenance
event in one stretch, because nothing in between awaits.  The workflow's own answers
(`Reply`) and failing turns (`EndFailed`) do not run the hook: that is the code.

`Saves` is `update_conversation`; `SavesPartly` is one that raised or was the process's last step:
`metadata.json`, which is overwritten in place and first, is then as it was, whole or torn
(`WritesMetadata`), or it is whole and a prefix of the messages is behind it.  `opened` says that
the file is there and whole.  A turn that loads a conversation without it makes an empty one
(`Loads`); if there were messages it is `blind` to them, and its own are cut by the count (finding 4).
`Restart` may cut off a save of messages, of slots, or of a new conversation (`DiesAtGate`).

State shared by turns: `slots` (`state.json`), `disk` and `opened` (message files and
`metadata.json`), `pending` (`_pending`), `cache`.  Per turn: the request, its
messages in memory, its tool calls, the server's `copy`.  `blind`, `ran`, `replayed` and
`shown` are history.

A request without a message (`agent.py:274-339`) gets the starter page and saves the conversation as
it was loaded; the page never sends one (`app.js` returns on an empty text), and it is left out.

Abstractions.  One slot, the company, stands for the four of `clarify.py` (company,
metric, period, basis): all are asked for, remembered and overridden alike.  A
message is its role, author, kind of text and call ids.  A chart is the turn that
drew it.  A report keeps the run, chart, author of the words and the company, the
things the properties tell apart.  Writes that fail leave whole
messages and perhaps a torn `metadata.json`; torn message files are the subject of `ConversationStore`.  The model may answer
with any list of `ToolCalls`, any kind of text, and understand any company when it clarifies.

### ConversationStore

Conversations share no files, so the module has one, and its one user.  `metadata` is
`metadata.json`: `json.dump` writes it in place, so a cut-off write leaves it `"torn"`, and a torn one
makes `get_conversation` return `None` as if there were none.  `files` is the `messages` directory in
the order `sorted(glob)` returns it; a file cut off is `Torn`, which `_load_messages` skips (`Readable`).
Names carry the clock in microseconds; it is taken to go forward, so a new file sorts last.

| action | code |
|---|---|
| `Get` | `get_conversation`, and the empty conversation the agent makes of `None` |
| `AddMessage` | `Conversation.add_message`, in memory |
| `Update`, `UpdateCut` | `update_conversation`: metadata, then the messages beyond as many as `_load_messages` returns (`Missing`); cut off at any write |
| `Create` | `create_conversation` (the agent of this application does not call it) |
| `Delete` | `delete_conversation`, whole or cut off among the message files |
| `Drop` | the turn that held the copy is over |

No method awaits, so a call is one step for the other turns; what interleaves is the calls.
`disturbed` is history: turns under which another one has written, or that were handed
less than what is stored.  The mapping to `Transcript` is `log`, what the files hold; `read`, what
`get_conversation` gives (all of that, or nothing without a whole `metadata.json`); and `atWork`, the turns
that hold a copy.

### AgentMemory and ToolUse

`memories` and `texts` are `_memories` and `_text_memories`.  Ids are drawn at random in
the code and never twice; here they are issued in order, which stands for the date as well.
`Filtered` is what a list comprehension leaves; `clear_memories` is in no command, but is
part of the memory's interface, and is an action (`Clear`).  `Similarity` is a parameter:
a table of numbers over two questions for what `difflib` and the word overlap compute; `Place` is the
place Python's stable sort gives a hit.

A call `c` goes through the waits of a turn and of `execute`:

| stage | waiting for | next action |
|---|---|---|
| `asked` | the model, which has the schemas `get_schemas` gave | `Execute` |
| `denying`, `granting` | `log_tool_access_check` | `Logs`, `LogRaises` |
| `invoking` | `log_tool_invocation` | `Logs`, `LogRaises` |
| `running` | the tool | `RunSaveTool`, `RunSaveText`, `RunSearch`, `RunOther`, `ToolRaises` |
| `logging` | `log_tool_result` | `Logs`, `LogRaises` |
| `done` | | `Ask` (the slot is free) |

`Skipped` leaves out the waits `AuditConfig` switches off.  An exception of the logger before
the tool leaves `execute`; after it, it is inside the `try` and becomes "Execution failed".
`log_event` may have recorded the event or not when it raises.  `returned` (what the tool itself
returned) and `loggerRaised` are history.  Of the pages, what they
conclude is kept (verdict, colour of a card, guidance, buttons); wording is left out.

### Slots, Analysis

`Slots` has `merge_state`, `apply_decision`, `missing_slots` and `unresolved_slots` on all four
slots.  How words become slots is a choice among `Messages`; a message that names a metric
is not exploratory, as in `is_exploratory`.  `ChatTurn` has the same gate with one slot
inside the whole turn, where the file and the model call interleave with other turns.

In `Analysis` a query is what the guard and the tool look at: how the text begins, the number of
statements, the names after FROM and JOIN, the names WITH gives.  `inflight` are queries in a worker
thread; `Return` is back on the event loop: CSV file, `remember_sql_result`, advice to the model.
A result's figures are one column; NULLs, and tables without a `period_end` or a `value_numeric` column, are
there.  Which columns become the axes is left out: no property speaks of it.

### ModelCalls, Browser

`ModelCalls` follows one request along `Route`; `way` says how the answer comes back: streamed
in fragments (`openai/llm.py`), whole, or whole and handed on as a stream (`app/llm.py`).  `first` is history:
the calls in the order of their first fragments.
`Browser` has two parts that share nothing: the search box with its 200 ms timer and
the requests in `waiting` (`shown`, history, is the number of the request whose answer is listed); and the stream, whose frames are two pieces each, so that a
read may end inside one.  `Break` drops what had not been sent.

### Catalog, Migration, Evaluation

`Catalog` has texts as sequences of characters.  `Patterns` has the escaping, and PostgreSQL's `ILIKE ... ESCAPE`
as `Like` (external), a function over the positions of the pattern, from its end: the places of the text from which what is
left of the pattern matches.  `InNameOrder` is `ORDER BY` with `DISTINCT ON`, which keeps any one of the rows that tie; a priority that is
NULL comes last, and stands as the greatest number.

In `Migration` a row of `report_cache` is the file its answer is from, or the application's (`Live`): so
which answer is left, and not only that there is one, can be told.  A run is a transaction: `written` and `noted` are
what it has not committed, `onDisk` changes at once.  `unlinked` and `orphaned` are history: the files this run has
removed, and those that a run removed which then failed.  In `Evaluation` a job is a variant and a test case;
it holds the semaphore from `Acquire` to the end of its evaluators.  `tool_calls`, `execution_time_ms`
and `total_tokens` of an `AgentResult` are never set by `runner.py`, which is why `TrajectoryPasses`
and `EfficiencyPasses` are what they are.

## 4. Runs

| run | instance | shows |
|---|---|---|
| `answer_cache` | 3 turns, 2 questions, counts {0,1}, 3 commits | types; `AuditMatchesCache`; `SettledReportsAreCurrent`; `CondemnedStaysOut`; refinement of `AnswerLedger` |
| `answer_cache_liveness` | 3 turns, 1 question, counts {0,1}, 2 commits, fair | `TurnsEnd` |
| `answer_cache_stale` | 2 turns | finding 1 |
| `chat_serial` | 2 turns of one thread, one after the other; a text to be clarified, one that is settled and a command; failing writes (`metadata.json` among them), model errors, restarts anywhere; fair | types; `ToolRepliesFollowCalls`; `FinishedTurnsKept`; `TurnsEnd` |
| `chat_faultless` | 3 turns of one thread, 2 companies, 2 tool iterations, no faults | `NoStashLeftBehind`; `ProvenanceOfLastRun`; `SelfContainedReplaysFit`; `SlotsNeverForgotten` |
| `chat_overlap` | 2 turns that may overlap, 1 or 2 threads, one or two calls in a response, model errors, disconnects | `CallsAnswered`; `StashStaysInThread`; `RunsFiledOnce` |
| `chat_foreign_rows`, `chat_orphans` | 2-3 turns | findings 2 and 3 |
| `conversation_store` | 3 turns that may overlap, up to 2 messages each, 1 torn message file, torn metadata, deletion | types; `StoredOnce`; `SavedIsReadBack`; refinement of `Transcript` |
| `store_torn_metadata` | the same, one turn after the other | finding 4 |
| `tool_use` | an administrator and a user, five wirings of the registry, five tools, one of them registered late, lists of 2, 3 memories saved, one call at a time, raising loggers and tools | types; `KeepsNewest`; `TrailTellsEffects`; `PagesKeepTheirWord`; `OfferedToolsRun`; `OnlyAdminsForget` |
| `side_by_side` | the seven modules of `Parts`, one of them in each behaviour | types; a property of each part (below); `EvaluationEnds` |

Bounds.  Two turns are the least that can interfere; three let one turn leave
something behind, a second pick it up and store it, and a third be answered with it.
Three commits let a version come back (0, 1, 0); two are enough for the run that asks whether turns end.  Two tool iterations,
where the code has three, distinguish the first, a middle and the last round.  Two
threads and two companies are enough for something to cross from one to the other.
In the store, one torn file is enough to make files and readable messages differ in
number, and three turns let a third read what two have mixed.
In `tool_use` three memories in lists of two make one be evicted, after a deletion
or without; one call slot is enough because a step of a call touches only its own
record and, when it is the tool's, the memory, in one step; the deletions, clearings and registrations
come in between its steps anyway (and `ToolUseProofs` has any number of slots).
`side_by_side` (93,163 states): the parts share no variable, so a behaviour of two
would only be an interleaving that changes nothing.  Its instances: search texts up to
two of the characters `a b % _ \`; five files, of which two are one question, a third another
spelling with the same key, and one is unreadable, three runs of the script; four slots of one value each; four
queries, five results and two CSV files, one thread; calls of up to two pieces, up to three in
an answer; three search requests, two turns of two frames; two variants, two cases, room
for two jobs.
`CHECK_DEADLOCK FALSE` everywhere: with all turns finished the models stop.

The properties:

* `AuditMatchesCache`: the log has one row for a report looked up and found and one at most for what a turn
  computed, both only for a turn whose replay could not be saved; each stored report was logged by a
  turn that was asked that question.
* `CondemnedStaysOut`: a report some lookup found stale is never replayed by a lookup
  that can read the fingerprint, even if the counts return to its version.
* `SettledReportsAreCurrent`: where every load so far raised the counts, a report stamped at the
  commit its rows were read at is replayed only while that commit is the last.  That every
  report were stamped so is what finding 1 denies.
* `ImplementsLedger`: `get` and `put`, two transactions each, with failures and restarts between them, look up
  and file under the turn's own question, each once.
* `ToolRepliesFollowCalls`, `CallsAnswered`: the message protocol of the model API.  The first is about what
  is stored and sent, in a conversation that no turn has taken for a new one; the second about a turn's own
  calls when it asks again or closes at the limit, also with overlapping turns.
* `FinishedTurnsKept`: what a finished turn had stays at the head of the stored conversation, unless it took a
  conversation with messages for a new one (finding 4).
* `StoredOnce`: although counting decides what is new, no message is stored twice, even
  by overlapping turns, behind torn files or lost metadata.
* `SavedIsReadBack`: an undisturbed turn's last save makes exactly its copy readable, in
  order, also after earlier saves of it that were cut off; a load that finds `metadata.json` whole returns it.
* `ImplementsTranscript`: a reader gets all that is stored or nothing, never a part; what is added is the
  saving turn's own, in the order it said it; nothing goes but by a deletion between turns.
* `SlotsNeverForgotten`, `SelfContainedReplaysFit`: the gate.
* `StashStaysInThread`, `RunsFiledOnce`, `NoStashLeftBehind`, `ProvenanceOfLastRun`:
  the stash between tools, hook and server.
* `KeepsNewest`: a memory that is missing from its list and was not deleted is older than
  every one still in it; no list outgrows its limit.
* `TrailTellsEffects`: nothing was saved or found without access and invocation on the trail; what the
  trail says of a result is what the tool returned; the model is told of a success exactly when the tool returned
  one and no logger raised behind it, which is the one way in which a call that took effect looks failed.
* `OfferedToolsRun`: what was offered with the request is not refused when it is called.
* `OnlyAdminsForget`: an action property of how memories leave the lists.
* `PagesKeepTheirWord`: the four places that judge the setup agree with each other and with what
  `execute` would do for the user who sees them.
* `SearchIsLiteral`, `ImportIsSafe`, `GateAsksWhatIsMissing`, `KeptIsOfOneRun`, `RankingShowsLatest`,
  `CallsArriveWhole`, `ListFollowsBox`, `FramesHandledWhole`, `EvaluationAccounts`, `EvaluationEnds`: one or
  two of each part, stated at the end of its module with what they leave out (section 7).

Which properties are checked under which circumstances is part of what they say:
`NoStashLeftBehind` and `SelfContainedReplaysFit` hold without faults, and fail as
soon as a turn may fail (finding 2); `ToolRepliesFollowCalls` and `FinishedTurnsKept`
hold for turns of a thread that do not overlap (the browser waits for `[DONE]`), whatever
fails but the metadata of the thread, and fail when two clients use one thread (finding 3) or the metadata
is torn (finding 4).  `ImportIsSafe` leaves out the files removed by a run that then failed, `EvaluationAccounts` the
variants that share a name, `ListFollowsBox` the answer that comes last and is not the latest.

## 5. Fairness

`AnswerCache!Fairness`: `get` and `put` return (5 s to connect, 15 s per statement),
a turn waiting for the model or a query ends or stores, and a replay is saved or raises.  `ChatTurn!FairSpec`:
weak fairness of everything a turn in flight can do: the event loop resumes what is
ready, model and database calls return or raise within their client's timeouts.
Nothing is assumed of new requests, loads, crashes or disconnects.  `Parts!Fairness`: the event loop
goes on with a comparison as long as one of its jobs can do something; agents and
evaluators return or raise.

## 6. Proofs

`AnswerCacheProofs` proves, for any sets of turns, questions and counts and any bound
on the commits, `Spec => []P` for the state properties, `[][...]_vars` for
`CondemnedStaysOut`, and that `AnswerCache` implements `AnswerLedger` under the
refinement mapping `LedgerNow`, `OutcomeNow`, `SourceNow`.

None of the properties is inductive.  The invariant is

    IInv == TypeOK /\ LoopInv /\ LogInv /\ RowsInv /\ CondemnedInv

* `LoopInv`: a turn at `select` or `upsert` holds the event loop, and no other does.
  So what it read in its first transaction is still its own in the second.
* `LogInv`: what a turn has logged follows from its stage and reply: nothing of its own before it is
  done; and one that works on behind a reply is one whose replay failed.
* `RowsInv`: a turn that has something to store has read its rows.
* `CondemnedInv`: a condemned turn has stored its report, and if that is still in the cache it
  is marked invalidated; only a new `put` clears the mark, and that replaces `by`.

`SettledReplaysAreCurrent` adds `GrowInv`: what a turn or a stamp calls the version of a commit is that commit's
(`Honest`), and a stamp in the cache is no later than the reading of a lookup under way.  Where the counts
only grew, equal versions are then equal commits.  `Refinement` uses `IInv` to show
that a second transaction finds its turn open.  The proofs assume the named
assumptions of `AnswerCache` on its constants and nothing else.

`ChatTurnProofs` proves three results for any turns, conversations, companies, texts, tool
calls and faults, and whether or not turns overlap.

* `TypeCorrect`.  `TypeOK` needs `LoopInv`: a turn at its tools has a call left to run and a
  message that makes it (so that `Tail` and `Last` are defined), and a turn that may still ask the
  model has iterations left (so that the counter stays within the limit).
* `StashesStay` and `RunsAreFiledOnce`, from `StashInv == ThreadInv /\ RunsInv`.  `ThreadInv` adds
  that what the server has *copied* is of its turn's conversation: `shown` is taken from the
  copy one chunk later.  `RunsInv` adds that runs are numbered, and that those stashed or cached are
  not those to come: so a run that is stashed anew is in no report yet.  Together with
  the first conjunct (a run has one conversation, hence one stash it can be in) taking
  the stash makes the run filed and no longer stashed.
They assume the named assumptions of `ChatTurn` on its constants: that `CompanyIn` is a function
of the texts, that tool-call lists are non-empty lists of the two tools, and that `NoRun` is no run.

`ChatTurnMessagesProofs` proves three results about the lists of messages.  `MessageStep`
says what any step may do to a turn's list: read it, say something, make calls, return their answers, stop.

* `CallsAreAnswered`, also when turns overlap, from `CallsInv`.  `CallsAnswered` is about turns that
  ask the model or close; the invariant says of every stage that the calls made so far are answered
  (`Answered`), and at the tools that the last message makes the calls still to be answered.  With
  overlapping turns it needs one thing more: until a turn reads its conversation, nothing anywhere is of
  its writing, so that what it reads has no calls of its own.
* `RepliesFollowCalls` and `TurnsAreKept` assume `Serial`, from
  `ListsInv == OneAtATime /\ StoredInv /\ \A t : OwnList(t)`: a turn at work that is not `blind` has what is stored at
  the head of its list, and the list is well formed in a conversation none of whose turns is.  So a save that appends by count adds just what is missing, and
  one that is cut off leaves a prefix of a well-formed list.  An overlapping turn breaks the first part,
  which is finding 3; so does a torn `metadata.json`, which is finding 4 and the condition.

`ChatTurnCalmProofs` assumes `Calm == Serial /\ Faults = {}`; the model may still call any tools, and tools may
still fail.

* `StashIsTaken` and `ProvenanceIsOwn`, from `CalmInv`: `OwnStash` ties what is stashed, what the server has
  copied and what was shown to the last run of the turn in flight.  A turn that ends otherwise than at the
  hook would leave its stash to the next one (finding 2); without faults there is none that has run a query.
* `ReplaysFit` and `SlotsAreKept`, from `FitInv`: a turn that clarifies has found no company in its message or its
  thread; a turn that has asked the model has its own question as the last message of a user (`LastAsk`), so
  that the hook, which walks back through the whole conversation, files the report under it
  (`HookFindsAsk`); and every cached report is of the company its text names.

`ConversationStoreProofs` proves, for any turns, any number of messages and of torn files, and whether or not turns
overlap, `StoreTypeCorrect`, `MessagesStoredOnce`, `WhatIsSavedIsReadBack` and `StoreImplementsTranscript`, from

    StoreInv == FilesInv /\ IdleInv /\ CopyInv /\ UndisturbedInv

* `StoredOnce` is not inductive: `update_conversation` counts what can be read and appends what is beyond.
  `CopyInv` is why that never stores a message again: what a turn at work holds beyond that count is its own and
  in no file, and it is numbered no higher than what the turn has said.  `IdleInv` says that nobody holds a message of
  a turn that has not begun.
* `UndisturbedInv`: until another turn writes, what can be read is a prefix of the copy (so a save that was cut
  off left a prefix of what it had to add), and after the last save the copy is a prefix of what can be read.
* `StoreImplementsTranscript` needs `OrderInv` besides: a turn's own messages are numbered upwards in its copy, and what
  it would save comes behind those of its that are stored.  With it, what a save adds to what can be read
  (`ReadableGrows`) is the turn's own, in order and new, which is `Transcript!Write`; a save cut off in the metadata is
  `Break`; and a subsequence of the files reads as a subsequence of what could be read, which is `Erase`.

Its assumptions are those `ConversationStore` names.

`OperatorProofs` has the lemmas about `Rank`, `Nth`, `Keep` and
`Subsequences`: that the positions are enumerated in order, each once, what a subsequence of a
concatenation is, and that a list put together from pieces is read off piece by piece (`ConcatJoins`).  They go by
counting, or by the least position at which a claim fails; none needs an induction theorem.  It also proves
`PatternsAreLiteral`: whatever is searched for, the pattern made of it matches exactly the texts that contain it.

* `EscapesTo` says what an escaped text looks like without saying how it was made: where each of its letters ends, and
  that those which are special stand behind a backslash, and the others alone.  Replacing one more letter keeps this
  (`EscapesTwice`) if that letter is not the backslash, which is why the backslash is replaced first.
* Matching is then read from the end of the pattern: `Stands` are the places from which the last letters of what was
  typed stand in the text, and at the end of each escaped letter `Like` has come to exactly these.  That the recursive
  functions in `Like` and `FlattenSeq` exist is proved as well, by the least argument at which they would not.

`PartsProofs` proves, for any values of the constants of `Parts` that meet its named assumptions, the
properties of the parts and `PartsTypeCorrect`.  A step of one part leaves the variables of the others alone, so that
each part has an invariant of its own:

* `GateAsksWhatIsMissing` is inductive as it stands, over what merging does to a slot and what the first missing slot is.
* `ImportInv == NotedInv /\ TodoInv /\ GoneInv` (`ImportsAreSafe`): what a run has noted and not committed is of questions
  it has written and none that is in the log; a run that removes files has all that are left before it, in their
  order, so that every file that is gone comes before every one that is not, and what is written under its key
  is never older.
* `ComparisonInv == PlaceInv /\ ScoreInv /\ StreamInv /\ EndInv` (`AccountsAgree`): a job that holds a place is not scored;
  what is queued or yielded was put by its variant's worker, and nothing is twice in the two together.  So as many
  results as there are jobs are the results of all of them, by counting.
* `SearchInv` (`ListIsOfTheBox`): when no timer runs the latest request is for what is in the box; and the list is
  that of the request it is said to be of.
* `StreamedInv == FramesInv /\ BusyInv /\ AdoptedInv` (`FramesArriveWhole`): what was handled, the buffer and the wire are, in
  this order, the pieces of the frames sent (`ReadUpTo`, `InLine`); so cutting at frame ends loses and doubles nothing.
* `RunsInv == FilesInv /\ ...` (`KeptComesFromOneRun`, `RankingsAreLatest`): `KeptOf` ties the query, rows, file and computed mark kept for a
  thread to one run, and `ChartOf` says that its chart may be drawn from the file it names.  What a ranking
  shows is proved of its definition, for each of the three kinds of table.
* `RequestInv == StationInv /\ BuildersInv /\ FirstInv /\ AnswerInv` (`CallsCameWhole`): each builder is a beginning of the call at its
  index (`IsBuilder`), as long as the fragments heard of it; the builders are in the order of their calls' first
  fragments, one for each.  So the response is read off them, whether the stream was cut off or not.

* `SearchIsLiteral` (`SearchesAreLiteral`) speaks of the last answer alone and is inductive as it stands.  What is found is what
  contains the text (`CompaniesFound`, `TagsFound`, from `PatternsAreLiteral`); of a tag's mappings that match one has the best
  priority (`BestPriority`: the tables are finite); and the first rows in name order are those below the limit, each
  place once (`FirstRows`).

The assumptions of `Parts` say that constants are what the code handles: texts are sequences of letters, tables are finite and
their places are numbered in name order, a priority is an integer, the default limit is one the code would allow; variants, cases and files are
numbered, a message and a decision name slots, the rows of a table have a period that compares and a number or NULL,
a call comes in pieces and one of its fragments carries its name.  TLC evaluates them on the run.

`ToolUseProofs` proves, for any users, groups, tools, wirings, limits, numbers of calls in flight, and whichever
events are audited, `TypeCorrect`, `NewestAreKept`, `TrailIsTrue`, `OfferedToolsAreRun` and
`NobodyElseForgets`, from

    IInv == RegistryInv /\ Typed /\ CallsInv /\ MemoryInv

* `CallsInv`: what the trail of a call is follows from its stage, and a call that has not
  come to its tool has touched nothing.  `TrailTellsEffects` alone does not say what the trail
  is when the tool is about to run.
* `OfferInv`, part of it: the schemas a call was sent with are still permitted, since registration never
  replaces a tool; and so they are when the model has answered.
* `MemoryInv`: `KeepsNewest` stated of a list, the ids that are its own and those deleted, so that one
  lemma serves both lists.  That `Newest(Append(s, m))`, `RemoveAt` and `Filtered` keep it are the
  module's lemmas about lists; their proofs are about positions, not by induction.

`NobodyElseForgets` is an action property: `FirstOut` says that an append to a full list loses its first
element and to another list none, and `OneLeaves` counts.  The assumptions are `MemoryAssumption` (`MaxItems`
and the similarity of two questions are numbers) and `ToolUseAssumption` (wirings are of known tools, limits are numbers).

`PagesAreTrue` (`PagesKeepTheirWord`) needs one thing more, `GoneInv`: no list holds a memory that was deleted or cleared.
Ids are never used twice, and a tool use and a text never have the same, so neither saving nor deleting brings one
back.  With it, the page's two lists are the newest of each kind (`RecentProperties`, by counting), a search returns
memories of the list (`PlacesTaken`: of any two hits one comes first, so that every place is taken), and
what the cards say follows from what the user may run.

Model-checked only: liveness, `TurnsEnd` and `EvaluationEnds`, since fairness is out of the prover's reach.  Every
invariant and every action property that a passing run checks is proved.

## 7. Where code and documentation disagree

1. `answer_cache_stale` (`app/db_cache.py:319`).  The version is read when the report is
   stored, not when its rows were; a load committing in between makes old rows
   current until the next load.
2. `chat_foreign_rows` (`app/hooks.py:44`).  Only `after_message` empties the stash and it
   does not run when a turn fails.  If the next turn of the thread is answered without
   SQL, the rows of the failed turn are stored under its question, and replayed to
   everyone who asks it.  The same leftover makes the server send the failed query's
   provenance with an answer that ran none (`app/server.py:64`).
3. `chat_orphans` (`file_system_conversation_store.py:170`).  Two requests of one thread that
   overlap append by count; a tool message may be stored without the call it answers.
4. `store_torn_metadata` (`file_system_conversation_store.py:165`).  When `metadata.json` is torn, the
   conversation counts as new, but its message files still count: the next turn's messages are taken
   for stored, and as many as there are files are dropped by a save that succeeds.

Seen while modelling, without a run of its own:

* The answer cache's key is the message text (`app/cache.py:22`), though what a follow-up is about comes
  from its thread: "and last year?" in one thread is answered with the rows of another, while
  `docs/codebase-guide.md:85` speaks of this exact question answered before.
* A turn that reaches the tool limit, or that the model ends without text, is cached with the summary
  of an earlier turn (`app/hooks.py:50` walks back through the whole conversation).
* `delete_conversation` ends with `rmdir` of the conversation's directory, which fails when the gate has put
  its `state.json` there, so that it returns `False` although everything it was to delete is gone.
* A query that begins with a parenthesis passes the guard (`app/sql_guard.py:49`), but `tools/run_sql.py:63` takes it for
  an update: its rows are counted as affected and not shown.
* A chart stays in the stash when the next query of the turn comes back (`app/cache.py:91` updates the entry in place), and
  is then cached with rows it was not drawn from, unless the model draws another.
* "Ranking uses one row per company" (`app/charts.py:74`) is not so of a table with neither `period_end` nor
  `value_numeric`, which is drawn as it is; `RankingShowsLatest` says what is drawn of each kind of table.
* A logger that raises when a result is logged is caught together with the tool (`core/registry.py:271`): the model
  is told that a call failed which was carried out.
* A replay whose save raises is not the end of its turn (`agent.py:499`): the report has been streamed and logged as a
  hit, and the model is asked as well, with a second answer, a second log row and a new report.
* `runner.py` never fills `tool_calls` and `execution_time_ms` of an `AgentResult`: the trajectory evaluator never finds an
  expected tool, and the efficiency evaluator always passes, failed runs included.
* `compare_agents_streaming` is documented to yield results as they complete (`runner.py:140`), and
  yields a variant's only after all of it; if an evaluator raises, it waits for good (`EvaluationEnds` names it).
* `compare_agents` is documented to map names to reports for all variants (`runner.py:104`); of two variants with one
  name only the later's is left (`runner.py:130`).
* The list of the catalogue shows an older search's answer for good if it comes last (`app/web/app.js:149`), and Enter while
  a turn is busy empties the box without sending (`app/web/app.js:373`).
* The migration stamps old reports with the current data version, and its upsert is unconditional
  (`migrate_answer_cache.py:78`): a later file with the same key, or an old answer over a newer one of the application,
  wins.  `--delete-files` removes a file before its transaction commits (line 141): when the run fails behind that, the
  file is gone and its report was rolled back.

## 8. Not modelled, and why

* `prompt.py`, `schema*.py`, `config.py`, `main.py`, `users.py`: text, constants, wiring, one fixed user.
* `core/component_manager.py`: no code runs it; its uses in the engine are commented out.
* `integrations/plotly/chart_generator.py`, `tools/visualize_data.py`: replaced by the application's own
  chart tool; a pure choice of figure by the types of the columns.
* Component classes (`core/rich_component.py`, `components/`): data classes and serialisation.
* Other model clients, servers, loggers and stores of the engine: the application mounts none of them.
* The file cache in `app/cache.py`: superseded by the database cache; what is left of it is the subject
  of `Migration`.
* Of the modelled parts: observability beyond the spans of a request, the wording of pages and prompts, the
  rendering of components in the page, how words are recognised as companies, metrics and
  periods, the text of SQL beyond what the guard looks at.  Rate limits and timeouts of the model client
  appear as `LlmFails` and `Raises`.

## 9. What is left

1. `ChatTurn` and `AnswerCache` composed: the hook's `put` as two transactions, so that what a
   report holds (rows, thread) and when it was current are properties of one behaviour.
2. `ConversationStore` with a clock that is set back, once the store is asked to survive it.

----------------------------- MODULE AnswerCache -----------------------------
(***************************************************************************)
(* PostgresAnswerCache (app/db_cache.py) with the fingerprint that version-*)
(* busts it (app/fingerprint.py), under concurrent chat turns, an          *)
(* ingestion pipeline that commits at any time, database errors, and       *)
(* restarts of the web process.                                            *)
(*                                                                         *)
(* get() and put() are plain (not async) functions, so no other turn runs  *)
(* while one is inside: `loop' is the event loop they hold.  The pipeline  *)
(* is another process: it commits between any two transactions, and a      *)
(* get() or a put() is two of them, one that reads the fingerprint and one *)
(* that reads or writes report_cache and query_log.  The SQL a turn runs   *)
(* is a third, in a worker thread, while other turns hold the loop.        *)
(***************************************************************************)
EXTENDS Naturals, Sequences

CONSTANTS Turns,        \* chat turns, one user message each
          Questions,    \* normalised question texts (cache_key hashes them)
          FactCounts,   \* values the fingerprinted counts can take
          MaxCommits,   \* bound: commits of the filings database
          NoTurn,       \* no turn holds the event loop
          NoVersion,    \* the fingerprint could not be read (None)
          NoEntry       \* no report_cache row; no replayed answer

ASSUME CountsAssumption == FactCounts \subseteq Nat /\ FactCounts # {}
ASSUME BoundAssumption == MaxCommits \in Nat \ {0}
ASSUME NoTurnAssumption == NoTurn \notin Turns
ASSUME NoVersionAssumption == NoVersion \notin Nat
ASSUME NoEntryAssumption ==
    NoEntry \notin [rows : 1..MaxCommits, invalidated : BOOLEAN, by : Turns,
                    stamp : [version : FactCounts \cup {NoVersion},
                             at : 1..MaxCommits]]

VARIABLES
    commits,     \* commits[n]: the counts after the n-th commit of the filings
    cache,       \* cache[q]: the report_cache row of q, or NoEntry
    hitLog,      \* hitLog[t]: query_log rows t inserted with cache_hit = TRUE
    storeLog,    \* storeLog[t]: query_log rows t inserted with cache_hit = FALSE
    loop,        \* the turn inside get() or put(), or NoTurn
    stage,       \* stage[t]: where turn t is
    asked,       \* asked[t]: the question of t
    seen,        \* seen[t]: the last fingerprint t read, and at which commit
    rows,        \* rows[t]: the commit at which t's SQL read its rows; 0: not yet
    reply,       \* reply[t]: the report get() returned to t, or NoEntry
    condemned,   \* history: the writers of rows some lookup has invalidated
    undelivered  \* history: the turns whose replayed report could not be saved

vars == <<commits, cache, hitLog, storeLog, loop, stage, asked, seen, rows,
          reply, condemned, undelivered>>
------------------------------------------------------------------------------
Revision == Len(commits)

\* The counts the fingerprint hashes; the hash is taken to be injective, and
\* what it does not count (a value restated in place) does not show.
Fingerprint == commits[Revision]

Stages == {"new", "select", "replay", "query", "store", "upsert", "done"}

Readings == [version : FactCounts \cup {NoVersion}, at : 1..MaxCommits]

\* A report_cache row.  `rows' is the commit its rows were read at and `by' the
\* turn that stored it: neither is a column, both serve the properties.
Entries == [rows : 1..MaxCommits, stamp : Readings, invalidated : BOOLEAN,
            by : Turns]

TypeOK ==
    /\ commits \in Seq(FactCounts) /\ Revision \in 1..MaxCommits
    /\ cache \in [Questions -> Entries \cup {NoEntry}]
    /\ hitLog \in [Turns -> Nat] /\ storeLog \in [Turns -> Nat]
    /\ loop \in Turns \cup {NoTurn}
    /\ stage \in [Turns -> Stages]
    /\ asked \in [Turns -> Questions]
    /\ seen \in [Turns -> Readings]
    /\ rows \in [Turns -> 0..MaxCommits]
    /\ reply \in [Turns -> Entries \cup {NoEntry}]
    /\ condemned \subseteq Turns /\ undelivered \subseteq Turns

Init ==
    /\ commits \in {<<n>> : n \in FactCounts}
    /\ cache = [q \in Questions |-> NoEntry]
    /\ hitLog = [t \in Turns |-> 0] /\ storeLog = [t \in Turns |-> 0]
    /\ loop = NoTurn
    /\ stage = [t \in Turns |-> "new"]
    /\ asked \in [Turns -> Questions]
    /\ seen = [t \in Turns |-> [version |-> NoVersion, at |-> 1]]
    /\ rows = [t \in Turns |-> 0]
    /\ reply = [t \in Turns |-> NoEntry]
    /\ condemned = {} /\ undelivered = {}
------------------------------------------------------------------------------
\* The ingestion pipeline commits a batch: new filings, a filing withdrawn or
\* reset from 'Processed', or values restated with the same counts.
Ingest ==
    /\ Revision < MaxCommits
    /\ \E n \in FactCounts : commits' = Append(commits, n)
    /\ UNCHANGED <<cache, hitLog, storeLog, loop, stage, asked, seen, rows,
                   reply, condemned, undelivered>>

\* What current_version() yields inside get() and put(): the fingerprint now,
\* or None after an exception.
VersionNow == [version : {Fingerprint, NoVersion}, at : {Revision}]

\* Turn t goes from one place to another.
Moves(t, from, to) == stage[t] = from /\ stage' = [stage EXCEPT ![t] = to]

\* get(), first transaction.
BeginGet(t) ==
    /\ loop = NoTurn
    /\ Moves(t, "new", "select")
    /\ loop' = t
    /\ \E v \in VersionNow : seen' = [seen EXCEPT ![t] = v]
    /\ UNCHANGED <<commits, cache, hitLog, storeLog, asked, rows, reply,
                   condemned, undelivered>>

\* Slips this module is checked against are named Slip...: each is the
\* definition that follows it, with one plausible mistake.

\* invalidated_at ignored.
SlipStaleByVersionOnly(t, entry) ==
    seen[t].version # NoVersion /\ entry.stamp.version # seen[t].version

\* The stored version ignored.
SlipStaleByMarkOnly(t, entry) == seen[t].version # NoVersion /\ entry.invalidated

\* The row get() found must not be used.  With no fingerprint it is used as is.
Stale(t, entry) ==
    /\ seen[t].version # NoVersion
    /\ entry.invalidated \/ entry.stamp.version # seen[t].version

\* get(), second transaction: no row, or an exception anywhere (rolled back).
GetMiss(t) ==
    /\ Moves(t, "select", "query")
    /\ loop' = NoTurn
    /\ UNCHANGED <<commits, cache, hitLog, storeLog, asked, seen, rows, reply,
                   condemned, undelivered>>

\* get(), second transaction: the row is marked invalidated, and is a miss.
GetStale(t) ==
    LET entry == cache[asked[t]] IN
    /\ Moves(t, "select", "query")
    /\ entry # NoEntry
    /\ Stale(t, entry)
    /\ cache' = [cache EXCEPT ![asked[t]] = [entry EXCEPT !.invalidated = TRUE]]
    /\ condemned' = condemned \cup {entry.by}
    /\ loop' = NoTurn
    /\ UNCHANGED <<commits, hitLog, storeLog, asked, seen, rows, reply,
                   undelivered>>

\* get(), second transaction: the hit is logged and the report is returned.
GetHit(t) ==
    LET entry == cache[asked[t]] IN
    /\ Moves(t, "select", "replay")
    /\ entry # NoEntry
    /\ ~Stale(t, entry)
    /\ reply' = [reply EXCEPT ![t] = entry]
    /\ hitLog' = [hitLog EXCEPT ![t] = @ + 1]
    /\ loop' = NoTurn
    /\ UNCHANGED <<commits, cache, storeLog, asked, seen, rows, condemned,
                   undelivered>>

\* The report is sent and the conversation saved, or the client has gone.
ReplayEnds(t) ==
    /\ Moves(t, "replay", "done")
    /\ UNCHANGED <<commits, cache, hitLog, storeLog, loop, asked, seen, rows,
                   reply, condemned, undelivered>>

\* A failed replay is looked up a second time.
SlipReplayFails(t) ==
    /\ Moves(t, "replay", "new")
    /\ undelivered' = undelivered \cup {t}
    /\ UNCHANGED <<commits, cache, hitLog, storeLog, loop, asked, seen, rows,
                   reply, condemned>>

\* Sending or saving it raises: the agent catches that, and asks the model.
ReplayFails(t) ==
    /\ Moves(t, "replay", "query")
    /\ undelivered' = undelivered \cup {t}
    /\ UNCHANGED <<commits, cache, hitLog, storeLog, loop, asked, seen, rows,
                   reply, condemned>>

\* The model runs SQL for t, in a worker thread; it may run it again.
RunSql(t) ==
    /\ stage[t] \in {"query", "store"}
    /\ stage' = [stage EXCEPT ![t] = "store"]
    /\ rows' = [rows EXCEPT ![t] = Revision]
    /\ UNCHANGED <<commits, cache, hitLog, storeLog, loop, asked, seen, reply,
                   condemned, undelivered>>

\* The turn ends without a put: no SQL, no rows, the fallback sentence, an
\* error, a client that went away.
EndUnfiled(t) ==
    /\ stage[t] \in {"query", "store"}
    /\ stage' = [stage EXCEPT ![t] = "done"]
    /\ UNCHANGED <<commits, cache, hitLog, storeLog, loop, asked, seen, rows,
                   reply, condemned, undelivered>>

\* A put although run_sql left nothing to store.
SlipBeginPutUnchecked(t) ==
    /\ loop = NoTurn
    /\ Moves(t, "query", "upsert")
    /\ loop' = t
    /\ \E v \in VersionNow : seen' = [seen EXCEPT ![t] = v]
    /\ UNCHANGED <<commits, cache, hitLog, storeLog, asked, rows, reply,
                   condemned, undelivered>>

\* put(), first transaction: the version the report will carry.
BeginPut(t) ==
    /\ loop = NoTurn
    /\ Moves(t, "store", "upsert")
    /\ loop' = t
    /\ \E v \in VersionNow : seen' = [seen EXCEPT ![t] = v]
    /\ UNCHANGED <<commits, cache, hitLog, storeLog, asked, rows, reply,
                   condemned, undelivered>>

\* The report committed before its log row, which may then fail.
SlipPutUnlogged(t) ==
    /\ Moves(t, "upsert", "done")
    /\ cache' = [cache EXCEPT ![asked[t]] =
          [rows |-> rows[t], stamp |-> seen[t], invalidated |-> FALSE, by |-> t]]
    /\ storeLog' \in {storeLog, [storeLog EXCEPT ![t] = @ + 1]}
    /\ loop' = NoTurn
    /\ UNCHANGED <<commits, hitLog, asked, seen, rows, reply, condemned,
                   undelivered>>

\* put(), second transaction: upsert (clears invalidated_at) and log row.
Put(t) ==
    /\ Moves(t, "upsert", "done")
    /\ cache' = [cache EXCEPT ![asked[t]] =
          [rows |-> rows[t], stamp |-> seen[t], invalidated |-> FALSE, by |-> t]]
    /\ storeLog' = [storeLog EXCEPT ![t] = @ + 1]
    /\ loop' = NoTurn
    /\ UNCHANGED <<commits, hitLog, asked, seen, rows, reply, condemned,
                   undelivered>>

\* Retried until it works.
SlipPutRetries(t) ==
    /\ Moves(t, "upsert", "store")
    /\ loop' = NoTurn
    /\ UNCHANGED <<commits, cache, hitLog, storeLog, asked, seen, rows, reply,
                   condemned, undelivered>>

\* put(), second transaction: an exception; rolled back and swallowed.
PutFails(t) ==
    /\ Moves(t, "upsert", "done")
    /\ loop' = NoTurn
    /\ UNCHANGED <<commits, cache, hitLog, storeLog, asked, seen, rows, reply,
                   condemned, undelivered>>

\* The web process dies and is started again; turns in flight are lost.
InFlight(t) == stage[t] \notin {"new", "done"}

Restart ==
    /\ \E t \in Turns : InFlight(t)
    /\ stage' = [t \in Turns |-> IF InFlight(t) THEN "done" ELSE stage[t]]
    /\ loop' = NoTurn
    /\ UNCHANGED <<commits, cache, hitLog, storeLog, asked, seen, rows, reply,
                   condemned, undelivered>>

Get(t) == GetMiss(t) \/ GetStale(t) \/ GetHit(t)
Replay(t) == ReplayEnds(t) \/ ReplayFails(t)
EndPut(t) == Put(t) \/ PutFails(t)

Next ==
    \/ Ingest
    \/ Restart
    \/ \E t \in Turns : \/ BeginGet(t) \/ Get(t) \/ Replay(t) \/ RunSql(t)
                        \/ EndUnfiled(t) \/ BeginPut(t) \/ EndPut(t)

Spec == Init /\ [][Next]_vars

\* A call into psycopg2 returns (5 s connect, 15 s statement timeout), an LLM
\* call returns or raises (client timeout), a save of the conversation ends, and
\* the event loop resumes what is ready.  Nothing is assumed of the pipeline, of new turns or of crashes.
Fairness ==
    \A t \in Turns : /\ WF_vars(Get(t))
                     /\ WF_vars(Replay(t))
                     /\ WF_vars(EndUnfiled(t) \/ BeginPut(t))
                     /\ WF_vars(EndPut(t))

FairSpec == Spec /\ Fairness
------------------------------------------------------------------------------
\* db_cache.get: while the fingerprint can be read, a report that some lookup
\* has found out of date is never replayed again, not even when the counts
\* come back to the value it is stamped with.
CondemnedStaysOut ==
    [][\A t \in Turns :
          /\ reply'[t] # reply[t]
          /\ seen[t].version # NoVersion
          => reply'[t].by \notin condemned]_vars

\* db_cache.get and put: report_cache and query_log agree whatever fails.  The
\* log has one row for each answer looked up and found, at most one for what a
\* turn computed, both for one turn only where its replay could not be saved,
\* and every stored report was logged by the turn asked that question.
AuditMatchesCache ==
    /\ \A t \in Turns :
          /\ hitLog[t] = (IF reply[t] = NoEntry THEN 0 ELSE 1)
          /\ storeLog[t] <= 1
          /\ hitLog[t] + storeLog[t] > 1 => t \in undelivered
    /\ \A q \in Questions :
          cache[q] # NoEntry => storeLog[cache[q].by] = 1 /\ asked[cache[q].by] = q

\* Every load up to the n-th commit raised the counts.
OnlyGrewTo(n) == \A i, j \in 1..n : i < j => commits[i] < commits[j]

\* fingerprint.py and db_cache.get: where every load so far raised the counts,
\* a report whose rows and stamp were read at the same commit is replayed only
\* while that commit is the last one, as the lookup's own reading shows it.
SettledReportsAreCurrent ==
    \A t \in Turns :
        /\ stage[t] = "replay"
        /\ OnlyGrewTo(seen[t].at)
        /\ seen[t].version # NoVersion
        /\ reply[t].rows = reply[t].stamp.at
        => reply[t].rows = seen[t].at

\* What docs/codebase-guide.md:85 and :200 say of every replay, where every load
\* raised the counts.  The code stamps the version at put time, so it does not
\* hold: see the README.
ReplayedRowsAreCurrent ==
    \A t \in Turns :
        /\ stage[t] = "replay"
        /\ OnlyGrewTo(seen[t].at)
        /\ seen[t].version # NoVersion
        => reply[t].rows = seen[t].at

\* get() and put() never keep the event loop, and every turn in flight ends.
TurnsEnd == \A t \in Turns : InFlight(t) ~> stage[t] = "done"

\* The refinement mapping: who a question's report was filed by, how a turn
\* was resolved, and whose report its lookup returned.
LedgerNow == [q \in Questions |-> IF cache[q] = NoEntry THEN NoTurn ELSE cache[q].by]

OutcomeNow == [t \in Turns |-> IF storeLog[t] # 0 THEN "filed"
                               ELSE IF reply[t] # NoEntry /\ t \notin undelivered
                                    THEN "replayed"
                               ELSE IF stage[t] = "done" THEN "unfiled" ELSE "open"]

SourceNow == [t \in Turns |-> IF reply[t] = NoEntry THEN NoTurn ELSE reply[t].by]

Ledger == INSTANCE AnswerLedger
              WITH question <- asked, ledger <- LedgerNow, outcome <- OutcomeNow,
                   source <- SourceNow

\* The transactions implement AnswerLedger: a turn is answered with the report
\* filed under its question, looked up once, or files its own under it, once.
ImplementsLedger == Ledger!Spec
==============================================================================

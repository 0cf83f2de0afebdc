------------------------------ MODULE Migration ------------------------------
(* scripts/migrate_answer_cache.py: copies answer files into report_cache and *)
(* query_log in one transaction, while the application may store answers of   *)
(* its own.  It is run by hand, as often as it takes.                         *)
EXTENDS Integers, Sequences, FiniteSets, Subsequences

CONSTANTS
    Files,        \* 1..n: the *.json files, in name order
    QuestionIn,   \* QuestionIn[f]: the question in f, or NoQuestion (also: unreadable)
    KeyOf,        \* KeyOf[q]: cache_key of a question: equal for two spellings
    NoQuestion,
    MaxRuns       \* bound on the runs of the script

Questions == DOMAIN KeyOf
Keys == {KeyOf[q] : q \in Questions}

\* Files the script imports, and the key it does so under.
Importable == {f \in Files : QuestionIn[f] # NoQuestion}
KeyIn(f) == KeyOf[QuestionIn[f]]

\* The answer in a row of report_cache: none, that of a file, or one of the
\* application.
NoRow == 0
Live == -1

VARIABLES
    onDisk,       \* the files that exist
    stored,       \* stored[k]: the answer in report_cache under k
    logged,       \* logged[q]: rows of session "migration" in query_log
    deleting,     \* --delete-files
    importing,    \* the script runs
    todo,         \* files the run has yet to read
    written,      \* the transaction, not yet committed: written[k] upserted, and
    noted,        \* noted[q] rows added to the log
    scriptRuns,   \* history: runs begun
    unlinked,     \* history: files this run has removed
    orphaned      \* history: files removed by a run that failed

migrationVars == <<onDisk, stored, logged, deleting, importing, todo, written, noted,
                   scriptRuns, unlinked, orphaned>>

Empty == [k \in Keys |-> NoRow]

TypeOK ==
    /\ onDisk \subseteq Files
    /\ stored \in [Keys -> Importable \cup {NoRow, Live}]
    /\ logged \in [Questions -> Nat]
    /\ deleting \in BOOLEAN
    /\ importing \in BOOLEAN
    /\ todo \in Seq(Files)
    /\ written \in [Keys -> Importable \cup {NoRow}]
    /\ noted \in [Questions -> Nat]
    /\ scriptRuns \in 0..MaxRuns
    /\ unlinked \subseteq Importable /\ orphaned \subseteq Importable

Init ==
    /\ onDisk = Files /\ stored = Empty
    /\ logged = [q \in Questions |-> 0]
    /\ deleting = FALSE /\ importing = FALSE /\ todo = <<>>
    /\ written = Empty /\ noted = logged
    /\ scriptRuns = 0 /\ unlinked = {} /\ orphaned = {}

\* migrate_directory: the files are listed once.
Start ==
    /\ ~importing /\ onDisk # {} /\ scriptRuns < MaxRuns
    /\ importing' = TRUE
    /\ todo' = InOrder(onDisk)
    /\ deleting' \in BOOLEAN
    /\ scriptRuns' = scriptRuns + 1
    /\ UNCHANGED <<onDisk, stored, logged, written, noted, unlinked, orphaned>>

Removes(f) ==
    /\ onDisk' = IF deleting THEN onDisk \ {f} ELSE onDisk
    /\ unlinked' = IF deleting THEN unlinked \cup {f} ELSE unlinked

\* On conflict the row is left as it is.
SlipImport ==
    /\ todo # <<>>
    /\ LET f == Head(todo)  q == QuestionIn[f]  k == KeyIn(f)
       IN  IF q = NoQuestion THEN UNCHANGED <<written, noted, onDisk, unlinked>>
           ELSE /\ written' = IF written[k] = NoRow THEN [written EXCEPT ![k] = f] ELSE written
                /\ noted' = IF logged[q] + noted[q] = 0 THEN [noted EXCEPT ![q] = 1] ELSE noted
                /\ Removes(f)
    /\ todo' = Tail(todo)
    /\ UNCHANGED <<stored, logged, deleting, importing, scriptRuns, orphaned>>

\* One file: skipped, or upserted under the key of its question, whatever is
\* there, noted in the log unless it is, and removed if so asked.
Import ==
    /\ todo # <<>>
    /\ LET f == Head(todo)  q == QuestionIn[f]
       IN  IF q = NoQuestion THEN UNCHANGED <<written, noted, onDisk, unlinked>>
           ELSE /\ written' = [written EXCEPT ![KeyIn(f)] = f]
                /\ noted' = IF logged[q] + noted[q] = 0 THEN [noted EXCEPT ![q] = 1] ELSE noted
                /\ Removes(f)
    /\ todo' = Tail(todo)
    /\ UNCHANGED <<stored, logged, deleting, importing, scriptRuns, orphaned>>

Over ==
    /\ importing' = FALSE /\ todo' = <<>> /\ deleting' = FALSE
    /\ written' = Empty /\ noted' = [q \in Questions |-> 0] /\ unlinked' = {}

\* What is under k once the transaction commits.
Now(k) == IF written[k] = NoRow THEN stored[k] ELSE written[k]

Commit ==
    /\ importing /\ todo = <<>>
    /\ stored' = [k \in Keys |-> Now(k)]
    /\ logged' = [q \in Questions |-> logged[q] + noted[q]]
    /\ Over
    /\ UNCHANGED <<onDisk, scriptRuns, orphaned>>

\* A statement, an unlink or the commit raises, or the script is killed: the
\* transaction is rolled back, the files stay removed.
Fails ==
    /\ importing
    /\ orphaned' = orphaned \cup unlinked
    /\ Over
    /\ UNCHANGED <<onDisk, stored, logged, scriptRuns>>

\* The application stores an answer; the rows of the transaction are locked.
LivePut ==
    /\ \E k \in Keys : written[k] = NoRow /\ stored' = [stored EXCEPT ![k] = Live]
    /\ UNCHANGED <<onDisk, logged, deleting, importing, todo, written, noted, scriptRuns,
                   unlinked, orphaned>>

Next == Start \/ Import \/ Commit \/ Fails \/ LivePut

------------------------------------------------------------------------------
\* The answer of f, of a later file with its key, or one of the application.
StandsFor(row, f) ==
    row = Live \/ (row \in Importable /\ KeyIn(row) = KeyIn(f) /\ row >= f)

\* Run again after whatever failure, the script notes a question in the query
\* log once, and none whose key has no answer.  A file that is gone has left
\* under its key, in the table or in the transaction that is about to commit, its
\* own answer, that of a later file, or one of the application: an earlier answer
\* never wins over a later one, which goes on being true when the next run begins
\* with fewer files.  Only the files a failing run had removed are not
\* accounted for, since it removes them before it commits
\* (migrate_answer_cache.py:141, README section 7).
ImportIsSafe ==
    /\ \A q \in Questions : logged[q] <= 1 /\ (logged[q] = 1 => stored[KeyOf[q]] # NoRow)
    /\ \A f \in Importable \ (onDisk \cup orphaned) : StandsFor(Now(KeyIn(f)), f)
==============================================================================

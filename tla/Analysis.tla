------------------------------ MODULE Analysis ------------------------------
(* From the SQL the model writes to the chart the user sees: the allow-list   *)
(* of app/sql_guard.py, run_sql with its CSV file, what app/sql.py and        *)
(* app/cache.py keep of the run for the cache, and the encodings of           *)
(* app/charts.py.  A run leaves the event loop while it queries, so runs of   *)
(* other turns, of the same conversation too, come in between.                *)
EXTENDS Integers, Sequences, FiniteSets, SequencesExt, FiniteSetsExt

CONSTANTS
    Conversations, OwnerOf,  \* OwnerOf[c]: the user of conversation c
    Queries,      \* [lead, statements, names, ctes, arith]: how the text begins, its
                  \* number of statements, the names after FROM and JOIN, the
                  \* names WITH gives, arithmetic in its select list
    AllowedTables,
    Results,      \* [period, numeric, rows]: whether there is a period_end column,
                  \* whether the figures are called value_numeric, rows
                  \* [company, at, value]; a query that raises has none
    NoValue,      \* NULL in a row
    Charts,       \* values of chart_type, an argument of visualize_data
    MaxRows,      \* MAX_RESULT_ROWS
    MaxCsv        \* bound on the files run_sql writes

VARIABLES
    inflight,     \* pairs <<conversation, query>> in a worker thread
    csv,          \* files, in order of writing: [owner, table]
    kept,         \* kept[c]: the pending entry of c
    advice        \* advice[c]: what the model was last told

analysisVars == <<inflight, csv, kept, advice>>

NoFile == 0
NoQuery == [lead |-> "", statements |-> 0, names |-> {}, ctes |-> {}, arith |-> FALSE]
NoChart == [file |-> NoFile, kind |-> "", bars |-> {}]
Nothing == [sql |-> NoQuery, rows |-> <<>>, file |-> NoFile, computed |-> FALSE,
            companies |-> {}, chart |-> NoChart]

\* is_allowed_query: comments and a leading parenthesis are looked through.
ReadOnly(q) == q.statements = 1 /\ q.lead \in {"select", "with", "paren", "comment"}
IsAllowed(q) == ReadOnly(q) /\ q.names \ q.ctes \subseteq AllowedTables

CapRows(rows) == SubSeq(rows, 1, IF Len(rows) > MaxRows THEN MaxRows ELSE Len(rows))
CompaniesIn(rows) == {rows[i].company : i \in DOMAIN rows}

TypeOK ==
    /\ inflight \subseteq Conversations \X Queries
    /\ Len(csv) <= MaxCsv
    /\ \A i \in DOMAIN csv :
           /\ csv[i].owner \in Range(OwnerOf)
           /\ \E table \in Results : csv[i].table = [table EXCEPT !.rows = CapRows(@)]
    /\ \A c \in Conversations :
           /\ kept[c].sql \in Queries \cup {NoQuery} /\ kept[c].file \in 0..Len(csv)
           /\ kept[c].chart.file \in 0..Len(csv)
           /\ advice[c] \in {"", "chart", "fallback", "error"}

Init ==
    /\ inflight = {} /\ csv = <<>>
    /\ kept = [c \in Conversations |-> Nothing]
    /\ advice = [c \in Conversations |-> ""]

\* run_sql: the guard, then the thread.
Run(c, q) ==
    /\ <<c, q>> \notin inflight
    /\ IF IsAllowed(q)
       THEN inflight' = inflight \cup {<<c, q>>} /\ UNCHANGED advice
       ELSE advice' = [advice EXCEPT ![c] = "error"] /\ UNCHANGED inflight
    /\ UNCHANGED <<csv, kept>>

\* remember_sql_result when output_file is passed only if there is one.
SlipRemember(entry, q, rows, file) ==
    [entry EXCEPT !.sql = q, !.rows = rows, !.file = IF file = NoFile THEN @ ELSE file,
                  !.computed = q.arith, !.companies = CompaniesIn(rows)]

\* The entry is updated in place, with the provenance of the new run; a chart
\* that is in it stays.
Remember(entry, q, rows, file) ==
    [entry EXCEPT !.sql = q, !.rows = rows, !.file = file,
                  !.computed = q.arith, !.companies = CompaniesIn(rows)]

\* Back on the event loop.  Only a text whose first word is SELECT or WITH is
\* taken for a query with rows: after a comment or a parenthesis the rows are
\* counted as affected, and neither kept nor written.
Return(c, q, table) ==
    LET rows == CapRows(table.rows)
        hasRows == q.lead \in {"select", "with"} /\ rows # <<>>
    IN  /\ <<c, q>> \in inflight
        /\ inflight' = inflight \ {<<c, q>>}
        /\ hasRows => Len(csv) < MaxCsv
        /\ csv' = IF hasRows THEN Append(csv, [owner |-> OwnerOf[c], table |-> [table EXCEPT !.rows = rows]])
                             ELSE csv
        /\ kept' = [kept EXCEPT ![c] = Remember(@, q, IF hasRows THEN rows ELSE <<>>,
                                                IF hasRows THEN Len(csv) + 1 ELSE NoFile)]
        /\ advice' = [advice EXCEPT ![c] = IF q.lead \in {"select", "with"} /\ rows = <<>>
                                           THEN "fallback" ELSE "chart"]

\* The database raises, or times out: nothing is kept.
QueryFails(c, q) ==
    /\ <<c, q>> \in inflight
    /\ inflight' = inflight \ {<<c, q>>}
    /\ advice' = [advice EXCEPT ![c] = "error"]
    /\ UNCHANGED <<csv, kept>>

\* infer_encoding; which columns become axes is left out.
Periods(table) == IF table.period THEN Cardinality({row.at : row \in Range(table.rows)}) ELSE 0
IsRanking(table) ==
    LET companies == Cardinality(CompaniesIn(table.rows))
    IN  companies >= 2 /\ companies >= Periods(table)
Grouped(table, kind) == IsRanking(table) /\ kind \in {"", "bar", "hbar"}

\* What is drawn: if not told, a line or bars, as the axes are.
KindsOf(table, kind) ==
    IF Grouped(table, kind) THEN {"hbar"}
    ELSE IF kind \in {"bar", "hbar", "line", "scatter", "histogram"} THEN {kind}
    ELSE {"line", "bar"}

FiguresOf(rows, k) == {i \in DOMAIN rows : rows[i].company = k /\ rows[i].value # NoValue}
BarsOf(rows) == {[company |-> row.company, value |-> row.value] : row \in Range(rows)}
OneEach(rows, May(_, _)) ==
    {{[company |-> k, value |-> pick[k]] : k \in CompaniesIn(rows)} :
        pick \in {f \in [CompaniesIn(rows) -> {row.value : row \in Range(rows)} \cup {NoValue}] :
                     \A k \in CompaniesIn(rows) : f[k] \in May(rows, k)}}

\* groupby().last() without the sort_values before it.
SlipLatest(rows, k) ==
    LET known == FiguresOf(rows, k)
    IN  IF known = {} THEN {NoValue} ELSE {rows[Max(known)].value}

\* The last figure of a company that is not NULL, by period; rows of one period
\* are in any order.
Latest(rows, k) ==
    LET known == FiguresOf(rows, k)
    IN  IF known = {} THEN {NoValue}
        ELSE {rows[i].value : i \in {j \in known : \A h \in known : rows[h].at <= rows[j].at}}

Largest(rows, k) ==
    LET known == FiguresOf(rows, k)
    IN  IF known = {} THEN {NoValue} ELSE {Max({rows[i].value : i \in known})}

\* The rows drawn: one for each company if there is a period_end or a
\* value_numeric to choose by, all rows otherwise.
FramesOf(table, kind) ==
    IF Grouped(table, kind) /\ table.period THEN OneEach(table.rows, Latest)
    ELSE IF Grouped(table, kind) /\ table.numeric THEN OneEach(table.rows, Largest)
    ELSE {BarsOf(table.rows)}

\* visualize_data reads a file of the user's directory, whichever run wrote it.
\* A file that is not there, or an unknown column, raises: the tool reports an
\* error and nothing changes.
Chart(c, file, asked) ==
    LET table == csv[file].table IN
    /\ csv[file].owner = OwnerOf[c]
    /\ \E bars \in FramesOf(table, asked), kind \in KindsOf(table, asked) :
           kept' = [kept EXCEPT ![c].chart = [file |-> file, kind |-> kind, bars |-> bars]]
    /\ UNCHANGED <<inflight, csv, advice>>

\* take_pending, at the end of a turn.
Take(c) ==
    /\ kept[c] # Nothing
    /\ kept' = [kept EXCEPT ![c] = Nothing]
    /\ UNCHANGED <<inflight, csv, advice>>

Next ==
    \E c \in Conversations :
        \/ \E q \in Queries : Run(c, q) \/ QueryFails(c, q) \/ \E table \in Results : Return(c, q, table)
        \/ \E file \in DOMAIN csv, asked \in Charts : Chart(c, file, asked)
        \/ Take(c)

------------------------------------------------------------------------------
\* What is kept for the cache is of one run, whatever ran in between: the rows
\* are those of the file it names, few enough, and its companies and "computed"
\* mark are of these rows and this query, which was an allowed one.  The chart
\* shows figures of one file of the same user, nothing else; which file that is,
\* the last run's or an earlier one's, is up to the model, and a chart is not
\* dropped when the next query comes back (cache.py:91, README section 7).
KeptIsOfOneRun ==
    \A c \in Conversations : LET k == kept[c] IN
        /\ k.sql # NoQuery => IsAllowed(k.sql) /\ k.computed = k.sql.arith
        /\ k.companies = CompaniesIn(k.rows)
        /\ k.file = NoFile <=> k.rows = <<>>
        /\ k.file # NoFile => /\ k.rows = csv[k.file].table.rows /\ Len(k.rows) <= MaxRows
                              /\ csv[k.file].owner = OwnerOf[c]
        /\ k.chart.file # NoFile =>
               LET drawn == csv[k.chart.file] IN
               /\ drawn.owner = OwnerOf[c]
               /\ \A bar \in k.chart.bars :
                      /\ bar.company \in CompaniesIn(drawn.table.rows)
                      /\ bar.value # NoValue => bar \in BarsOf(drawn.table.rows)

\* A ranking of a table with periods shows each company once, with the latest
\* figure reported: none at a later period is left out for it.  Without periods it
\* shows each company once, with its largest value_numeric.  With neither it shows
\* all rows, a company as often as it has one (charts.py:84-91; that a
\* "Ranking uses one row per company", charts.py:74, is then not so: README
\* section 7).
RankingShowsLatest ==
    \A c \in Conversations : LET chart == kept[c].chart IN
        chart.kind = "hbar" /\ chart.file # NoFile =>
            LET table == csv[chart.file].table IN
            IsRanking(table) =>
                /\ {bar.company : bar \in chart.bars} = CompaniesIn(table.rows)
                /\ table.period \/ table.numeric =>
                       \A a, b \in chart.bars : a.company = b.company => a = b
                /\ table.period => \A bar \in chart.bars :
                       \A i \in FiguresOf(table.rows, bar.company) :
                           \E j \in FiguresOf(table.rows, bar.company) :
                               table.rows[j].value = bar.value /\ table.rows[j].at >= table.rows[i].at
                /\ ~table.period /\ table.numeric => \A bar \in chart.bars :
                       \A i \in FiguresOf(table.rows, bar.company) : table.rows[i].value <= bar.value
                /\ ~table.period /\ ~table.numeric => chart.bars = BarsOf(table.rows)
==============================================================================

-------------------------------- MODULE Parts --------------------------------
(* The parts that share no state with each other, side by side: a behaviour   *)
(* is one of the part it chooses at the start, the others rest.               *)
EXTENDS Integers, Sequences, FiniteSets

CONSTANTS
    \* Catalog
    Companies, Tags, Mappings, Searches, Limits, None, DefaultLimit, MaxLimit,
    \* Migration
    Files, QuestionIn, KeyOf, NoQuestion, MaxRuns,
    \* Slots
    Values, NoValue, Messages, Decisions,
    \* Analysis, in which NoValue is NULL
    Conversations, OwnerOf, Queries, AllowedTables, Results, Charts, MaxRows, MaxCsv,
    \* ModelCalls
    Filters, Middlewares, Answers, NoName, Json,
    \* Browser
    Texts, NoText, MaxSearches, MaxTurns, MaxFrames, NewPage,
    \* Evaluation
    Variants, NameOf, TestCases, Expected, Answered, Evaluators, MaxConcurrency, NotYet

\* Whatever can be searched for and what is searched are texts; places in name
\* order are numbered from 1; a priority is an integer.
ASSUME CatalogAssumption ==
    LET Written == (UNION {{c.name, c.symbol} \cup c.aliases : c \in Companies})
                   \cup (UNION {{t.qname, t.meaning} : t \in Tags}) \cup {m.metric : m \in Mappings} \cup Searches
        Letters == UNION {{text[i] : i \in DOMAIN text} : text \in Written}
    IN  /\ Written \subseteq Seq(Letters)
        /\ IsFiniteSet(Companies) /\ \A c \in Companies : c.at \in 1..Cardinality(Companies)
        /\ IsFiniteSet(Tags) /\ \A t \in Tags : t.at \in 1..Cardinality(Tags)
        /\ IsFiniteSet(Mappings) /\ \A m \in Mappings : m.priority \in Int
        /\ Limits \subseteq Int \cup {None}
        /\ MaxLimit \in Nat /\ DefaultLimit \in 1..MaxLimit

\* A file has a question with a key, or none.
ASSUME MigrationAssumption ==
    /\ IsFiniteSet(Files) /\ Files = 1..Cardinality(Files)
    /\ QuestionIn \in [Files -> DOMAIN KeyOf \cup {NoQuestion}]
    /\ MaxRuns \in Nat

\* A message and a decision name slots.
ASSUME SlotsAssumption ==
    LET Named == [{"company", "metric", "period", "basis"} -> Values \cup {NoValue}]
    IN  /\ \A message \in Messages : message.slots \in Named
        /\ \A decision \in Decisions : decision.slots \in Named

\* The rows of a table have a period that can be compared, and a number or NULL.
ASSUME AnalysisAssumption ==
    LET Names == UNION {{table.rows[i].company : i \in DOMAIN table.rows} : table \in Results}
        Row == [company : Names, at : Int, value : Int \cup {NoValue}]
    IN  /\ Results \subseteq [period : BOOLEAN, numeric : BOOLEAN, rows : Seq(Row)]
        /\ DOMAIN OwnerOf = Conversations
        /\ MaxRows \in Nat /\ MaxCsv \in Nat

\* A call comes in pieces; its name comes with one of its fragments.
ASSUME ModelCallsAssumption ==
    LET Made == UNION {{calls[i] : i \in DOMAIN calls} : calls \in Answers}
        Said == UNION {{call.pieces[n] : n \in DOMAIN call.pieces} : call \in Made}
    IN  /\ Answers \subseteq Seq(Made)
        /\ \A call \in Made : call.pieces \in Seq(Said) /\ call.head \in Nat \ {0}
        /\ Filters \in Nat /\ Middlewares \in Nat

\* The empty search box is one of its texts; no conversation is called NewPage.
ASSUME BrowserAssumption ==
    NoText \in Texts /\ MaxTurns \in Nat /\ NewPage \notin 1..MaxTurns

\* Variants and cases are numbered.
ASSUME EvaluationAssumption ==
    /\ IsFiniteSet(Variants) /\ Variants = 1..Cardinality(Variants)
    /\ IsFiniteSet(TestCases) /\ TestCases = 1..Cardinality(TestCases)
    /\ Evaluators \subseteq {"trajectory", "output", "efficiency", "judge", "custom"}
    /\ MaxConcurrency \in Nat

VARIABLES
    part,
    page,
    onDisk, stored, logged, deleting, importing, todo, written, noted, scriptRuns, unlinked, orphaned,
    slotFile, heard, reply, told, guessed,
    inflight, csv, kept, advice,
    way, station, within, answer, sent, builders, first, response, outcome, spans,
    box, timer, asked, waiting, list, shown,
    busy, conversationId, turn, serving, frames, open, wire, buffer, handled, cut, adopted,
    streaming, running, ran, scored, broken, queue, put, yielded, reports, ended

Catalog == INSTANCE Catalog
Migration == INSTANCE Migration
Slots == INSTANCE Slots
Analysis == INSTANCE Analysis
ModelCalls == INSTANCE ModelCalls
Browser == INSTANCE Browser
Evaluation == INSTANCE Evaluation

------------------------------------------------------------------------------
catalogVars == <<page>>
importVars == <<onDisk, stored, logged, deleting, importing, todo, written, noted, scriptRuns,
                unlinked, orphaned>>
gateVars == <<slotFile, heard, reply, told, guessed>>
runVars == <<inflight, csv, kept, advice>>
requestVars == <<way, station, within, answer, sent, builders, first, response, outcome, spans>>
searchVars == <<box, timer, asked, waiting, list, shown>>
streamVars == <<busy, conversationId, turn, serving, frames, open, wire, buffer, handled, cut, adopted>>
comparisonVars == <<streaming, running, ran, scored, broken, queue, put, yielded, reports, ended>>
vars == <<part, catalogVars, importVars, gateVars, runVars, requestVars, searchVars, streamVars, comparisonVars>>

Init ==
    /\ part \in {"catalog", "import", "gate", "run", "request", "search", "stream", "compare"}
    /\ Catalog!Init /\ Migration!Init /\ Slots!Init /\ Analysis!Init
    /\ ModelCalls!Init /\ Browser!Init /\ Evaluation!Init
    \* the choices of a part that rests
    /\ part # "request" => way = "whole" /\ answer = <<>>
    /\ part # "compare" => ~streaming

InCatalog ==
    /\ part = "catalog" /\ Catalog!Next
    /\ UNCHANGED <<part, importVars, gateVars, runVars, requestVars,
                   searchVars, streamVars, comparisonVars>>
InImport ==
    /\ part = "import" /\ Migration!Next
    /\ UNCHANGED <<part, catalogVars, gateVars, runVars, requestVars,
                   searchVars, streamVars, comparisonVars>>
InGate ==
    /\ part = "gate" /\ Slots!Next
    /\ UNCHANGED <<part, catalogVars, importVars, runVars, requestVars,
                   searchVars, streamVars, comparisonVars>>
InRun ==
    /\ part = "run" /\ Analysis!Next
    /\ UNCHANGED <<part, catalogVars, importVars, gateVars, requestVars,
                   searchVars, streamVars, comparisonVars>>
InRequest ==
    /\ part = "request" /\ ModelCalls!Next
    /\ UNCHANGED <<part, catalogVars, importVars, gateVars, runVars,
                   searchVars, streamVars, comparisonVars>>
InSearch ==
    /\ part = "search" /\ Browser!SearchNext
    /\ UNCHANGED <<part, catalogVars, importVars, gateVars, runVars,
                   requestVars, comparisonVars>>
InStream ==
    /\ part = "stream" /\ Browser!StreamNext
    /\ UNCHANGED <<part, catalogVars, importVars, gateVars, runVars,
                   requestVars, comparisonVars>>
InComparison ==
    /\ part = "compare" /\ Evaluation!Next
    /\ UNCHANGED <<part, catalogVars, importVars, gateVars, runVars,
                   requestVars, searchVars, streamVars>>

Next ==
    \/ InCatalog \/ InImport \/ InGate \/ InRun
    \/ InRequest \/ InSearch \/ InStream \/ InComparison

\* The event loop runs the comparison as long as it can.
Fairness == WF_vars(InComparison)

Spec == Init /\ [][Next]_vars /\ Fairness

TypeOK ==
    /\ Catalog!TypeOK /\ Migration!TypeOK /\ Slots!TypeOK /\ Analysis!TypeOK
    /\ ModelCalls!TypeOK /\ Browser!TypeOK /\ Evaluation!TypeOK

SearchIsLiteral == Catalog!SearchIsLiteral
ImportIsSafe == Migration!ImportIsSafe
GateAsksWhatIsMissing == Slots!GateAsksWhatIsMissing
KeptIsOfOneRun == Analysis!KeptIsOfOneRun
RankingShowsLatest == Analysis!RankingShowsLatest
CallsArriveWhole == ModelCalls!CallsArriveWhole
ListFollowsBox == Browser!ListFollowsBox
FramesHandledWhole == Browser!FramesHandledWhole
EvaluationAccounts == Evaluation!EvaluationAccounts
EvaluationEnds == part = "compare" => Evaluation!EvaluationEnds
==============================================================================

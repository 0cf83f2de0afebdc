------------------------------- MODULE Catalog -------------------------------
(* The side bar's searches: app/catalog.py behind /api/catalog/companies and  *)
(* /api/catalog/tags.  What the user types is searched for literally: it is   *)
(* escaped into an ILIKE pattern.                                             *)
EXTENDS Integers, Sequences, FiniteSets, SequencesExt, Patterns, Subsequences

CONSTANTS
    Companies,   \* companies: [name, symbol, aliases, at]: `at' is the place in name order
    Tags,        \* tag_catalog: [qname, meaning, at]
    Mappings,    \* metric_tag_mappings, APPROVED: [tag (an `at'), metric, priority]
    Searches,    \* what is typed, stripped
    Limits,      \* the limits requested; None is no limit, or one that is no number
    None,
    DefaultLimit, MaxLimit

VARIABLES page   \* the last answer: what was asked for, and the rows

ClampLimit(limit) ==
    IF limit = None THEN DefaultLimit
    ELSE IF limit > MaxLimit THEN MaxLimit ELSE IF limit < 1 THEN 1 ELSE limit

First(rows, limit) == SubSeq(rows, 1, IF Len(rows) < limit THEN Len(rows) ELSE limit)

\* One row of each place, in name order: DISTINCT ON takes any of those that tie.
InNameOrder(rows) ==
    LET places == {r.at : r \in rows}
    IN  [n \in 1..Cardinality(places) |-> CHOOSE r \in rows : r.at = Nth(places, n)]

CompanyRows(q) ==
    IF q = <<>> THEN {c \in Companies : c.name # <<>>}
    ELSE {c \in Companies : \E t \in {c.name, c.symbol} \cup c.aliases : Like(t, LikePattern(q))}

\* One row per tag: the approved mapping of best priority among those the
\* search lets through, or no metric (<<>>, after all others).
TagRows(q) ==
    LET joined == {[tag |-> p[1], metric |-> p[2].metric, rank |-> p[2].priority] :
                       p \in {p \in Tags \X Mappings : p[2].tag = p[1].at}}
                  \cup {[tag |-> t, metric |-> <<>>, rank |-> 0] :
                       t \in {t \in Tags : \A m \in Mappings : m.tag # t.at}}
        found  == {r \in joined : q = <<>> \/ \E t \in {r.tag.qname, r.tag.meaning, r.metric} :
                                                  Like(t, LikePattern(q))}
    IN  {[at |-> r.tag.at, metric |-> r.metric] :
            r \in {r \in found : \A s \in found : s.tag = r.tag => r.rank <= s.rank}}

FetchCompanies(q, limit) ==
    page' = [of |-> "companies", q |-> q, limit |-> limit,
             rows |-> First(InNameOrder(CompanyRows(q)), ClampLimit(limit))]

FetchTags(q, limit) ==
    page' = [of |-> "tags", q |-> q, limit |-> limit,
             rows |-> First(InNameOrder(TagRows(q)), ClampLimit(limit))]

Init == page = [of |-> "nothing", q |-> <<>>, limit |-> None, rows |-> <<>>]

Next == \E q \in Searches, limit \in Limits : FetchCompanies(q, limit) \/ FetchTags(q, limit)

------------------------------------------------------------------------------
\* The answer is what the search should have found: its places, and those shown.
IsLiteral(answer) ==
    LET cap == ClampLimit(answer.limit)
        sought == IF answer.of = "companies"
                  THEN {c \in Companies : IF answer.q = <<>> THEN c.name # <<>>
                            ELSE \E t \in {c.name, c.symbol} \cup c.aliases : Within(t, answer.q)}
                  ELSE {t \in Tags : \/ Within(t.qname, answer.q) \/ Within(t.meaning, answer.q)
                                     \/ \E m \in Mappings : m.tag = t.at /\ Within(m.metric, answer.q)}
        places == {r.at : r \in sought}
        shown  == {r.at : r \in ToSet(answer.rows)}
    IN  /\ cap \in 1..MaxLimit /\ Len(answer.rows) <= cap
        /\ Cardinality(shown) = Len(answer.rows)
        /\ \A i, j \in DOMAIN answer.rows : i < j => answer.rows[i].at < answer.rows[j].at
        /\ shown \subseteq places
        /\ \A at \in places \ shown : Len(answer.rows) = cap /\ \A s \in shown : s < at
        /\ answer.of = "tags" => \A r \in ToSet(answer.rows) : \A m \in Mappings :
               m.tag = r.at /\ Within(m.metric, answer.q) =>
                   \E n \in Mappings : n.tag = r.at /\ n.metric = r.metric /\ n.priority <= m.priority

\* A search finds what was typed, letter by letter: a percent sign, an
\* underscore or a backslash stands for itself.  The answer holds the first of
\* the rows that contain it, in order, and stops short of one only at the limit,
\* which is between 1 and 200 whatever was asked for.  A tag comes once, with
\* its best metric among those that match.
SearchIsLiteral == page.of # "nothing" => IsLiteral(page)

TypeOK ==
    /\ page.of \in {"nothing", "companies", "tags"}
    /\ page.q \in Searches \cup {<<>>}
    /\ page.limit \in Limits \cup {None}
==============================================================================

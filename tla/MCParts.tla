------------------------------- MODULE MCParts -------------------------------
(* Instances of the parts, small ones.                                        *)
EXTENDS Parts

CONSTANTS A

\* Catalog: names with each of the pattern's special characters.
MCCompanies == {[name |-> <<"a", "%">>, symbol |-> <<"b">>, aliases |-> {}, at |-> 1],
                [name |-> <<"a", "b">>, symbol |-> <<>>, aliases |-> {<<"_">>}, at |-> 2],
                [name |-> <<"b", "\\", "a">>, symbol |-> <<"a">>, aliases |-> {<<"a", "\\">>, <<"b", "a">>}, at |-> 3],
                [name |-> <<>>, symbol |-> <<"b", "_">>, aliases |-> {}, at |-> 4]}
MCTags == {[qname |-> <<"a", "_", "b">>, meaning |-> <<"b">>, at |-> 1],
           [qname |-> <<"a", "a">>, meaning |-> <<>>, at |-> 2],
           [qname |-> <<"b", "b">>, meaning |-> <<"%">>, at |-> 3]}
MCMappings == {[tag |-> 1, metric |-> <<"a">>, priority |-> 1], [tag |-> 1, metric |-> <<"a", "b">>, priority |-> 2],
               [tag |-> 2, metric |-> <<"b">>, priority |-> 1], [tag |-> 2, metric |-> <<"_">>, priority |-> 1]}
MCSearches == UNION {[1..n -> {"a", "b", "%", "_", "\\"}] : n \in 0..2}
MCLimits == {0, 1, 2, 9, None}

\* Migration: two spellings of one key, a question twice, an unreadable file.
MCQuestionIn == <<"Q1", "q1", NoQuestion, "Q1", "Q2">>
MCKeyOf == [q \in {"Q1", "q1", "Q2"} |-> IF q = "Q2" THEN "k2" ELSE "k1"]

\* Slots: any slots named, of one value each; a decision may fill any of three.
Says(c, m, p, b) == [company |-> c, metric |-> m, period |-> p, basis |-> b]
MCMessages ==
    {msg \in [slots : {Says(c, m, p, NoValue) : c, m, p \in {A, NoValue}}, exploratory : BOOLEAN, ranking : BOOLEAN] :
        msg.exploratory => msg.slots.metric = NoValue}
        \cup {[slots |-> Says(NoValue, NoValue, NoValue, A), exploratory |-> FALSE, ranking |-> FALSE]}
MCDecisions == [slots : {Says(c, m, p, NoValue) : c, m, p \in {A, NoValue}}, ready : BOOLEAN, asks : BOOLEAN]

\* Analysis: two allowed queries and two that are not; tables with and without
\* a period and a value_numeric column, a NULL, more rows than the cap, none.
MCOwnerOf == [c \in Conversations |-> "u"]
Query(lead, statements, names, ctes, arith) ==
    [lead |-> lead, statements |-> statements, names |-> names, ctes |-> ctes, arith |-> arith]
MCQueries == {Query("with", 1, {"filings", "t"}, {"t"}, TRUE), Query("paren", 1, {"filings"}, {}, FALSE),
              Query("select", 2, {}, {}, FALSE), Query("select", 1, {"users"}, {}, FALSE)}
Row(company, at, value) == [company |-> company, at |-> at, value |-> value]
Table(period, numeric, rows) == [period |-> period, numeric |-> numeric, rows |-> rows]
MCResults ==
    {Table(TRUE, TRUE, <<Row("a", 2, 5), Row("b", 2, NoValue), Row("a", 1, 7), Row("b", 1, 3), Row("a", 1, 4)>>),
     Table(FALSE, TRUE, <<Row("a", 2, 5), Row("a", 1, 7), Row("b", 1, 3)>>),
     Table(FALSE, FALSE, <<Row("a", 1, 5), Row("a", 2, 6), Row("b", 2, 3)>>),
     Table(TRUE, FALSE, <<Row("a", 1, 5), Row("a", 2, 7)>>),
     Table(TRUE, TRUE, <<>>)}
MCCharts == {"", "histogram"}

\* ModelCalls: fragments that interleave, a call without id or arguments, one
\* without a name, text that is no JSON.
Call(id, name, pieces, head) == [id |-> id, name |-> name, pieces |-> pieces, head |-> head]
MCAnswers == {<<>>, <<Call("c1", "run_sql", <<"a", "b">>, 1), Call("c2", "search", <<"a", "b">>, 2)>>,
              <<Call(NoName, "run_sql", <<>>, 1), Call("c2", NoName, <<"a">>, 1), Call("c3", "search", <<"b">>, 1)>>}
MCJson == {<<"a", "b">>}

\* Evaluation: two variants, two cases, room for two jobs of four.
MCNameOf == <<"v", "w">>
MCExpected == <<[tools |-> {}, contains |-> {"x", "y"}, excludes |-> {"z"}],
                [tools |-> {"run_sql"}, contains |-> {}, excludes |-> {}]>>
==============================================================================

------------------------------ MODULE Evaluation ------------------------------
(* vanna/core/evaluation: agent variants run over test cases, in parallel     *)
(* under one semaphore, every answer scored by the evaluators, and the        *)
(* results gathered into reports or streamed as they come.                    *)
EXTENDS Integers, Sequences, FiniteSets, SequencesExt, FiniteSetsExt

CONSTANTS
    Variants,     \* 1..n
    NameOf,       \* NameOf[v]: names need not be distinct
    TestCases,    \* 1..m
    Expected,     \* Expected[t]: [tools, contains, excludes], sets; all empty: none
    Answered,     \* what an agent can say, as sets of contents
    Evaluators,   \* a subset of the four below, and "custom"
    MaxConcurrency,
    NotYet

VARIABLES
    streaming,    \* compare_agents_streaming instead of compare_agents
    running,      \* jobs <<variant, case>> that hold the semaphore
    ran,          \* ran[j]: [answer, error], or NotYet
    scored,       \* scored[j]: [evaluator -> passed], or NotYet
    broken,       \* jobs one of whose evaluators raised
    queue,        \* streaming: results put and not yet taken
    put,          \* streaming: workers that are through
    yielded,      \* streaming: jobs handed to the caller
    reports,      \* otherwise: reports[name]: the variant whose results they are
    ended         \* "no", "done" or "raised"

evaluationVars == <<streaming, running, ran, scored, broken, queue, put, yielded, reports, ended>>

Jobs == Variants \X TestCases
Names == {NameOf[v] : v \in Variants}
JobsOf(v) == {j \in Jobs : j[1] = v}
Begun == running \cup broken \cup {j \in Jobs : scored[j] # NotYet}

TypeOK ==
    /\ streaming \in BOOLEAN
    /\ running \subseteq Jobs /\ broken \subseteq Jobs
    /\ \A j \in Jobs :
           /\ ran[j] = NotYet \/ ran[j] \in [answer : Answered, error : BOOLEAN]
           /\ scored[j] = NotYet \/ scored[j] \in [Evaluators -> BOOLEAN]
    /\ queue \in Seq(Jobs) /\ yielded \in Seq(Jobs) /\ put \subseteq Variants
    /\ DOMAIN reports \subseteq Names
    /\ ended \in {"no", "done", "raised"}

Init ==
    /\ streaming \in BOOLEAN
    /\ running = {} /\ broken = {}
    /\ ran = [j \in Jobs |-> NotYet] /\ scored = [j \in Jobs |-> NotYet]
    /\ queue = <<>> /\ put = {} /\ yielded = <<>> /\ reports = <<>> /\ ended = "no"

\* _run_single_test_case: all variants share the semaphore.
Acquire(j) ==
    /\ j \notin Begun /\ Cardinality(running) < MaxConcurrency
    /\ running' = running \cup {j}
    /\ UNCHANGED <<streaming, ran, scored, broken, queue, put, yielded, reports, ended>>

\* _execute_agent: whatever the agent raises becomes the result's error.
Execute(j) ==
    /\ j \in running /\ ran[j] = NotYet
    /\ \E answer \in Answered, error \in BOOLEAN :
           ran' = [ran EXCEPT ![j] = [answer |-> answer, error |-> error]]
    /\ UNCHANGED <<streaming, running, scored, broken, queue, put, yielded, reports, ended>>

\* Scores in hundredths, 70 passes.  Half a point is shared by the expected
\* items that are missing, half by the forbidden ones that are there.
Lost(bad, all) == IF all = {} THEN 0 ELSE (50 * Cardinality(bad)) \div Cardinality(all)
Passes(lost) == 100 - lost >= 70

\* No tool call is ever recorded in a result, so none that is expected was made.
TrajectoryPasses(result, expected) ==
    {~result.error /\ Passes(Lost(expected.tools, expected.tools))}

OutputPasses(result, expected) ==
    {/\ ~result.error
     /\ Passes(Lost(expected.contains \ result.answer, expected.contains)
               + Lost(expected.excludes \cap result.answer, expected.excludes))}

\* Nor is a time or a token, so that every run is within the limits; this one
\* does not ask whether the agent failed.
EfficiencyPasses == {TRUE}

\* The judge's model says "yes", or something else, or raises, which is a "no".
JudgePasses(result) == IF result.error THEN {FALSE} ELSE BOOLEAN

Verdicts(evaluator, result, expected) ==
    CASE evaluator = "trajectory" -> TrajectoryPasses(result, expected)
      [] evaluator = "output"     -> OutputPasses(result, expected)
      [] evaluator = "efficiency" -> EfficiencyPasses
      [] evaluator = "judge"      -> JudgePasses(result)
      [] OTHER -> BOOLEAN

\* A job that keeps its place.
SlipScore(j) ==
    /\ j \in running /\ ran[j] # NotYet /\ scored[j] = NotYet
    /\ scored' = [scored EXCEPT ![j] = [e \in Evaluators |-> TRUE]]
    /\ UNCHANGED <<streaming, running, ran, broken, queue, put, yielded, reports, ended>>

\* The evaluators, one after the other; the semaphore is released.
Score(j) ==
    /\ j \in running /\ ran[j] # NotYet
    /\ \E verdicts \in [Evaluators -> BOOLEAN] :
           /\ \A e \in Evaluators : verdicts[e] \in Verdicts(e, ran[j], Expected[j[2]])
           /\ scored' = [scored EXCEPT ![j] = verdicts]
    /\ running' = running \ {j}
    /\ UNCHANGED <<streaming, ran, broken, queue, put, yielded, reports, ended>>

\* An evaluator of one's own raises; the built-in ones do not.  gather passes the
\* first exception on and lets the other jobs run; a streaming worker just dies.
EvaluatorRaises(j) ==
    /\ "custom" \in Evaluators
    /\ j \in running /\ ran[j] # NotYet /\ scored[j] = NotYet
    /\ broken' = broken \cup {j} /\ running' = running \ {j}
    /\ ended' = IF streaming \/ ended # "no" THEN ended ELSE "raised"
    /\ UNCHANGED <<streaming, ran, scored, queue, put, yielded, reports>>

Through(v) == \A j \in JobsOf(v) : scored[j] # NotYet

\* Reports zipped with the names as they come, not as they were asked for.
SlipGather ==
    /\ ~streaming /\ ended = "no" /\ \A v \in Variants : Through(v)
    /\ reports' \in [Names -> Variants]
    /\ ended' = "done"
    /\ UNCHANGED <<streaming, running, ran, scored, broken, queue, put, yielded>>

\* compare_agents: dict(zip(names, reports)), in which the last variant of a name
\* is left.
Gather ==
    /\ ~streaming /\ ended = "no" /\ \A v \in Variants : Through(v)
    /\ reports' = [n \in Names |-> Max({v \in Variants : NameOf[v] = n})]
    /\ ended' = "done"
    /\ UNCHANGED <<streaming, running, ran, scored, broken, queue, put, yielded>>

\* A worker puts the results of its variant once it has them all.
Put(v) ==
    /\ streaming /\ v \notin put /\ Through(v)
    /\ queue' = queue \o [t \in TestCases |-> <<v, t>>]
    /\ put' = put \cup {v}
    /\ UNCHANGED <<streaming, running, ran, scored, broken, yielded, reports, ended>>

Yield ==
    /\ queue # <<>>
    /\ yielded' = Append(yielded, Head(queue)) /\ queue' = Tail(queue)
    /\ ended' = IF Len(yielded) + 1 = Cardinality(Jobs) THEN "done" ELSE ended
    /\ UNCHANGED <<streaming, running, ran, scored, broken, put, reports>>

Next ==
    \/ \E j \in Jobs : Acquire(j) \/ Execute(j) \/ Score(j) \/ EvaluatorRaises(j)
    \/ Gather \/ (\E v \in Variants : Put(v)) \/ Yield

------------------------------------------------------------------------------
\* TestCaseResult.overall_passed.
OverallPassed(j) == \A e \in Evaluators : scored[j][e]

\* No other variant has its name.
NamedAlone(v) == \A w \in Variants : NameOf[w] = NameOf[v] => w = v

\* With any number of variants under way there are never more agents at work
\* than allowed.  A comparison that ended has a result of every case: streamed,
\* once for every variant; otherwise in the variant's own report under its name,
\* if no other variant has that name (of a name that several have, only the last
\* one's is left: README section 7).  A case whose agent failed is not passed,
\* unless it is only scored for efficiency or by evaluators of one's own.
EvaluationAccounts ==
    /\ Cardinality(running) <= MaxConcurrency
    /\ \A j \in Jobs : scored[j] # NotYet => ran[j] # NotYet
    /\ \A i, k \in DOMAIN yielded : yielded[i] = yielded[k] => i = k
    /\ ended = "done" /\ streaming => Range(yielded) = Jobs
    /\ ended = "done" /\ ~streaming =>
           \A v \in Variants : NamedAlone(v) =>
               /\ NameOf[v] \in DOMAIN reports /\ reports[NameOf[v]] = v
               /\ Through(v)
    /\ \A j \in Jobs : scored[j] # NotYet /\ ran[j].error /\ OverallPassed(j) =>
           Evaluators \subseteq {"efficiency", "custom"}

\* A comparison comes to its end, unless it streams and an evaluator raised: then
\* it waits for results nobody will put.
EvaluationEnds == <>(ended # "no" \/ (streaming /\ broken # {}))
==============================================================================

------------------------------ MODULE ModelCalls ------------------------------
(* One request to the language model: the stations of the agent around it     *)
(* (filters, enhancer, middlewares, each in a span of its own), and the three *)
(* ways an answer with tool calls comes back: whole, streamed in fragments,   *)
(* and, in this application, whole but handed on as a stream.                 *)
(* core/agent/agent.py, integrations/openai/llm.py, app/llm.py.               *)
EXTENDS Integers, Sequences, FiniteSets, SequencesExt, Subsequences

CONSTANTS
    Filters, Middlewares,   \* how many of each the agent has
    Answers,      \* sequences of tool calls [id, name, pieces, head]: pieces of
                  \* the arguments' text, and the fragment that has id and name
    NoName,       \* an id or a name that is missing
    Json          \* the texts (sequences of pieces) that are JSON objects

VARIABLES
    way,          \* "stream", "whole" or "app"
    station,      \* where the request is, an index into Route
    within,       \* the station's callee runs
    answer,       \* what the model answers
    sent,         \* sent[i]: fragments of call i that came
    builders,     \* partial calls [index, id, name, text], as tc_builders has them
    first,        \* history: the calls in the order of their first fragments
    response,     \* the tool calls of the response
    outcome,      \* "open", "done", "cut" (the model ran out of tokens) or "raised"
    spans         \* spans begun and not ended

modelCallVars == <<way, station, within, answer, sent, builders, first, response, outcome, spans>>

Repeat(what, n) == [i \in 1..n |-> what]
Route == Repeat("filter", Filters) \o <<"enhancer">> \o Repeat("before", Middlewares)
             \o <<"model">> \o Repeat("after", Middlewares)

\* json.loads, with the text kept under _raw if it is no JSON object.
Parsed(text) == [raw |-> text \notin Json, text |-> text]
EmptyObject == [raw |-> FALSE, text |-> <<>>]
DefaultId == "tool_call"

\* _extract_tool_calls_from_message: no text at all is no JSON either.
WholeCalls(calls) ==
    [i \in DOMAIN calls |-> [id |-> calls[i].id, name |-> calls[i].name,
                             arguments |-> Parsed(calls[i].pieces)]]
\* ToolCall refuses a missing id or name.
Valid(calls) == \A i \in DOMAIN calls : calls[i].id # NoName /\ calls[i].name # NoName

TypeOK ==
    /\ way \in {"stream", "whole", "app"}
    /\ station \in 1..(Len(Route) + 1) /\ within \in BOOLEAN
    /\ answer \in Answers
    /\ sent \in [DOMAIN answer -> Nat]
    /\ \A i \in DOMAIN builders : builders[i].index \in DOMAIN answer
    /\ Range(first) \subseteq DOMAIN answer
    /\ outcome \in {"open", "done", "cut", "raised"}
    /\ spans \subseteq DOMAIN Route

Init ==
    /\ way \in {"stream", "whole", "app"} /\ answer \in Answers
    /\ station = 1 /\ within = FALSE
    /\ sent = [i \in DOMAIN answer |-> 0] /\ builders = <<>> /\ first = <<>>
    /\ response = <<>> /\ outcome = "open" /\ spans = {}

Enter ==
    /\ outcome \in {"open", "cut"} /\ ~within /\ station <= Len(Route)
    /\ within' = TRUE /\ spans' = spans \cup {station}
    /\ UNCHANGED <<way, station, answer, sent, builders, first, response, outcome>>

Leave == station' = station + 1 /\ within' = FALSE /\ spans' = spans \ {station}

\* A filter, the enhancer or a middleware returns.
Return ==
    /\ within /\ Route[station] # "model"
    /\ Leave
    /\ outcome' = IF station = Len(Route) /\ outcome = "open" THEN "done" ELSE outcome
    /\ UNCHANGED <<way, answer, sent, builders, first, response>>

\* Any callee may raise, the model's service too: the turn ends, and the span of
\* the station is never ended.
Raises ==
    /\ within
    /\ outcome' = "raised" /\ within' = FALSE /\ station' = Len(Route) + 1
    /\ UNCHANGED <<way, answer, sent, builders, first, response, spans>>

\* The whole answer, of the OpenAI service or of the application's.
Whole ==
    /\ within /\ Route[station] = "model" /\ way # "stream"
    /\ Valid(answer)
    /\ response' = WholeCalls(answer)
    /\ Leave
    /\ outcome' = IF station = Len(Route) THEN "done" ELSE outcome
    /\ UNCHANGED <<way, answer, sent, builders, first>>

Fragments(call) == IF call.head > Len(call.pieces) THEN call.head ELSE Len(call.pieces)

\* A fragment taken for one of the call that was begun last.
SlipBuilder(i) == Len(builders)

\* tc_builders is keyed by the fragment's index.
Builder(i) == SelectInSeq(builders, LAMBDA b : b.index = i)

\* One fragment joins the builder of its index.
Take(i) ==
    LET call == answer[i]  n == sent[i] + 1
        piece == IF n <= Len(call.pieces) THEN <<call.pieces[n]>> ELSE <<>>
    IN  /\ n <= Fragments(call)
        /\ builders' = LET at == Builder(i)
                           old == IF at # 0 THEN builders[at]
                                  ELSE [index |-> i, id |-> NoName, name |-> NoName, text |-> <<>>]
                           new == [old EXCEPT !.id = IF n = call.head THEN call.id ELSE @,
                                              !.name = IF n = call.head THEN call.name ELSE @,
                                              !.text = @ \o piece]
                       IN  IF at # 0 THEN [builders EXCEPT ![at] = new] ELSE Append(builders, new)
        /\ first' = IF sent[i] = 0 THEN Append(first, i) ELSE first
        /\ sent' = [sent EXCEPT ![i] = n]

\* Fragments of several calls come in any order.
Fragment ==
    /\ within /\ Route[station] = "model" /\ way = "stream"
    /\ \E i \in DOMAIN answer : Take(i)
    /\ UNCHANGED <<way, station, within, answer, response, outcome, spans>>

Given(text) == IF text = <<>> THEN EmptyObject ELSE Parsed(text)

StreamedCalls ==
    LET named == Keep(builders, {k \in DOMAIN builders : builders[k].name # NoName})
    IN  [i \in DOMAIN named |->
            [id |-> IF named[i].id = NoName THEN DefaultId ELSE named[i].id,
             name |-> named[i].name,
             arguments |-> Given(named[i].text)]]

\* The stream ends, after the last fragment or, out of tokens, before it.
StreamEnds ==
    /\ within /\ Route[station] = "model" /\ way = "stream"
    /\ response' = StreamedCalls
    /\ Leave
    /\ outcome' = IF \E i \in DOMAIN answer : sent[i] < Fragments(answer[i]) THEN "cut"
                  ELSE IF station = Len(Route) THEN "done" ELSE outcome
    /\ UNCHANGED <<way, answer, sent, builders, first>>

Next == Enter \/ Return \/ Raises \/ Whole \/ Fragment \/ StreamEnds

------------------------------------------------------------------------------
\* What came of a call's text, and whether its name came.
Came(i) ==
    LET pieces == answer[i].pieces
    IN  SubSeq(pieces, 1, IF sent[i] <= Len(pieces) THEN sent[i] ELSE Len(pieces))
NameCame(i) == sent[i] >= answer[i].head /\ answer[i].name # NoName
NamedCalls == Keep(first, {k \in DOMAIN first : NameCame(first[k])})

\* Whichever way the answer comes back, and in whatever order the fragments of
\* its calls came, the agent gets the calls the model made.  In a stream these are
\* the calls whose name came, each once, in the order of their first fragments,
\* and each with what came of its own text, in order: all of it, and every call
\* that has a name, unless the model ran out of tokens.  A call without arguments
\* has an empty object in a stream and an unparsable text otherwise; one without
\* an id has the default one.  The spans of a request that came through, cut off
\* or not, are all ended.
CallsArriveWhole ==
    /\ outcome # "raised" /\ station > Len(Route) => spans = {}
    /\ outcome = "done" /\ way # "stream" => response = WholeCalls(answer)
    /\ outcome \in {"done", "cut"} /\ way = "stream" =>
           response = [j \in DOMAIN NamedCalls |->
                          LET i == NamedCalls[j] IN
                              [id |-> IF answer[i].id = NoName THEN DefaultId ELSE answer[i].id,
                               name |-> answer[i].name, arguments |-> Given(Came(i))]]
    /\ outcome = "done" /\ way = "stream" =>
           /\ \A i \in DOMAIN answer : answer[i].name # NoName =>
                  Came(i) = answer[i].pieces /\ \E j \in DOMAIN NamedCalls : NamedCalls[j] = i
           /\ \A j, k \in DOMAIN NamedCalls : NamedCalls[j] = NamedCalls[k] => j = k
==============================================================================

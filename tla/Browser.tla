------------------------------- MODULE Browser -------------------------------
(* The page, app/web/app.js: a search box over the catalogue, and the chat    *)
(* stream of app/server.py as it is cut up by the network and put together    *)
(* again.                                                                     *)
EXTENDS Integers, Sequences, FiniteSets, SequencesExt, Subsequences

CONSTANTS
    Texts,        \* what can be in a search box; NoText, the empty box, is one
    NoText,
    MaxSearches,  \* bound on the requests of the search box
    MaxTurns, MaxFrames,  \* bounds on the messages sent and the frames of a turn
    NewPage       \* conversationId before the server named one

VARIABLES
    box, timer,   \* the search box; whether its 200 ms run
    asked,        \* asked[n]: text of the n-th request
    waiting,      \* numbers of the requests that are not answered
    list,         \* the text whose matches are listed
    shown,        \* history: the number of the request whose answer is listed

    busy, conversationId,
    turn,         \* number of messages sent
    serving,      \* the conversation the server works on
    frames,       \* frames of the turn the server sent: "show", "ignore", "error", "done"
    open,         \* the server has not closed the stream
    wire,         \* pieces under way: <<frame number, "head" | "tail">>; the
                  \* blank line that ends a frame comes with its tail
    buffer,       \* pieces read and not yet part of a whole frame
    handled,      \* numbers of the frames handled, in order
    cut,          \* the connection broke
    adopted       \* history: conversations named by the server and adopted

searchVars == <<box, timer, asked, waiting, list, shown>>
streamVars == <<busy, conversationId, turn, serving, frames, open, wire, buffer, handled, cut, adopted>>
browserVars == <<searchVars, streamVars>>

TypeOK ==
    /\ box \in Texts /\ timer \in BOOLEAN
    /\ asked \in Seq(Texts) /\ waiting \subseteq DOMAIN asked /\ list \in Texts
    /\ shown \in 0..Len(asked)
    /\ busy \in BOOLEAN /\ open \in BOOLEAN /\ cut \in BOOLEAN
    /\ conversationId \in 1..MaxTurns \cup {NewPage} /\ turn \in 0..MaxTurns
    /\ frames \in Seq({"show", "ignore", "error", "done"})
    /\ \A p \in Range(wire \o buffer) : p \in (DOMAIN frames) \X {"head", "tail"}
    /\ Range(handled) \subseteq DOMAIN frames
    /\ adopted \subseteq 1..MaxTurns

\* The page loads with a request for the whole list.
Init ==
    /\ box = NoText /\ timer = FALSE /\ asked = <<NoText>> /\ waiting = {1}
    /\ list = NoText /\ shown = 0
    /\ busy = FALSE /\ conversationId = NewPage /\ turn = 0 /\ serving = NewPage
    /\ frames = <<>> /\ open = FALSE /\ wire = <<>> /\ buffer = <<>> /\ handled = <<>>
    /\ cut = FALSE /\ adopted = {}

Type ==
    /\ Len(asked) < MaxSearches
    /\ box' \in Texts \ {box} /\ timer' = TRUE
    /\ UNCHANGED <<asked, waiting, list, shown, streamVars>>

\* A search that does nothing for an empty box.
SlipSearch ==
    /\ timer /\ timer' = FALSE
    /\ IF box = NoText THEN UNCHANGED <<asked, waiting>>
       ELSE asked' = Append(asked, box) /\ waiting' = waiting \cup {Len(asked) + 1}
    /\ UNCHANGED <<box, list, shown, streamVars>>

\* The debounced handler reads the box when it runs.
Search ==
    /\ timer /\ timer' = FALSE
    /\ asked' = Append(asked, box) /\ waiting' = waiting \cup {Len(asked) + 1}
    /\ UNCHANGED <<box, list, shown, streamVars>>

\* An answer is shown whenever it comes; nothing asks whether it is still the
\* one that is wanted.
Listed ==
    \E n \in waiting :
        /\ list' = asked[n] /\ waiting' = waiting \ {n}
        /\ shown' = n
        /\ UNCHANGED <<box, timer, asked, streamVars>>

SearchFails ==
    \E n \in waiting :
        /\ waiting' = waiting \ {n}
        /\ UNCHANGED <<box, timer, asked, list, shown, streamVars>>

------------------------------------------------------------------------------
\* A buffer shared by all turns.
SlipSend ==
    /\ ~busy /\ turn < MaxTurns
    /\ busy' = TRUE /\ turn' = turn + 1
    /\ serving' = IF conversationId = NewPage THEN turn + 1 ELSE conversationId
    /\ frames' = <<>> /\ open' = TRUE /\ wire' = <<>> /\ handled' = <<>>
    /\ cut' = FALSE
    /\ UNCHANGED <<buffer, conversationId, adopted, searchVars>>

\* sendMessage; while busy, it returns.
Send ==
    /\ ~busy /\ turn < MaxTurns
    /\ busy' = TRUE /\ turn' = turn + 1
    /\ serving' = IF conversationId = NewPage THEN turn + 1 ELSE conversationId
    /\ frames' = <<>> /\ open' = TRUE /\ wire' = <<>> /\ buffer' = <<>> /\ handled' = <<>>
    /\ cut' = FALSE
    /\ UNCHANGED <<conversationId, adopted, searchVars>>

Put(frame) ==
    /\ frames' = Append(frames, frame)
    /\ wire' = wire \o <<<<Len(frames) + 1, "head">>, <<Len(frames) + 1, "tail">>>>
    /\ UNCHANGED <<busy, conversationId, turn, serving, buffer, handled, cut, adopted, searchVars>>

Emit == open /\ Len(frames) < MaxFrames /\ (Put("show") \/ Put("ignore")) /\ UNCHANGED open

\* [DONE], or the error of a turn that raised; an error names the conversation
\* of the request, which the first one has none of.
Close == open /\ open' = FALSE /\ (Put("done") \/ Put("error"))

\* The connection breaks: of what is under way a prefix still comes.
Break ==
    /\ open /\ open' = FALSE /\ cut' = TRUE
    /\ \E n \in 0..Len(wire) : wire' = SubSeq(wire, 1, n)
    /\ UNCHANGED <<busy, conversationId, turn, serving, frames, buffer, handled, adopted, searchVars>>

\* buffer.split("\n\n"): the whole frames, and the rest, which waits.
Whole(pieces) ==
    LET tails == Keep(pieces, {k \in DOMAIN pieces : pieces[k][2] = "tail"})
    IN  [i \in DOMAIN tails |-> tails[i][1]]

\* The rest thrown away.
SlipRest(pieces) == <<>>
Rest(pieces) == IF pieces = <<>> \/ Last(pieces)[2] = "tail" THEN <<>> ELSE <<Last(pieces)>>

\* A frame whose head was lost is no JSON, and is skipped.
Heads(pieces) == {p[1] : p \in {q \in Range(pieces) : q[2] = "head"}}

Read ==
    /\ busy /\ wire # <<>>
    /\ \E n \in 1..Len(wire) :
           LET pieces == buffer \o SubSeq(wire, 1, n)
               all == Whole(pieces)
               whole == Keep(all, {k \in DOMAIN all : all[k] \in Heads(pieces) /\ frames[all[k]] # "done"})
               named == {f \in Range(whole) : frames[f] \in {"show", "ignore"}}
           IN  /\ wire' = SubSeq(wire, n + 1, Len(wire))
               /\ buffer' = Rest(pieces)
               /\ handled' = handled \o whole
               /\ conversationId' = IF named # {} THEN serving ELSE conversationId
               /\ adopted' = IF named # {} THEN adopted \cup {serving} ELSE adopted
    /\ UNCHANGED <<busy, turn, serving, frames, open, cut, searchVars>>

\* The stream ended, or the read raised: finally, whatever is in the buffer.
Over ==
    /\ busy /\ ~open /\ wire = <<>>
    /\ busy' = FALSE
    /\ UNCHANGED <<conversationId, turn, serving, frames, open, wire, buffer, handled, cut, adopted, searchVars>>

SearchNext == Type \/ Search \/ Listed \/ SearchFails
StreamNext == Send \/ Emit \/ Close \/ Break \/ Read \/ Over

------------------------------------------------------------------------------
\* Once the typing has stopped and nothing is asked any more, a list that is the
\* answer to the latest request is that of the box, whatever was listed or lost
\* before, in whatever order.  Nothing makes it the answer to the latest one: an
\* older answer that comes last stays (README section 7).
ListFollowsBox == ~timer /\ shown = Len(asked) => list = box

\* However the network cuts the stream up, the page handles the frames it was
\* sent, whole, once and in order, all of them unless the connection broke, and
\* stays in the first conversation the server named.
FramesHandledWhole ==
    /\ turn > 0 /\ ~busy /\ ~cut => Range(handled) = {i \in DOMAIN frames : frames[i] # "done"}
    /\ IsPrefix(handled, InOrder({i \in DOMAIN frames : frames[i] # "done"}))
    /\ Cardinality(adopted) <= 1
    /\ conversationId \in adopted \cup {NewPage}
==============================================================================

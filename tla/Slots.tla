-------------------------------- MODULE Slots --------------------------------
(* The gate in front of the engine: a conversation keeps four slots in its    *)
(* state.json, a message fills some of them, and a turn that lacks one is     *)
(* answered with a question.  app/clarify.py, app/conversation.py,            *)
(* app/workflow.py.                                                           *)
EXTENDS Sequences, SequencesExt

CONSTANTS
    Values,       \* what a slot can hold
    NoValue,      \* an empty slot
    Messages,     \* what a user can say: the slots a message names, and whether
                  \* it reads as exploratory or as a ranking
    Decisions     \* what the clarifying model can answer; a decision names slots

VARIABLES
    slotFile,     \* the slots in state.json
    heard,        \* the last message
    reply,        \* "pass", the slot asked for, or "own" for the model's question
    told,         \* history: slots the user named since state.json was last lost
    guessed       \* history: slots the model filled in the last turn

slotVars == <<slotFile, heard, reply, told, guessed>>

Order == <<"company", "metric", "period", "basis">>
Slot == Range(Order)
Empty == [s \in Slot |-> NoValue]
Quiet == [slots |-> Empty, exploratory |-> FALSE, ranking |-> FALSE]

\* Merging, of a message or of a decision: what is new wins, the rest is kept.
Merge(state, new) == [s \in Slot |-> IF new[s] # NoValue THEN new[s] ELSE state[s]]
Filled(state) == {s \in Slot : state[s] # NoValue}

\* missing_slots of a state the message is merged into, which therefore has the
\* message's metric; is_exploratory is FALSE of a message that names a metric.
MissingSlots(state, message) ==
    LET has == Filled(state)
    IN  IF message.exploratory /\ "metric" \notin has THEN {}
        ELSE IF message.ranking /\ "company" \notin has THEN {"metric"} \ has
        ELSE IF "metric" \notin has THEN {}
        ELSE {"company", "metric", "period"} \ has

UnresolvedSlots(state, message) ==
    MissingSlots(state, message) \ IF message.ranking THEN {"company"} ELSE {}

FirstOf(slots) == Order[CHOOSE i \in DOMAIN Order :
                            Order[i] \in slots /\ \A j \in 1..(i - 1) : Order[j] \notin slots]

TypeOK ==
    /\ slotFile \in [Slot -> Values \cup {NoValue}]
    /\ heard \in Messages \cup {Quiet}
    /\ reply \in Slot \cup {"pass", "own"}
    /\ told \subseteq Slot
    /\ guessed \subseteq Slot

Init == slotFile = Empty /\ heard = Quiet /\ reply = "pass" /\ told = {} /\ guessed = {}

Hear(message) ==
    /\ heard' = message
    /\ told' = told \cup Filled(message.slots)

\* A turn that lacks nothing: the slots are saved and the answer comes from the
\* cache or from the engine.
Pass(message) ==
    LET merged == Merge(slotFile, message.slots)
    IN  /\ MissingSlots(merged, message) = {}
        /\ slotFile' = merged /\ reply' = "pass" /\ guessed' = {}
        /\ Hear(message)

\* _skip_question without its save.
SlipAsk(message) ==
    LET merged == Merge(slotFile, message.slots)
        missing == MissingSlots(merged, message)
    IN  /\ missing # {}
        /\ UNCHANGED slotFile
        /\ reply' = FirstOf(missing) /\ guessed' = {}
        /\ Hear(message)

\* Without a clarifying model, and when it raises or answers no JSON: the first
\* missing slot is asked for, and what was understood is saved.
Ask(message) ==
    LET merged == Merge(slotFile, message.slots)
        missing == MissingSlots(merged, message)
    IN  /\ missing # {}
        /\ slotFile' = merged /\ reply' = FirstOf(missing) /\ guessed' = {}
        /\ Hear(message)

\* With its answer: the model fills slots, of values nobody checks against the
\* catalogue, and may ask in words of its own.
Clarify(message, decision) ==
    LET before == Merge(slotFile, message.slots)
        missing == MissingSlots(before, message)
        merged == Merge(before, decision.slots)
        still == UnresolvedSlots(merged, message)
    IN  /\ missing # {}
        /\ slotFile' = merged
        /\ guessed' = Filled(decision.slots)
        /\ reply' = IF decision.ready /\ still = {} THEN "pass"
                    ELSE IF ~decision.ready /\ decision.asks THEN "own"
                    ELSE FirstOf(IF still # {} THEN still ELSE missing)
        /\ Hear(message)

\* A crash in write_text, or a restart on another disk: load_state returns an
\* empty state, silently.
StateLost ==
    /\ slotFile # Empty
    /\ slotFile' = Empty /\ told' = {} /\ heard' = Quiet /\ reply' = "pass" /\ guessed' = {}

Next ==
    \/ \E message \in Messages : Pass(message) \/ Ask(message)
    \/ \E message \in Messages, decision \in Decisions : Clarify(message, decision)
    \/ StateLost

------------------------------------------------------------------------------
\* Over a conversation of any length, the gate asks only for what it does not
\* have: a slot the user has named once is never asked for again; a slot asked
\* for is empty, except that a model which filled it and still was not ready may
\* leave the question standing.  And it lets a figure question through only with
\* a company, a metric and a period, a ranking excepted.
GateAsksWhatIsMissing ==
    /\ told \subseteq Filled(slotFile)
    /\ reply \in Slot => reply \notin told /\ (reply \in Filled(slotFile) => reply \in guessed)
    /\ reply = "pass" /\ "metric" \in Filled(slotFile) /\ heard # Quiet =>
           heard.ranking \/ {"company", "period"} \subseteq Filled(slotFile)
==============================================================================

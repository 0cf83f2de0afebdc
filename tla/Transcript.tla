----------------------------- MODULE Transcript -----------------------------
(***************************************************************************)
(* What a conversation store promises those who write and read one         *)
(* conversation.  A reader gets all that is stored or, while the store     *)
(* cannot tell that the conversation is there, nothing, never a part of    *)
(* it.  A turn at work adds messages of its own behind what is stored, in  *)
(* the order in which it said them, those of others never and none twice;  *)
(* a save that gets that far makes all that is stored readable again.      *)
(* Nothing is taken out but by deletion, between turns and by one who can  *)
(* read the conversation, and that leaves the rest in order.               *)
(*                                                                         *)
(* ConversationStore (one file per message) implements this.               *)
(***************************************************************************)
EXTENDS Naturals, SequencesExt, Subsequences

CONSTANT Writers    \* turns; a message is a turn and a number

VARIABLES
    log,            \* what is stored
    read,           \* what a reader gets
    atWork          \* turns that have the conversation in memory

Init == log = <<>> /\ read = <<>> /\ atWork = {}

\* The messages that are new are w's, each numbered above all of w's before it.
Adds(w) ==
    /\ IsPrefix(log, log')
    /\ \A i \in (Len(log) + 1)..Len(log') :
          /\ log'[i][1] = w
          /\ \A j \in 1..(i - 1) : log'[j][1] = w => log'[j][2] < log'[i][2]

\* A turn saves; it may begin or end with that.
Write(w) ==
    /\ w \in atWork \cup atWork'
    /\ atWork' \in {atWork, atWork \cup {w}, atWork \ {w}}
    /\ Adds(w)
    /\ read' = log'

\* A save is cut off where the conversation is made known.
Break(w) ==
    /\ w \in atWork
    /\ read' = <<>>
    /\ UNCHANGED <<log, atWork>>

\* A turn loads the conversation, or is through with it.
Come(w) == atWork' = atWork \cup {w} /\ UNCHANGED <<log, read>>
Leave(w) == atWork' = atWork \ {w} /\ UNCHANGED <<log, read>>

\* Deletion, which may stop half-way.
Erase ==
    /\ atWork = {} /\ read = log
    /\ log' \in Subsequences(log)
    /\ read' = log'
    /\ UNCHANGED atWork

Next ==
    \/ Erase
    \/ \E w \in Writers : Write(w) \/ Break(w) \/ Come(w) \/ Leave(w)

Spec == Init /\ [][Next]_<<log, read, atWork>>
=============================================================================

-------------------------- MODULE ConversationStore --------------------------
(***************************************************************************)
(* FileSystemConversationStore: one directory per conversation, with a     *)
(* metadata.json and one file per message.  Conversations do not share     *)
(* files; this is one of them, its one user, and the turns that write it.  *)
(*                                                                         *)
(* None of the store's methods awaits anything, so a call runs undisturbed *)
(* by other turns; but any write in it may raise (a full disk) or be the   *)
(* process's last, and what had been written by then stays.  A file that   *)
(* is being written at that moment is torn: it exists and does not parse.  *)
(*                                                                         *)
(* Message files are named after the clock, in microseconds, and the       *)
(* message's index.  The clock is taken to go forward: names then sort in  *)
(* the order of writing, and `files' lists the files in that order.        *)
(***************************************************************************)
EXTENDS Naturals, Sequences, FiniteSets, SequencesExt, Subsequences

CONSTANTS
    Writers,       \* turns of the conversation, one in-memory copy each
    MaxSaid,       \* messages a turn may add, at most
    MaxTorn,       \* torn message files, at most
    Serial,        \* TRUE: a turn loads only when no other one is at work
    Torn           \* the content of a file that does not parse

ASSUME BoundAssumption == MaxSaid \in Nat \ {0} /\ MaxTorn \in Nat /\ Serial \in BOOLEAN

VARIABLES
    metadata,      \* metadata.json: "none", "whole" or "torn"
    files,         \* messages/*.json in name order: a message, or Torn
    stage,         \* stage[w]: "idle", "open", "saved" or "lost"
    held,          \* held[w]: conversation.messages of w
    disturbed      \* history: turns another one has written under, or that
                   \* were given less than what is stored

vars == <<metadata, files, stage, held, disturbed>>

\* The n-th message of a turn.
MessageIds == Writers \X (1..MaxSaid)

ASSUME TornAssumption == Torn \notin MessageIds

TypeOK ==
    /\ metadata \in {"none", "whole", "torn"}
    /\ files \in Seq(MessageIds \cup {Torn})
    /\ stage \in [Writers -> {"idle", "open", "saved", "lost"}]
    /\ held \in [Writers -> Seq(MessageIds)]
    /\ disturbed \subseteq Writers

Init ==
    /\ metadata = "none" /\ files = <<>>
    /\ stage = [w \in Writers |-> "idle"]
    /\ held = [w \in Writers |-> <<>>]
    /\ disturbed = {}

Open(w) == stage[w] = "open"

AnyOpen == \E w \in Writers : Open(w)

\* The write of one more message file may be cut off, and leave this.
TornTails ==
    {<<>>} \cup IF Cardinality({i \in DOMAIN files : files[i] = Torn}) < MaxTorn
                THEN {<<Torn>>} ELSE {}
------------------------------------------------------------------------------
\* Definitions named Slip... are the definition that follows them with one
\* plausible mistake; the properties are checked to notice it.

\* A file that does not parse is not skipped.
SlipReadableKeepsTorn(listing) == listing

\* _load_messages: every file in name order, without those that do not parse.
Readable(listing) == Keep(listing, {i \in DOMAIN listing : listing[i] # Torn})

\* Files are counted, not messages.
SlipMissingCountsFiles(w) == SubSeq(held[w], Len(files) + 1, Len(held[w]))

\* Everything is appended.
SlipMissingIsAll(w) == held[w]

\* The messages of w update_conversation takes for new: those beyond as many as
\* can be read.
Missing(w) == SubSeq(held[w], Len(Readable(files)) + 1, Len(held[w]))

\* w has written: whoever else is at work has an outdated copy.
Disturbs(w) == disturbed' = disturbed \cup {v \in Writers \ {w} : Open(v)}

\* get_conversation.  Without metadata, or with metadata that does not parse,
\* there is none, and the agent starts an empty one under the same id.
Get(w) ==
    /\ stage[w] = "idle"
    /\ Serial => ~AnyOpen
    /\ stage' = [stage EXCEPT ![w] = "open"]
    /\ held' = [held EXCEPT ![w] = IF metadata = "whole" THEN Readable(files) ELSE <<>>]
    /\ disturbed' = IF held'[w] = Readable(files) THEN disturbed ELSE disturbed \cup {w}
    /\ UNCHANGED <<metadata, files>>

\* add_message, in memory.
AddMessage(w) ==
    LET said == Cardinality({i \in DOMAIN held[w] : held[w][i][1] = w}) IN
    /\ Open(w)
    /\ said < MaxSaid
    /\ held' = [held EXCEPT ![w] = Append(@, <<w, said + 1>>)]
    /\ UNCHANGED <<metadata, files, stage, disturbed>>

\* update_conversation; the turn goes on, or this was its last save.
Update(w) ==
    /\ Open(w)
    /\ metadata' = "whole"
    /\ files' = files \o Missing(w)
    /\ stage' \in {stage, [stage EXCEPT ![w] = "saved"]}
    /\ Disturbs(w)
    /\ UNCHANGED held

\* update_conversation, cut off: in metadata.json, or with n messages written
\* and perhaps the next one torn.  The turn goes on (see Drop for when it does not).
UpdateCut(w) ==
    /\ Open(w)
    /\ \/ metadata' = "torn" /\ UNCHANGED files
       \/ /\ metadata' = "whole"
          /\ \E n \in 0..(Len(Missing(w)) - 1), tail \in TornTails :
                files' = files \o SubSeq(Missing(w), 1, n) \o tail
    /\ Disturbs(w)
    /\ UNCHANGED <<stage, held>>

\* create_conversation with a first message; it may be cut off at either file.
\* It does not look whether the id is in use: that it is not, is the contract
\* with its callers (the agent of this application makes do with Get and Update).
Create(w) ==
    LET first == <<w, 1>> IN
    /\ stage[w] = "idle" /\ metadata = "none" /\ ~AnyOpen
    /\ \/ /\ metadata' = "whole" /\ files' = Append(files, first)
          /\ held' = [held EXCEPT ![w] = <<first>>]
          /\ stage' = [stage EXCEPT ![w] = "open"]
       \/ /\ \/ metadata' = "torn" /\ UNCHANGED files
             \/ metadata' = "whole" /\ files' \in {files \o tail : tail \in TornTails}
          /\ stage' = [stage EXCEPT ![w] = "lost"]
          /\ UNCHANGED held
    /\ UNCHANGED disturbed

\* The turn fails, is cut off by its client, or dies with the process.
Drop(w) ==
    /\ Open(w)
    /\ stage' = [stage EXCEPT ![w] = "lost"]
    /\ held' = [held EXCEPT ![w] = <<>>]
    /\ UNCHANGED <<metadata, files, disturbed>>

\* The metadata goes first: cut off, message files are left that no one can see.
SlipDeleteMetadataFirst ==
    /\ metadata = "whole" /\ ~AnyOpen
    /\ metadata' = "none" /\ files' \in Subsequences(files)
    /\ stage' = [w \in Writers |-> IF stage[w] = "saved" THEN "lost" ELSE stage[w]]
    /\ UNCHANGED <<held, disturbed>>

\* delete_conversation, between turns: message files in any order, then the
\* metadata.  Cut off, some of the message files are left, and the metadata.
Delete ==
    /\ metadata = "whole" /\ ~AnyOpen
    /\ \/ metadata' = "none" /\ files' = <<>>
       \/ files' \in Subsequences(files) /\ UNCHANGED metadata
    /\ stage' = [w \in Writers |-> IF stage[w] = "saved" THEN "lost" ELSE stage[w]]
    /\ UNCHANGED <<held, disturbed>>

Next ==
    \/ Delete
    \/ \E w \in Writers : \/ Get(w) \/ Create(w) \/ AddMessage(w)
                          \/ Update(w) \/ UpdateCut(w) \/ Drop(w)

Spec == Init /\ [][Next]_vars
------------------------------------------------------------------------------
\* update_conversation:168: counting decides what is new, yet however saves are
\* cut off, turns overlap and metadata is lost, no message is ever stored twice.
StoredOnce ==
    \A i, j \in DOMAIN files : i # j /\ files[i] # Torn => files[i] # files[j]

\* A turn that loaded what there was, and that no other one has written under,
\* has exactly what it had, in order, in front of whatever came later once its last
\* save is through: its own saves that were cut off before do no harm.  Any load
\* that finds metadata.json whole returns that.
SavedIsReadBack ==
    \A w \in Writers : stage[w] = "saved" /\ w \notin disturbed
                          => IsPrefix(held[w], Readable(files))

\* What update_conversation:169 says ("Only append new messages (ones not
\* already saved)"): a turn that works alone has its messages saved by it.  Not
\* so behind a torn metadata.json: see the README.
NewMessagesAppended ==
    \A w \in Writers : stage[w] = "saved" => ToSet(held[w]) \subseteq ToSet(files)

\* The store keeps what the module Transcript promises: to those who load the
\* conversation (they get the readable files, if metadata.json is whole) and to the
\* turns that write it.
Abstract == INSTANCE Transcript
    WITH log    <- Readable(files),
         read   <- IF metadata = "whole" THEN Readable(files) ELSE <<>>,
         atWork <- {w \in Writers : Open(w)}

ImplementsTranscript == Abstract!Spec
==============================================================================

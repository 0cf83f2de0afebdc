---------------------------- MODULE AnswerLedger ----------------------------
(***************************************************************************)
(* What the answer cache promises, with no database in sight.              *)
(*                                                                         *)
(* A chat turn is answered with the report filed under its question, looked*)
(* up at most once, or computes its own and files it under that question,  *)
(* or computes one that is not kept.  A report that was looked up and could*)
(* not be handed over leaves its turn open, to compute an answer of its    *)
(* own; nothing else is ever undone.                                       *)
(*                                                                         *)
(* AnswerCache (the transactions of app/db_cache.py) implements this.      *)
(***************************************************************************)
CONSTANTS Turns,       \* chat turns, one user message each
          Questions,   \* normalised question texts, i.e. cache keys
          NoTurn       \* "nobody": not a turn

VARIABLES question,    \* question[t]: what turn t was asked
          ledger,      \* ledger[q]: the turn whose report is filed under q
          outcome,     \* outcome[t]: how turn t was resolved
          source       \* source[t]: the turn whose report t's lookup returned

ledgerVars == <<question, ledger, outcome, source>>

Init == /\ question \in [Turns -> Questions]
        /\ ledger = [q \in Questions |-> NoTurn]
        /\ outcome = [t \in Turns |-> "open"]
        /\ source = [t \in Turns |-> NoTurn]

\* t is answered with the report filed under its question.
Replay(t) ==
    /\ outcome[t] = "open"
    /\ source[t] = NoTurn
    /\ ledger[question[t]] # NoTurn
    /\ outcome' = [outcome EXCEPT ![t] = "replayed"]
    /\ source' = [source EXCEPT ![t] = ledger[question[t]]]
    /\ UNCHANGED <<question, ledger>>

\* The report could not be handed over.
Withdraw(t) ==
    /\ outcome[t] = "replayed"
    /\ outcome' = [outcome EXCEPT ![t] = "open"]
    /\ UNCHANGED <<question, ledger, source>>

\* t computed its own answer and files it under its question.
File(t) ==
    /\ outcome[t] = "open"
    /\ ledger' = [ledger EXCEPT ![question[t]] = t]
    /\ outcome' = [outcome EXCEPT ![t] = "filed"]
    /\ UNCHANGED <<question, source>>

\* Some open turns end with nothing filed: no rows, an error, a restart.
Drop(S) ==
    /\ \A t \in S : outcome[t] = "open"
    /\ outcome' = [t \in Turns |-> IF t \in S THEN "unfiled" ELSE outcome[t]]
    /\ UNCHANGED <<question, ledger, source>>

Next == \/ \E t \in Turns : Replay(t) \/ Withdraw(t) \/ File(t)
        \/ \E S \in SUBSET Turns : Drop(S)

Spec == Init /\ [][Next]_ledgerVars
=============================================================================

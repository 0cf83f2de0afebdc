----------------------------- MODULE MCChatTurn -----------------------------
(* ChatTurn on small instances: one message text names its company, one is a  *)
(* follow-up that names none, one a ranking that needs none, one a command.   *)
EXTENDS ChatTurn, TLC

CONSTANTS infy, sbin, ask, followUp, ranking, help

MCCompanyIn == [x \in Texts |-> IF x = ask THEN infy ELSE NoCompany]

\* A chart and a query in one response: over two rounds, either comes first.
BothCalls == {<<"visualize_data", "run_sql">>}

SqlCall == {<<"run_sql">>}

Symmetry == Permutations(Turns) \cup Permutations(Convs)
==============================================================================

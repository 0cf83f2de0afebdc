------------------------ MODULE MCConversationStore ------------------------
(* ConversationStore on small instances; turns are interchangeable.         *)
EXTENDS ConversationStore, TLC

Symmetry == Permutations(Writers)
=============================================================================

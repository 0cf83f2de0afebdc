---------------------------- MODULE MCAnswerCache ----------------------------
(* AnswerCache on small instances.  Turns are interchangeable, and so are    *)
(* questions: the safety runs reduce by both symmetries.                     *)
EXTENDS AnswerCache, TLC

Symmetry == Permutations(Turns) \cup Permutations(Questions)
==============================================================================

------------------------------- MODULE Patterns -------------------------------
(***************************************************************************)
(* Texts, and the ILIKE patterns that are made of them.  A text is a       *)
(* sequence of characters, already in lower case; <<>> is SQL's NULL or an *)
(* empty text.  Written without recursive operators, so that one can       *)
(* reason about them.                                                      *)
(***************************************************************************)
EXTENDS Integers, Sequences, SequencesExt

\* Python's s.replace(c, "\\" + c), of one character.
Escaped(letter, c) == IF letter = c THEN <<"\\", letter>> ELSE <<letter>>
Replaced(s, c) == FlattenSeq([i \in 1..Len(s) |-> Escaped(s[i], c)])

\* The backslash is escaped last.
SlipLikePattern(q) == <<"%">> \o Replaced(Replaced(Replaced(q, "%"), "_"), "\\") \o <<"%">>

LikePattern(q) == <<"%">> \o Replaced(Replaced(Replaced(q, "\\"), "%"), "_") \o <<"%">>

\* The places of t from which all of p matches that starts at its i-th
\* character, given the places from which what follows that character matches,
\* and what follows the next one.
Begins(t, p, i, after, beyond) ==
    CASE p[i] = "%"  -> {j \in 1..Len(t) + 1 : \E k \in after : j <= k}
      [] p[i] = "_"  -> {j \in 1..Len(t) : j + 1 \in after}
      [] p[i] = "\\" -> {j \in 1..Len(t) : j + 1 \in beyond /\ t[j] = p[i + 1]}
      [] OTHER       -> {j \in 1..Len(t) : j + 1 \in after /\ t[j] = p[i]}

\* PostgreSQL's t ILIKE p ESCAPE '\'.
Like(t, p) ==
    LET begins[i \in 1..Len(p) + 1] ==
            IF i = Len(p) + 1 THEN {Len(t) + 1}
            ELSE Begins(t, p, i, begins[i + 1], IF i < Len(p) THEN begins[i + 2] ELSE {})
    IN  1 \in begins[1]

\* What is searched for stands in t, letter by letter.
Within(t, q) == \E i \in 0..(Len(t) - Len(q)) : SubSeq(t, i + 1, i + Len(q)) = q
=============================================================================

---------------------------- MODULE Subsequences ----------------------------
(***************************************************************************)
(* The subsequences of a sequence, by the positions they keep.  Written    *)
(* without recursion, and without a fold that leaves its order open, so    *)
(* that one can reason about them.                                         *)
(***************************************************************************)
EXTENDS Naturals, Sequences, FiniteSets

\* How many of the positions are at or before n.
Rank(positions, n) == Cardinality({i \in positions : i <= n})

\* The n-th of the positions.
Nth(positions, n) == CHOOSE i \in positions : Rank(positions, i) = n

\* The positions themselves, in order.
InOrder(positions) == [n \in 1..Cardinality(positions) |-> Nth(positions, n)]

\* What is at these positions of s, in the order of s.
Keep(s, positions) == [n \in 1..Cardinality(positions) |-> s[Nth(positions, n)]]

Subsequences(s) == {Keep(s, positions) : positions \in SUBSET DOMAIN s}
=============================================================================

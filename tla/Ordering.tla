------------------------------ MODULE Ordering ------------------------------
(***************************************************************************)
(* Sorting and filtering, by rank: an element stands at the position that   *)
(* the number of elements before it gives it.                               *)
(***************************************************************************)
EXTENDS Naturals, FiniteSets

Rank(S, R, x) == Cardinality({y \in S : <<y, x>> \in R})

\* The elements of S in the order R, a set of pairs.
InOrder(S, R) ==
  [k \in 1..Cardinality(S) |-> CHOOSE x \in S : Rank(S, R, x) = k - 1]

Ascending(S) == {r \in S \X S : r[1] < r[2]}

\* The elements of a sequence at the given positions, in their order.
Taken(s, at) ==
  LET pos == InOrder(at, Ascending(at))
  IN  [k \in DOMAIN pos |-> s[pos[k]]]
=============================================================================

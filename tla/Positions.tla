------------------------------- MODULE Positions -------------------------------
(***************************************************************************)
(* Lists of which some places are left, in order, or that get others in    *)
(* between: jQuery's each, grep, remove and before.                        *)
(***************************************************************************)
EXTENDS Integers, Sequences, FiniteSets

\* The n-th of a set of integers, and what a sequence has at a set of places, in order.
Nth(S, n) == CHOOSE i \in S : Cardinality({j \in S : j < i}) = n - 1
ElementsAt(s, S) == [n \in 1..Cardinality(S) |-> s[Nth(S, n)]]

\* A sequence with others after the first k of it.
Inserted(s, k, others) == SubSeq(s, 1, k) \o others \o SubSeq(s, k + 1, Len(s))

=============================================================================

------------------------------ MODULE Ordering ------------------------------
(***************************************************************************)
(* A finite set put in order, as std::stable_sort and std::remove_if put   *)
(* what they leave: each element stands where as many come before it as    *)
(* the order, a set of pairs, says.                                        *)
(***************************************************************************)
EXTENDS Naturals, FiniteSets

Rank(S, R, i) == Cardinality({j \in S : <<j, i>> \in R})

InOrder(S, R) == [k \in 1..Cardinality(S) |-> CHOOSE i \in S : Rank(S, R, i) = k - 1]

Ascending(S) == InOrder(S, {p \in S \X S : p[1] < p[2]})
=============================================================================

------------------------------ MODULE Positions ------------------------------
(***************************************************************************)
(* What a sequence has at a set of positions, in the same order; and the   *)
(* first of some positions, a list being cut.                              *)
(***************************************************************************)
EXTENDS Integers, Sequences, FiniteSets

Picked(s, P) ==
  [n \in 1..Cardinality(P) |-> s[CHOOSE i \in P : Cardinality(P \cap 1..i) = n]]

\* The first n of P in an order given by its pairs <<earlier, later>>
FirstOf(n, P, order) == {p \in P : Cardinality({q \in P : <<q, p>> \in order}) < n}
==============================================================================

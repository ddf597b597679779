------------------------------- MODULE Amounts -------------------------------
(***************************************************************************)
(* Totals of amounts, by counting: f[x] units for each x of S.             *)
(***************************************************************************)
EXTENDS Integers, FiniteSets

Units(f, S) == UNION {{x} \X (1..f[x]) : x \in S}
Sum(f, S) == Cardinality(Units(f, S))
==============================================================================

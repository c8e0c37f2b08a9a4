-------------------------------- MODULE Sums --------------------------------
(***************************************************************************)
(* Sums of natural numbers over a set, as the number of their units: what  *)
(* the operations of a service hold of a counter.                          *)
(***************************************************************************)
EXTENDS Integers, FiniteSets

\* f[x] units of every x in S.
Units(f, S) == UNION {{x} \X (1..f[x]) : x \in S}
Sum(f, S) == Cardinality(Units(f, S))
=============================================================================

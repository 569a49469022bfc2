------------------------------- MODULE Totals -------------------------------
(***************************************************************************)
(* Adding up quantities without recursion.                                 *)
(***************************************************************************)
EXTENDS Naturals, FiniteSets

\* Units(f, T) has f[t] distinct elements for each t in T.
Units(f, T) == UNION {{t} \X (1 .. f[t]) : t \in T}

\* The sum of f over T.
Total(f, T) == Cardinality(Units(f, T))

=============================================================================

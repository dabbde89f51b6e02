------------------------------ MODULE Queries -------------------------------
(***************************************************************************)
(* What PostgreSQL makes of a set of rows where a query orders them.       *)
(***************************************************************************)
EXTENDS Naturals, FiniteSets

\* ORDER BY: every row after those that come before it; the relation is a
\* strict total order of the rows.
OrderBy(S, before) ==
  [i \in 1 .. Cardinality(S) |->
     CHOOSE x \in S : Cardinality({y \in S : <<y, x>> \in before}) = i - 1]

=============================================================================

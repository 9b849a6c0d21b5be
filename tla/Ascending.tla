------------------------------- MODULE Ascending -------------------------------
(***************************************************************************)
(* A scan from the left stands at the places of a set, one after another.  *)
(***************************************************************************)
EXTENDS Integers, FiniteSets

\* The k-th smallest member of a finite set of numbers.
Nth(S, k) == CHOOSE i \in S : Cardinality({ j \in S : j <= i }) = k

\* The members in ascending order.
Ascending(S) == [k \in 1 .. Cardinality(S) |-> Nth(S, k)]
=============================================================================

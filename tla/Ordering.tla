------------------------------ MODULE Ordering ------------------------------
(* A finite set as a sequence, in an order that tells any two of its members apart. *)
EXTENDS Naturals, FiniteSets

\* The sequences that have every member of S at one place.
Enumerations(S) ==
  {s \in [1 .. Cardinality(S) -> S] : \A m, n \in 1 .. Cardinality(S) : s[m] = s[n] => m = n}

\* order by: before[x] are the members that come before x.
SortedBy(S, before) == [n \in 1 .. Cardinality(S) |-> CHOOSE x \in S : Cardinality(before[x]) = n - 1]
=============================================================================

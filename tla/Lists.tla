-------------------------------- MODULE Lists --------------------------------
(***************************************************************************)
(* Lists taken from lists: the first items, the items at some places, and  *)
(* the order of places that gives; and sums.  They are stated by counting, *)
(* so that they can be reasoned about without recursion.                   *)
(***************************************************************************)
EXTENDS Naturals, Sequences, FiniteSets

\* s[:n]
Upto(s, n) == SubSeq(s, 1, IF n < Len(s) THEN n ELSE Len(s))

\* The k-th of the places P, where R has the pairs of an earlier and a later one.
Nth(P, R, k) == CHOOSE i \in P : Cardinality({j \in P : <<j, i>> \in R}) = k - 1

\* A list filtered by a condition: its items at the places P, in their order.
Rising(P) == {p \in P \X P : p[1] < p[2]}
At(s, P) == LET R == Rising(P) IN [k \in 1..Cardinality(P) |-> s[Nth(P, R, k)]]

\* The numbers of a set, from the least to the greatest.
Sorted(S) == LET R == Rising(S) IN [k \in 1..Cardinality(S) |-> Nth(S, R, k)]

\* The sum of the numbers f has, by counting.
Total(f) == Cardinality(UNION {{x} \X (1..f[x]) : x \in DOMAIN f})
=============================================================================

-------------------------------- MODULE Picks --------------------------------
(***************************************************************************)
(* What filter and retain leave of a list, what its numbers sum up to, and *)
(* lists one after another, in forms that a prover sees through, as it     *)
(* does not through SelectSeq and the folds: the elements at some places   *)
(* in order, a table of the sums so far, and where each list ends.         *)
(***************************************************************************)
EXTENDS Integers, Sequences, FiniteSets

\* The places I in ascending order: before the k-th stand k - 1.
InOrder(I) ==
  [k \in 1..Cardinality(I) |-> CHOOSE i \in I : Cardinality({j \in I : j < i}) = k - 1]

\* The elements of s at the places I.
Picked(s, I) == LET at == InOrder(I) IN [k \in 1..Cardinality(I) |-> s[at[k]]]

\* The sum of a sequence of numbers.
Total(s) ==
  LET upTo[k \in 0..Len(s)] == IF k = 0 THEN 0 ELSE upTo[k - 1] + s[k]
  IN upTo[Len(s)]

\* Where the i-th of the lists ss ends when they stand one after another.
EndOf(ss, i) == Total([k \in 1..i |-> Len(ss[k])])

\* The lists ss one after another.
Flat(ss) ==
  [k \in 1..EndOf(ss, Len(ss)) |->
     LET i == CHOOSE i \in DOMAIN ss : EndOf(ss, i - 1) < k /\ k <= EndOf(ss, i)
     IN ss[i][k - EndOf(ss, i - 1)]]
=============================================================================

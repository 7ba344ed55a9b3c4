------------------------------- MODULE Lists -------------------------------
(***************************************************************************)
(* Sorting, and the elements of a list that are in a set, in their order,  *)
(* by counting what comes before: without recursion, so that theorems      *)
(* about lists need no induction.                                          *)
(***************************************************************************)
EXTENDS Naturals, Sequences, FiniteSets

\* The elements of a finite set one after the other. less: the pairs of them of
\* which the first comes before the second.
InOrder(S, less) ==
  [k \in 1 .. Cardinality(S) |->
     CHOOSE i \in S : Cardinality({j \in S : j = i \/ <<j, i>> \in less}) = k]

\* What SelectSeq gives with membership of S.
Among(seq, S) ==
  LET kept   == {i \in DOMAIN seq : seq[i] \in S}
      places == InOrder(kept, {x \in kept \X kept : x[1] < x[2]})
  IN  [k \in DOMAIN places |-> seq[places[k]]]
=============================================================================

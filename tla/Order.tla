---------------------------------- MODULE Order ----------------------------------
(***************************************************************************)
(* Lists in an order: what a sort leaves, whatever the algorithm, and the  *)
(* order of names.  An order is a set of pairs, the first before the       *)
(* second, and leaves no two elements of the set undecided.                *)
(***************************************************************************)
EXTENDS Naturals, Sequences, FiniteSets, SequencesExt

\* The elements of a finite set, each after those that come before it.
Sorted(S, order) ==
  [i \in 1 .. Cardinality(S) |->
     CHOOSE x \in S : Cardinality({y \in S : <<y, x>> \in order}) = i - 1]

\* Names are compared letter by letter, and a beginning comes before the whole.
NameBefore(a, b) ==
  \/ IsStrictPrefix(a, b)
  \/ \E i \in DOMAIN a \cap DOMAIN b : a[i] < b[i] /\ SubSeq(a, 1, i - 1) = SubSeq(b, 1, i - 1)
==================================================================================

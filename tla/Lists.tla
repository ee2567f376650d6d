-------------------------------- MODULE Lists --------------------------------
(***************************************************************************)
(* A list by the positions of its elements: what a loop or a comprehension *)
(* of the program keeps of it.  Positions and not a test on the elements,  *)
(* so that proofs can be about it.                                         *)
(***************************************************************************)
EXTENDS Naturals, Sequences, FiniteSets

\* The numbers of a set in their order: the k-th has k up to it.
InOrder(S) == [k \in 1..Cardinality(S) |-> CHOOSE x \in S : Cardinality({y \in S : y <= x}) = k]

Picked(list, positions) == [k \in 1..Cardinality(positions) |-> list[InOrder(positions)[k]]]
=============================================================================

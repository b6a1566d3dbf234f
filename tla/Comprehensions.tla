---------------------------- MODULE Comprehensions ----------------------------
(***************************************************************************)
(* A Python comprehension with a condition: what is at the positions that  *)
(* are kept, in their order.                                               *)
(***************************************************************************)
EXTENDS Naturals, FiniteSets

\* The n-th of the positions that are kept.
Nth(kept, n) == CHOOSE i \in kept : Cardinality({j \in kept : j <= i}) = n

Only(seq, kept) == [n \in 1..Cardinality(kept) |-> seq[Nth(kept, n)]]
=============================================================================

----------------------------- MODULE MCCounting ------------------------------
(* Small instances of Counting. *)
EXTENDS Counting, TLC

CONSTANTS a1, a2, i1, i2, r1, r2

TwoEach == [i \in Item |-> 2]

MCSymmetry == Permutations(Request) \cup Permutations(Item) \cup Permutations(Act)

=============================================================================

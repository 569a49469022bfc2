----------------------------- MODULE MCReceiving -----------------------------
(* Small instances of Receiving. *)
EXTENDS Receiving, TLC

CONSTANTS o1, o2, l1, l2, s1, s2, r1, r2, sku

OneOrdered == [l \in Line |-> IF l = l1 THEN 1 ELSE 0]
OneSku   == [l \in Line |-> sku]
AllEmpty == [s \in Slot |-> Empty]
OneUnit  == [s \in Slot |-> IF s = s1 THEN [sku |-> sku, quantity |-> 1] ELSE Empty]
NotDone  == {NoLine}

\* Cells are alike where none is filled at the start.
MCSymmetry == Permutations(Request)
AllAlike   == MCSymmetry \cup Permutations(Slot)

=============================================================================

---------------------------- MODULE MCOutboundTx ----------------------------
(* Small instances of OutboundTx. *)
EXTENDS OutboundTx, TLC

CONSTANTS p1, p2, l1, w1, w2, w3

OneLine == [k \in Pick |-> l1]

MCSymmetry == Permutations(Worker) \cup Permutations(Pick)

=============================================================================

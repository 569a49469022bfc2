------------------------- MODULE MCOperatorTerminal -------------------------
(* A small instance of OperatorTerminal. *)
EXTENDS OperatorTerminal

CONSTANTS f1, f2, c1

=============================================================================

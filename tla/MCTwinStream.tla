---------------------------- MODULE MCTwinStream ----------------------------
(* A small instance of TwinStream. *)
EXTENDS TwinStream

=============================================================================

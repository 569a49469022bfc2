---------------------------- MODULE MCSimStream ----------------------------
(* A small instance of SimStream. *)
EXTENDS SimStream

=============================================================================

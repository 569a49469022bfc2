------------------------------- MODULE MCInbox -------------------------------
(* A small instance of Inbox: a task that is created and changed, telemetry, *)
(* and another change of the task.                                           *)
EXTENDS Inbox, TLC

CONSTANTS t, w1, w2

MCTaskOf == (1 :> t) @@ (2 :> t) @@ (3 :> NoTask) @@ (4 :> t)

=============================================================================

-------------------------- MODULE MCItemReservation --------------------------
(* Small instances of ItemReservation: two items, three tasks. *)
EXTENDS ItemReservation, TLC

CONSTANTS i1, i2, t1, t2, t3

\* One item with room for two small reservations, one with none to spare.
MCShelf == (i1 :> 3) @@ (i2 :> 1)
MCFound == EmptyLedger(MCShelf)

=============================================================================

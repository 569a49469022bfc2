--------------------------- MODULE MCReservationTx ---------------------------
(* A small instance of ReservationTx. *)
EXTENDS ReservationTx, TLC

CONSTANTS i1, i2, i3, i4, r1, r2, r3

\* i1 has the tasks 1 and 2, i2 has 3 and 4, i3 has 5; the orders that are planned take
\* i3 and i4, in opposite orders, and there is not enough for both.
MCItemOf     == <<i1, i1, i2, i2, i3, i3, i4, i4, i3>>
MCQuantityOf == <<2, 1, 2, 1, 1, 1, 1, 1, 1>>
MCShelf      == (i1 :> 4) @@ (i2 :> 4) @@ (i3 :> 2) @@ (i4 :> 1)

Call(handlers, tasks) == {[handler |-> h, tasks |-> <<t>>] : h \in handlers, t \in tasks}

\* Tasks of i1 are patched, those of i2 scanned too, that of i3 also reported missing.
MCCalls ==
    Call({"complete", "cancel"}, {1, 2})
        \cup Call({"confirm", "complete", "cancel"}, {3, 4})
        \cup Call({"confirm", "no_stock", "cancel"}, {5})
        \cup {[handler |-> "plan", tasks |-> <<6, 7>>], [handler |-> "plan", tasks |-> <<8, 9>>]}

MCSymmetry == Permutations(Request)

=============================================================================

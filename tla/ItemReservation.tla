--------------------------- MODULE ItemReservation ---------------------------
(***************************************************************************)
(* backend/app/services/item_reservation.py as a component: any task may   *)
(* ask for any call, in any order and any number of times; each call runs  *)
(* alone, as its row lock intends.  Two other writers share the item row:  *)
(* PATCH /items/{id} (quantity) and the posting of an inventory count.     *)
(* Calls that end in an HTTP error or find nothing to do change nothing    *)
(* and are stuttering steps.                                               *)
(***************************************************************************)
EXTENDS Stock

CONSTANTS
    Found,      \* the ledger at the start
    Requested,  \* quantities callers ask to reserve or confirm
    Edited,     \* quantities PATCH /items/{id} may write (ge=1)
    CountedFacts     \* quantities a posted count line may write

ASSUME FoundAssumption     == LedgerLaws(Found, Shelf)
ASSUME RequestedAssumption == Requested \subseteq Nat \ {0}
ASSUME EditedAssumption    == Edited \subseteq Nat \ {0}
ASSUME CountedFactsAssumption   == CountedFacts \subseteq Nat

ServiceInit == stock = Found

\* reserve_for_task
ReserveForTask(t, i, n) ==
    /\ CanReserve(stock, t, i, n)
    /\ stock' = Reserve(stock, t, i, n)

\* consume_for_task with the confirmed quantity (confirm_pick)
ConsumeForTask(t, n) ==
    /\ stock.state[t] = "active"
    /\ stock' = Consume(stock, t, n)

\* release_for_task (confirm_pick with outcome no_stock)
ReleaseForTask(t) ==
    /\ stock.state[t] = "active"
    /\ stock' = Release(stock, t)

\* apply_task_status_to_stock (PATCH /warehouse-tasks/{id})
ApplyTaskStatus(t, status) ==
    /\ stock.state[t] = "active"
    /\ stock' = ApplyStatus(stock, t, status)

\* update_item writes the quantity of the request over the stored one.
EditQuantity(i, n) ==
    stock' = [stock EXCEPT !.quantity[i] = n]

\* post_act: the counted quantity replaces the stored one and the reserved
\* quantity is cut down to it; the reservation rows are not looked at.
PostCountLine(i, n) ==
    stock' = [stock EXCEPT !.quantity[i] = n,
                           !.reserved[i] = AtMost(@, n)]

\* The reservation service alone.
ServiceNext ==
    \E t \in Task :
        \/ \E i \in Item, n \in Requested : ReserveForTask(t, i, n)
        \/ \E n \in Requested : ConsumeForTask(t, n)
        \/ ReleaseForTask(t)
        \/ \E status \in {"in_progress"} \cup ConsumingStatus \cup ReleasingStatus :
               ApplyTaskStatus(t, status)

\* The other writers of the item row.
OtherWriters ==
    \/ \E i \in Item, n \in Edited : EditQuantity(i, n)
    \/ \E i \in Item, n \in CountedFacts : PostCountLine(i, n)

WritersNext == ServiceNext \/ OtherWriters

ServiceSpec == ServiceInit /\ [][ServiceNext]_stock

WritersSpec == ServiceInit /\ [][WritersNext]_stock

-----------------------------------------------------------------------------
(* Properties *)

\* Type invariant.
StockTypeOK == stock \in Ledger /\ RowsIn(stock)

\* While only the reservation service writes, reserved_quantity is exactly
\* what the active reservation rows hold.
ReservedIsHeld == ReservedIsHeldIn(stock)

\* While only the reservation service writes, no unit is promised twice: the
\* active reservations of an item never add up to more than is on the shelf.
HeldWithinStock == \A i \in Item : Held(stock, i) <= stock.quantity[i]

\* While only the reservation service writes, the shelf loses exactly what
\* confirmed picks wrote off: no clipping at zero ever hides a shortage, no
\* reservation is written off twice.
Conserved == ConservedIn(stock, Shelf)

\* Whoever else writes the row, the counter never claims more than the rows
\* hold: stock is never withheld on behalf of nobody.
ReservedAtMostHeld == \A i \in Item : stock.reserved[i] <= Held(stock, i)

\* A written-off reservation is final: no retry, status change or late
\* release touches it again.
ConsumedIsFinal ==
    [][\A t \in Task : stock.state[t] = "consumed" =>
          /\ stock'.state[t] = "consumed"
          /\ stock'.amount[t] = stock.amount[t]
          /\ stock'.source[t] = stock.source[t]]_stock

=============================================================================

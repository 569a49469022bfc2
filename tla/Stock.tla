------------------------------- MODULE Stock -------------------------------
(***************************************************************************)
(* The stock ledger: Item.quantity, Item.reserved_quantity and the         *)
(* item_reservation rows, with the operations of                           *)
(* backend/app/services/item_reservation.py as functions from ledger to    *)
(* ledger.  Handlers compose them inside one database transaction.         *)
(*                                                                         *)
(* A ledger s is a record                                                  *)
(*   quantity : what is on the shelf, per item                             *)
(*   reserved : Item.reserved_quantity, per item                           *)
(*   state    : status of the one reservation row a task may have          *)
(*              (warehouse_task_id is unique), "none" before the row exists*)
(*   source   : item_id of that row                                        *)
(*   amount   : quantity of that row                                       *)
(***************************************************************************)
EXTENDS Integers, FiniteSets, Totals

CONSTANTS
    Item,       \* item rows
    Task,       \* warehouse tasks of type "pick"
    NoItem,     \* source of a task that has no reservation row
    Shelf       \* initial Item.quantity

ASSUME ItemAssumption == IsFiniteSet(Item) /\ NoItem \notin Item
ASSUME TaskAssumption == IsFiniteSet(Task)
ASSUME ShelfAssumption == Shelf \in [Item -> Nat]

VARIABLE stock      \* the ledger as it is committed

ReservationState == {"none", "active", "consumed", "released"}

Ledger ==
    [quantity : [Item -> Nat],
     reserved : [Item -> Nat],
     state    : [Task -> ReservationState],
     source   : [Task -> Item \cup {NoItem}],
     amount   : [Task -> Nat]]

\* A ledger with the given shelf quantities and no reservation.
EmptyLedger(shelf) ==
    [quantity |-> shelf,
     reserved |-> [i \in Item |-> 0],
     state    |-> [t \in Task |-> "none"],
     source   |-> [t \in Task |-> NoItem],
     amount   |-> [t \in Task |-> 0]]

Holders(s, i) == {t \in Task : s.state[t] = "active" /\ s.source[t] = i}

Takers(s, i) == {t \in Task : s.state[t] = "consumed" /\ s.source[t] = i}

\* Units of item i that active reservations hold.
Held(s, i) == Total(s.amount, Holders(s, i))

\* Units of item i that confirmed picks have written off.
WrittenOff(s, i) == Total(s.amount, Takers(s, i))

(***************************************************************************)
(* item_reservation.py                                                     *)
(***************************************************************************)
AtLeastZero(n) == IF n < 0 THEN 0 ELSE n

AtMost(n, m) == IF n < m THEN n ELSE m

\* Mutant: what is promised already counts as available.
AvailableAll(s, i) == s.quantity[i]

\* item_available
Available(s, i) == AtLeastZero(s.quantity[i] - s.reserved[i])

\* reserve_for_task raises no HTTPException: the task already has an active or
\* consumed row, or the item has enough available stock.
CanReserve(s, t, i, n) ==
    \/ s.state[t] \in {"active", "consumed"}
    \/ n > 0 /\ n <= Available(s, i)

\* Mutant: only an active row counts as reserved already.
ReserveConsumedAgain(s, t, i, n) ==
    IF s.state[t] = "active"
    THEN s
    ELSE [s EXCEPT !.reserved[i] = @ + n,
                   !.state[t]    = "active",
                   !.source[t]   = i,
                   !.amount[t]   = n]

\* reserve_for_task: a new row, or the released row of the task used again.
\* An active or consumed row is returned as it is.
Reserve(s, t, i, n) ==
    IF s.state[t] \in {"active", "consumed"}
    THEN s
    ELSE [quantity |-> s.quantity,
          reserved |-> [s.reserved EXCEPT ![i] = @ + n],
          state    |-> [s.state EXCEPT ![t] = "active"],
          source   |-> [s.source EXCEPT ![t] = i],
          amount   |-> [s.amount EXCEPT ![t] = n]]

\* A planning loop reserves take[t] of item from[t] for each new task t; a
\* candidate with nothing to take gets no task.
NewHolders(take, from, i) == {t \in DOMAIN take : take[t] > 0 /\ from[t] = i}

\* Each reserve_for_task of the loop finds enough available stock.
CanReserveAll(s, from, take) ==
    \A i \in Item : Total(take, NewHolders(take, from, i)) <= Available(s, i)

\* The effect of the whole loop.
ReserveAll(s, from, take) ==
    LET new == {t \in DOMAIN take : take[t] > 0}
    IN  [quantity |-> s.quantity,
         reserved |-> [i \in Item |-> s.reserved[i] + Total(take, NewHolders(take, from, i))],
         state    |-> [t \in Task |-> IF t \in new THEN "active" ELSE s.state[t]],
         source   |-> [t \in Task |-> IF t \in new THEN from[t] ELSE s.source[t]],
         amount   |-> [t \in Task |-> IF t \in new THEN take[t] ELSE s.amount[t]]]

\* Mutant: the counter is left alone.
ConsumeHolding(s, t, n) ==
    IF s.state[t] # "active"
    THEN s
    ELSE [s EXCEPT !.quantity[s.source[t]] = AtLeastZero(@ - AtMost(n, s.amount[t])),
                   !.state[t]              = "consumed",
                   !.amount[t]             = AtMost(n, @)]

\* consume_for_task: the whole reservation is lifted, the confirmed part of
\* it is written off.  Without an active row nothing happens.
Consume(s, t, n) ==
    IF s.state[t] # "active"
    THEN s
    ELSE LET i     == s.source[t]
             taken == AtMost(n, s.amount[t])
         IN  [quantity |-> [s.quantity EXCEPT ![i] = AtLeastZero(@ - taken)],
              reserved |-> [s.reserved EXCEPT ![i] = AtLeastZero(@ - s.amount[t])],
              state    |-> [s.state EXCEPT ![t] = "consumed"],
              source   |-> s.source,
              amount   |-> [s.amount EXCEPT ![t] = taken]]

\* consume_for_task without a quantity: all of it.
ConsumeAll(s, t) == Consume(s, t, s.amount[t])

\* release_for_task
Release(s, t) ==
    IF s.state[t] # "active"
    THEN s
    ELSE [quantity |-> s.quantity,
          reserved |-> [s.reserved EXCEPT ![s.source[t]] = AtLeastZero(@ - s.amount[t])],
          state    |-> [s.state EXCEPT ![t] = "released"],
          source   |-> s.source,
          amount   |-> s.amount]

ConsumingStatus  == {"completed", "done"}
ReleasingStatus == {"cancelled", "canceled", "failed", "error", "blocked"}

\* Mutant: only completion touches the stock.
ApplyCompletion(s, t, status) ==
    IF status \in ConsumingStatus THEN ConsumeAll(s, t) ELSE s

\* apply_task_status_to_stock
ApplyStatus(s, t, status) ==
    CASE status \in ConsumingStatus -> ConsumeAll(s, t)
      [] status \in ReleasingStatus -> Release(s, t)
      [] OTHER                      -> s

(***************************************************************************)
(* The ledger laws.                                                        *)
(***************************************************************************)

\* reserved_quantity is the sum of the active reservations of the item
\* (backend/app/models/inventory.py:92).
ReservedIsHeldIn(s) == \A i \in Item : s.reserved[i] = Held(s, i)

\* available = quantity - reserved_quantity >= 0
\* (backend/app/services/item_reservation.py:4).
ReservedWithinStockIn(s) == \A i \in Item : s.reserved[i] <= s.quantity[i]

\* Nothing leaves the shelf but what a confirmed pick wrote off.
ConservedIn(s, shelf) ==
    \A i \in Item : s.quantity[i] + WrittenOff(s, i) = shelf[i]

\* A row that was created names an item and a row never created holds nothing.
RowsIn(s) ==
    \A t \in Task : IF s.state[t] = "none" THEN s.amount[t] = 0
                                           ELSE s.source[t] \in Item

\* All of them, for a ledger that started with the given shelf.
LedgerLaws(s, shelf) ==
    /\ s \in Ledger
    /\ RowsIn(s)
    /\ ReservedIsHeldIn(s)
    /\ ReservedWithinStockIn(s)
    /\ ConservedIn(s, shelf)

=============================================================================

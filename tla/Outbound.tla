------------------------------ MODULE Outbound ------------------------------
(***************************************************************************)
(* The life of outbound orders: planning of pick tasks, scan-confirmed     *)
(* picking with incidents, packing, shipping, and the stock they hold.     *)
(* Models backend/app/services/outbound_planning.py, outbound_ops.py,      *)
(* outbound_fulfillment.py, the planning of pick waves in outbound_wave.py *)
(* and the routes outbound_orders.py and warehouse_tasks.py.               *)
(*                                                                         *)
(* A handler is one database transaction and one action; requests that end *)
(* in an HTTP error roll back and are stuttering steps.  So this module is *)
(* about handlers that run ONE AT A TIME.  The code does not lock the rows *)
(* of an order, and handlers of one order that overlap do more than this   *)
(* module says: module OutboundTx has them statement by statement.         *)
(*                                                                         *)
(* Items, lines and orders are natural numbers: items in the order in      *)
(* which planning tries them (FEFO, then pick face, then address), lines   *)
(* in the order of the document, orders in the order of a wave.            *)
(* planned_bases gives a line of an order at most one round of planning,   *)
(* so a pick task is named by the order, the line and the item it was      *)
(* planned for.                                                            *)
(***************************************************************************)
EXTENDS Stock

CONSTANTS
    Order, Line,
    SkuOf,              \* the SKU of an item
    Fits,               \* the items a line may be picked from (its SKU or item_id)
    Needs,              \* requested quantity per line, 0 for no such line
    PatchedNeeds,       \* the same, as PATCH /outbound-orders/{id} may rewrite it
    PatchedOrderStatus, \* statuses the body of PATCH /outbound-orders/{id} may carry
    CreatedStatus,      \* the same, of POST /outbound-orders (open by default)
    PatchedTaskStatus,  \* statuses PATCH /warehouse-tasks/{id} may write
    OtherQuantity,      \* confirmed quantities other than the planned one
    Perishable,         \* items with an expiry date
    Moved,              \* items whose status users also change by hand
    Waves,              \* sets of orders planned together as a wave
    MaxNeed,            \* bound: no line asks for more
    MaxPicked           \* bound: a line counts at most this many picked units

ASSUME NumbersAssumption == Order \subseteq Nat /\ Line \subseteq Nat /\ Item \subseteq Nat
ASSUME TasksAssumption   == Task = Order \X Line \X Item
ASSUME NeedsAssumption   == MaxNeed \in Nat /\ Needs \cup PatchedNeeds \subseteq [Line -> 0 .. MaxNeed]
ASSUME SkuAssumption     ==
    Fits \in [Line -> SUBSET Item] /\ \A l \in Line : \A i, j \in Fits[l] : SkuOf[i] = SkuOf[j]
ASSUME StatusAssumption  ==
    /\ "none" \notin PatchedTaskStatus
    /\ {"absent", "deleted"} \cap (PatchedOrderStatus \cup CreatedStatus) = {}
ASSUME ItemSetsAssumption == Perishable \cup Moved \subseteq Item
ASSUME QuantityAssumption == OtherQuantity \subseteq Nat \ {0} /\ MaxPicked \in Nat

VARIABLES           \* and stock, the ledger of module Stock
    item,       \* the rest of the item row: status, slot address, shelf life
    task,       \* warehouse_task rows of type "pick"
    order       \* outbound_order rows

vars == <<stock, item, task, order>>

DoneTaskStatus == {"completed", "cancelled"}              \* DONE_TASK_STATUSES
PlanStatus     == {"open", "picking"}                     \* PLAN_STATUSES; open stands for confirmed too
GoneStatus     == {"absent", "deleted"}                   \* no such row
FinalStatus    == {"shipped", "closed", "cancelled"}      \* TERMINAL_STATUSES
NoMorePicking  == FinalStatus \cup {"canceled"}            \* refused by confirm_pick and pack_order

OrderStatus == {"open", "picking", "picking_complete", "packed", "shipped"}
                   \cup GoneStatus \cup PatchedOrderStatus \cup CreatedStatus
TaskStatus  == {"none", "pending", "blocked", "completed"} \cup PatchedTaskStatus

ItemRow ==
    [status  : {"warehouse", "shipment", "shipped"},
     slotted : BOOLEAN,                     \* it has a slot address
     expired : BOOLEAN]                     \* its date, or its lot's, is past

TaskRow ==
    [status    : TaskStatus,                \* "none": no such row
     item      : Item,                      \* payload.item_id
     quantity  : Nat,                       \* payload.quantity
     confirmed : Nat,                       \* payload.confirmed_quantity, 0: not confirmed
     incident  : {"none", "open", "resolved"},
     via       : {"outbound_planning", "outbound_wave"}]

OrderRow ==
    [status    : OrderStatus,
     need      : [Line -> Nat],             \* quantity per line
     picked    : [Line -> Nat],             \* picked counter per line
     shortage  : SUBSET Line,               \* fulfillment.shortage_lines
     incidents : SUBSET Task,               \* tasks with an open one in fulfillment.incidents
     packedAt  : BOOLEAN]                   \* fulfillment.packed_at is set

NoTask(i) ==
    [status |-> "none", item |-> i, quantity |-> 0, confirmed |-> 0,
     incident |-> "none", via |-> "outbound_planning"]

NoOrder ==
    [status |-> "absent", need |-> [l \in Line |-> 0], picked |-> [l \in Line |-> 0],
     shortage |-> {}, incidents |-> {}, packedAt |-> FALSE]

Init ==
    /\ stock = EmptyLedger(Shelf)
    /\ item  = [i \in Item |-> [status |-> "warehouse", slotted |-> TRUE, expired |-> FALSE]]
    /\ task  = [t \in Task |-> NoTask(t[3])]
    /\ order = [o \in Order |-> NoOrder]

-----------------------------------------------------------------------------
(* Helpers of the services.  ord and tsk are order and task in the middle  *)
(* of a handler.                                                           *)

\* related_tasks of type "pick"
Picks(tsk, o) == {t \in Task : t[1] = o /\ tsk[t].status # "none"}

LinePicks(tsk, o, l) == {t \in Picks(tsk, o) : t[2] = l}

\* Mutants: the status of the tasks is written to the order; a shipped order is
\* synchronised too.
SyncTaskStatus(ord, tsk, o) ==
    IF /\ ord[o].status \notin GoneStatus \cup FinalStatus \cup {"packed"}
       /\ Picks(tsk, o) # {}
       /\ \A t \in Picks(tsk, o) : tsk[t].status \in DoneTaskStatus
    THEN [ord EXCEPT ![o].status = "completed"]
    ELSE ord

SyncShipped(ord, tsk, o) ==
    IF /\ ord[o].status \notin GoneStatus
       /\ Picks(tsk, o) # {}
       /\ \A t \in Picks(tsk, o) : tsk[t].status \in DoneTaskStatus
    THEN [ord EXCEPT ![o].status = "picking_complete"]
    ELSE ord

\* sync_outbound_status_from_tasks, for the order found by find_order_for_task
Sync(ord, tsk, o) ==
    IF /\ ord[o].status \notin GoneStatus \cup FinalStatus \cup {"packed"}
       /\ Picks(tsk, o) # {}
       /\ \A t \in Picks(tsk, o) : tsk[t].status \in DoneTaskStatus
    THEN [ord EXCEPT ![o].status = "picking_complete"]
    ELSE ord

\* What lines_pick_complete adds up for a line over the given tasks.
ConfirmedOn(tsk, T, l) ==
    Total([t \in Task |-> tsk[t].confirmed],
          {t \in T : t[2] = l /\ tsk[t].status = "completed"})

\* lines_pick_complete returns an empty list.
LinesComplete(o, T) ==
    \A l \in Line : ConfirmedOn(task, T, l) >= order[o].need[l]

-----------------------------------------------------------------------------
(* plan_outbound_picks                                                     *)

\* The line has a quantity and no pick task yet (_planned_line_keys counts
\* tasks of every status).
ToPlan(ord, o, l) ==
    /\ ord[o].status \in PlanStatus
    /\ ord[o].need[l] > 0
    /\ LinePicks(task, o, l) = {}

\* _candidate_items
Candidate(l, i) ==
    /\ i \in Fits[l]
    /\ item[i].status = "warehouse"
    /\ item[i].slotted
    /\ ~item[i].expired
    /\ Available(stock, i) > 0

\* The (order, line, item) triples the loops go through.
Trials(ord, O) == {t \in Task : t[1] \in O /\ ToPlan(ord, t[1], t[2]) /\ Candidate(t[2], t[3])}

SameLine(t, u) == t[1] = u[1] /\ t[2] = u[2]

EarlierLine(u, t) == u[1] < t[1] \/ (u[1] = t[1] /\ u[2] < t[2])

\* Each candidate gives what it still has, or what the line still lacks.
Greedy(ord, take) ==
    \A t \in DOMAIN take :
        take[t] = AtMost(
            Available(stock, t[3])
                - Total(take, {u \in DOMAIN take : u[3] = t[3] /\ EarlierLine(u, t)}),
            ord[t[1]].need[t[2]]
                - Total(take, {u \in DOMAIN take : SameLine(u, t) /\ u[3] < t[3]}))

Planned(take, o, l) == Total(take, {t \in DOMAIN take : t[1] = o /\ t[2] = l})

WithTasks(take) ==
    [t \in Task |->
        IF t \in DOMAIN take /\ take[t] > 0
        THEN [NoTask(t[3]) EXCEPT !.status = "pending", !.quantity = take[t]]
        ELSE task[t]]

\* The order row after planning: the shortage list is that of the lines planned
\* just now, and an open order that got a task is being picked.
AfterPlanning(ord, O, take) ==
    [o \in Order |->
        IF o \in O /\ ord[o].status \in PlanStatus
        THEN [ord[o] EXCEPT
                !.shortage = {l \in Line : ToPlan(ord, o, l) /\ Planned(take, o, l) < ord[o].need[l]},
                !.status   = IF \E l \in Line : Planned(take, o, l) > 0 THEN "picking" ELSE @]
        ELSE ord[o]]

ItemOfTask == [t \in Task |-> t[3]]

\* Plans the orders O one after the other, with the rows ord, and writes them.
PlanPicks(ord, O) ==
    \E take \in [Trials(ord, O) -> 0 .. MaxNeed] :
        /\ Greedy(ord, take)
        /\ CanReserveAll(stock, ItemOfTask, take)
        /\ stock' = ReserveAll(stock, ItemOfTask, take)
        /\ task'  = WithTasks(take)
        /\ order' = AfterPlanning(ord, O, take)
        /\ UNCHANGED item

-----------------------------------------------------------------------------
(* Routes of outbound_orders.py                                            *)

CreateOrder(o, status, need) ==
    /\ order[o].status = "absent"
    /\ PlanPicks([order EXCEPT ![o] = [NoOrder EXCEPT !.status = status, !.need = need]], {o})

\* What PATCH may write over a row: a status; lines, whose picked counters replace those
\* stored; an extra, which drops what the handlers keep under "fulfillment".
WithStatus(row) == {row} \cup {[row EXCEPT !.status = status] : status \in PatchedOrderStatus}

WithLines(row) ==
    {row} \cup {[row EXCEPT !.need = need, !.picked = [l \in Line |-> 0]] : need \in PatchedNeeds}

WithExtra(row) == {row} \cup {[row EXCEPT !.incidents = {}, !.shortage = {}, !.packedAt = FALSE]}

\* update_outbound_order: the fields the body has are replaced, then the lines without
\* picks are planned (again).
PatchOrder(o) ==
    /\ order[o].status \notin GoneStatus
    /\ \E a \in WithStatus(order[o]) : \E b \in WithLines(a) : \E row \in WithExtra(b) :
           PlanPicks([order EXCEPT ![o] = row], {o})

\* The row goes; its tasks and reservations stay.
DeleteOrder(o) ==
    /\ order[o].status \notin GoneStatus
    /\ order' = [order EXCEPT ![o] = [NoOrder EXCEPT !.status = "deleted"]]
    /\ UNCHANGED <<stock, item, task>>

\* confirm_pick with outcome "no_stock"
ConfirmNoStock(o, t) ==
    /\ order[o].status \notin GoneStatus \cup NoMorePicking
    /\ t \in Picks(task, o)
    /\ task[t].status \notin DoneTaskStatus
    /\ stock' = Release(stock, t)
    /\ task'  = [task EXCEPT ![t].status = "blocked", ![t].incident = "open", ![t].confirmed = 0]
    /\ order' = [order EXCEPT
                   ![o].incidents = @ \cup {t},
                   ![o].status    = IF @ \in {"open", "picking_complete"} THEN "picking" ELSE @]
    /\ UNCHANGED item

\* A blocked task confirmed by the scan of another item of its SKU moves to
\* that item.
Reassigned(t, i) == task[t].status = "blocked" /\ i # task[t].item

\* The task statuses confirm_pick accepts for outcome "ok".
Confirmable(t) == task[t].status \in {"pending", "in_progress", "blocked"}

\* _bump_line_picked, and the incident of the task leaves the order.
Counted(o, t, n) ==
    [order EXCEPT ![o].picked[t[2]] = @ + n,
                  ![o].incidents    = @ \ {t},
                  ![o].status       = IF @ = "open" THEN "picking" ELSE @]

\* The task row after the scan of item i.
Done(t, source, n) ==
    [task EXCEPT ![t].status    = "completed",
                 ![t].item      = source,
                 ![t].confirmed = n,
                 ![t].incident  = IF @ = "none" THEN "none" ELSE "resolved"]

\* confirm_pick with outcome "ok", the scan of item i and quantity n.  A blocked
\* task first reserves n again, on the item scanned or on its own.
ConfirmOk(o, t, i, n) ==
    LET blocked  == task[t].status = "blocked"
        source   == IF Reassigned(t, i) THEN i ELSE task[t].item
        freed    == IF Reassigned(t, i) THEN Release(stock, t) ELSE stock
        reserved == IF blocked THEN Reserve(freed, t, source, n) ELSE stock
        done     == Done(t, source, n)
    IN  /\ order[o].status \notin GoneStatus \cup NoMorePicking
        /\ t \in Picks(task, o)
        /\ Confirmable(t)
        /\ SkuOf[i] = SkuOf[task[t].item]
        /\ blocked => CanReserve(freed, t, source, n)
        /\ order[o].picked[t[2]] + n <= MaxPicked
        /\ stock' = Consume(reserved, t, n)
        /\ task'  = done
        /\ order' = Sync(Counted(o, t, n), done, o)
        /\ UNCHANGED item

\* pack_order
PackOrder(o) ==
    /\ order[o].status \notin GoneStatus \cup NoMorePicking
    /\ ~(order[o].status = "packed" /\ order[o].packedAt)
    /\ Picks(task, o) # {}
    /\ \A t \in Picks(task, o) :
           \/ task[t].status = "cancelled"
           \/ task[t].status = "completed" /\ task[t].confirmed > 0
    /\ order[o].incidents = {}
    /\ LinesComplete(o, Picks(task, o))
    /\ order' = [order EXCEPT ![o].status = "packed", ![o].packedAt = TRUE]
    /\ UNCHANGED <<stock, item, task>>

-----------------------------------------------------------------------------
(* ship_order                                                              *)

\* Picks still marked as planned by plan_outbound_picks.
OpsPicks(o) == {t \in Picks(task, o) : task[t].via = "outbound_planning"}

\* Mutant: the confirmed quantities are not compared with the lines again.
NoOpenPicks(o) ==
    OpsPicks(o) # {} =>
        /\ \A t \in OpsPicks(o) :
               /\ task[t].status \in DoneTaskStatus
               /\ task[t].incident # "open"
               /\ task[t].status = "completed" => task[t].confirmed > 0
        /\ order[o].incidents = {}
        /\ order[o].packedAt

\* shipment_blockers returns an empty list.
NoBlockers(o) ==
    OpsPicks(o) # {} =>
        /\ \A t \in OpsPicks(o) :
               /\ task[t].status \in DoneTaskStatus
               /\ task[t].incident # "open"
               /\ task[t].status = "completed" => task[t].confirmed > 0
        /\ order[o].incidents = {}
        /\ LinesComplete(o, OpsPicks(o))
        /\ order[o].packedAt

\* is_ready_for_shipment
Ready(o) ==
    /\ order[o].status = "packed"
    /\ \A t \in Picks(task, o) : task[t].status \in DoneTaskStatus

\* related_items: the items of all its pick tasks, and every staged item of a
\* SKU it ordered.
RelatedItems(o) ==
    {task[t].item : t \in Picks(task, o)}
        \cup {i \in Item : /\ item[i].status \in {"shipment", "shipped"}
                           /\ \E l \in Line : order[o].need[l] > 0 /\ i \in Fits[l]}

\* ship_order: _ship_item takes the whole item row away.
ShipOrder(o) ==
    /\ NoBlockers(o)
    /\ Ready(o)
    /\ \A i \in RelatedItems(o) : ~item[i].expired
    /\ item'  = [i \in Item |->
                   IF i \in RelatedItems(o) /\ item[i].status \in {"warehouse", "shipment"}
                   THEN [item[i] EXCEPT !.status = "shipped", !.slotted = FALSE]
                   ELSE item[i]]
    /\ order' = [order EXCEPT ![o].status = "shipped"]
    /\ UNCHANGED <<stock, task>>

-----------------------------------------------------------------------------
(* Other handlers that touch the same rows                                 *)

\* patch_warehouse_task with a status
PatchTask(t, status) ==
    LET patched == [task EXCEPT ![t].status = status]
    IN  /\ task[t].status # "none"
        /\ stock' = ApplyStatus(stock, t, status)
        /\ task'  = patched
        /\ order' = Sync(order, patched, t[1])
        /\ UNCHANGED item

\* plan_wave: plans the orders of the wave, then marks their pick tasks of any
\* status (those of the zone asked for, at most max_tasks of them).
PlanWave(O) ==
    \E take \in [Trials(order, O) -> 0 .. MaxNeed] :
        LET planned == WithTasks(take)
            all     == UNION {Picks(planned, o) : o \in O}
        IN  /\ Greedy(order, take)
            /\ CanReserveAll(stock, ItemOfTask, take)
            /\ stock' = ReserveAll(stock, ItemOfTask, take)
            /\ order' = AfterPlanning(order, O, take)
            /\ \E marked \in (SUBSET all) \ {{}} :
                   task' = [t \in Task |-> IF t \in marked
                                           THEN [planned[t] EXCEPT !.via = "outbound_wave"]
                                           ELSE planned[t]]
            /\ UNCHANGED item

\* ALLOWED_STATUS_TRANSITIONS of an item in the warehouse or later.
NextItemStatus == [warehouse |-> "shipment", shipment |-> "shipped"]

\* update_item with a status: one step along the chain; the slot is kept.
UpdateItemStatus(i) ==
    /\ item[i].status \in DOMAIN NextItemStatus
    /\ item' = [item EXCEPT ![i].status = NextItemStatus[@]]
    /\ UNCHANGED <<stock, task, order>>

\* today_utc passes the date of the item's lot.
Expire(i) ==
    /\ ~item[i].expired
    /\ item' = [item EXCEPT ![i].expired = TRUE]
    /\ UNCHANGED <<stock, task, order>>

-----------------------------------------------------------------------------

PickStep ==
    \E t \in Task :
        \/ ConfirmNoStock(t[1], t)
        \/ \E i \in Item, n \in {task[t].quantity} \cup OtherQuantity : ConfirmOk(t[1], t, i, n)
        \/ \E status \in PatchedTaskStatus : PatchTask(t, status)

OrderStep ==
    \/ \E o \in Order :
          \/ \E status \in CreatedStatus, need \in Needs : CreateOrder(o, status, need)
          \/ PatchOrder(o)
          \/ DeleteOrder(o)
          \/ PackOrder(o)
          \/ ShipOrder(o)
    \/ \E O \in Waves :
          /\ \A o \in O : order[o].status \notin GoneStatus
          /\ PlanWave(O)

ItemStep ==
    \/ \E i \in Perishable : Expire(i)
    \/ \E i \in Moved : UpdateItemStatus(i)

Next == PickStep \/ OrderStep \/ ItemStep

Spec == Init /\ [][Next]_vars

-----------------------------------------------------------------------------
(* Properties *)

\* Type invariant.
TypeOK ==
    /\ stock \in Ledger
    /\ item \in [Item -> ItemRow]
    /\ task \in [Task -> TaskRow]
    /\ order \in [Order -> OrderRow]

\* The ledger laws survive every handler: planning, confirmation, incidents,
\* re-assignment, packing, shipping, status patches and deletion leave
\* reserved_quantity equal to the active reservations, within the shelf, and
\* the shelf short of exactly what picks wrote off.
StockLaws == LedgerLaws(stock, Shelf)

\* A reservation is held for work still to be done: a task that is completed,
\* cancelled, failed or blocked holds no stock, and one that holds stock holds
\* it on the item and in the quantity its payload names.
ReservationFollowsTask ==
    \A t \in Task : stock.state[t] = "active" =>
        /\ task[t].status \notin {"none"} \cup ConsumingStatus \cup ReleasingStatus
        /\ stock.source[t] = task[t].item
        /\ stock.amount[t] = task[t].quantity

\* No order is shipped short: at the moment it becomes shipped, confirmed scans
\* cover every line, whatever happened since it was packed.
ShippedIsPicked ==
    [][\A o \in Order : order[o].status # "shipped" /\ order'[o].status = "shipped" =>
          \A l \in Line : ConfirmedOn(task, Picks(task, o), l) >= order[o].need[l]]_vars

\* A shipped order stays shipped until its row is deleted: no late scan, task
\* patch, wave or re-planning takes it back.
ShippedIsFinal ==
    [][\A o \in Order : order[o].status = "shipped" =>
          order'[o].status \in {"shipped", "deleted"}]_vars

=============================================================================

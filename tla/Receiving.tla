------------------------------ MODULE Receiving ------------------------------
(***************************************************************************)
(* Inbound orders: lines are received (services/inbound_receiving.py),     *)
(* goods get a cell (services/putaway_strategy.py), put-away tasks are     *)
(* planned and close the order (services/inbound_planning.py,              *)
(* api/routes/inbound_orders.py and warehouse_tasks.py).                   *)
(*                                                                         *)
(* A request is a session with one READ COMMITTED transaction.  It loads   *)
(* the order without a lock and works on its copy; a flush writes what it  *)
(* changed, the whole lines JSON at once, and keeps the row locked until   *)
(* the transaction ends.  Items are named by the cell they stand in, which *)
(* a unique index keeps to one item each.  Lots, events and notifications  *)
(* are written along and left out.                                         *)
(***************************************************************************)
EXTENDS Naturals, Sequences, FiniteSetsExt

CONSTANTS
    Order, Line, Slot, Sku, Request,
    Nobody,         \* holder of a free lock
    NoSku,          \* of an empty cell
    None,           \* no line, no cell
    SkuOf,          \* the SKU of a line
    Ordered,        \* its ordered quantity
    ToppingUp,      \* orders with the strategy top_up_then_abc
    Capacity,       \* default_bin_capacity_qty
    Stored,         \* the cells at the start
    Quantity,       \* quantities reported as received
    PatchedStatus,  \* statuses that users write with PATCH
    PatchedLine,    \* what users write over every line with PATCH
    TaskStatus,     \* statuses that users give put-away tasks
    MaxReceipts     \* bound: receipts committed in a behaviour

\* Mutant: put-away is planned when receiving is closed.
PlanOnClose == {"received"}

OpenStatus == {"open", "receiving"}      \* "awaiting" is treated as "open"
PlanStatus == {"receiving", "received"}
EndStatus  == {"closed", "cancelled"}
Status     == OpenStatus \cup EndStatus \cup {"received", "in_progress"}
DoneStatus == {"completed", "cancelled"}

NoLine   == [done |-> FALSE, received |-> 0]
LineRow  == [done : BOOLEAN, received : Nat]
Empty    == [sku |-> NoSku, quantity |-> 0]
Item     == [sku : Sku, quantity : Nat]

ASSUME NamesAssumption ==
    /\ Nobody \notin Request /\ NoSku \notin Sku /\ None \notin Slot \cup Line
    /\ Order \cap Slot = {}
ASSUME SetupAssumption ==
    /\ SkuOf \in [Line -> Sku] /\ Ordered \in [Line -> Nat] /\ ToppingUp \subseteq Order /\ Capacity \in Nat
    /\ Stored \in [Slot -> Item \cup {Empty}]
    /\ Quantity \subseteq Nat /\ MaxReceipts \in Nat
    /\ PatchedStatus \subseteq Status
    /\ TaskStatus \subseteq {"pending", "in_progress"} \cup DoneStatus
\* Nobody writes the marks of a receipt by hand.
ASSUME PatchAssumption == PatchedLine \subseteq {row \in LineRow : ~row.done}

VARIABLES
    order,      \* inbound_order rows: status and lines
    putaway,    \* by order and line, the statuses of the put-away tasks
    cell,       \* the item in each cell, of status "warehouse"
    lock,       \* who holds the row of an order, or of the item in a cell
    session,    \* what each request knows, changed and does next
    entered     \* by order and line, how often goods were taken into stock

vars == <<order, putaway, cell, lock, session, entered>>

Gone       == "deleted"
NoOrder    == "none"

Idle == [step |-> "idle"]

Init ==
    /\ order = [o \in Order |-> [status |-> NoOrder, lines |-> [l \in Line |-> NoLine]]]
    /\ putaway = [o \in Order |-> [l \in Line |-> <<>>]]
    /\ cell = Stored
    /\ lock = [x \in Order \cup Slot |-> Nobody]
    /\ session = [r \in Request |-> Idle]
    /\ entered = [o \in Order |-> [l \in Line |-> 0]]

-----------------------------------------------------------------------------
(* Sessions *)

At(r, step) == session[r].step = step

Exists(o) == order[o].status \notin {NoOrder, Gone}

\* A session that has loaded order o.
Loaded(o, call) ==
    [step |-> "loaded", call |-> call, order |-> o,
     status |-> order[o].status, setsStatus |-> FALSE,
     lines |-> order[o].lines, setsLines |-> FALSE,
     line |-> None, received |-> 0,
     slot |-> None, writes |-> Empty,      \* the cell it fills, and with what
     inserts |-> FALSE,                      \* whether that is a new item
     planned |-> {},                         \* lines it makes a put-away task for
     task |-> 0, taskStatus |-> "pending"]   \* the task it patches

\* Only attributes that change are written.
WithStatus(s, status) ==
    [s EXCEPT !.status = status, !.setsStatus = @ \/ status # s.status]

To(r, s, step) == session' = [session EXCEPT ![r] = [s EXCEPT !.step = step]]

Takes(r, x) ==
    /\ lock[x] \in {Nobody, r}
    /\ lock' = [lock EXCEPT ![x] = r]

Ends(r) ==
    /\ session' = [session EXCEPT ![r] = Idle]
    /\ lock' = [x \in DOMAIN lock |-> IF lock[x] = r THEN Nobody ELSE lock[x]]

\* An error, a deadlock or a lost connection: session.rollback.
Rollback(r) == Ends(r) /\ UNCHANGED <<order, putaway, cell, entered>>

Fail(r) == ~At(r, "idle") /\ Rollback(r)

-----------------------------------------------------------------------------
(* receive_line *)

Receipts == MapThenSumSet(LAMBDA o : MapThenSumSet(LAMBDA l : entered[o][l], Line), Order)

\* The order is open and the line not processed: the same quantity again
\* answers "idempotent", another one 409.
Receivable(s, l) == s.status \in OpenStatus /\ ~s.lines[l].done

StartReceive(r, o, l, n) ==
    LET s == Loaded(o, "receive")
    IN  /\ At(r, "idle") /\ Exists(o) /\ Receipts < MaxReceipts
        /\ Receivable(s, l) /\ Ordered[l] + n > 0
        /\ To(r, [WithStatus(s, "receiving") EXCEPT !.line = l, !.received = n], "loaded")
        /\ UNCHANGED <<order, putaway, cell, lock, entered>>

\* Candidates of choose_best_slot: a free cell counts as room for one unit, a
\* cell with an item as room up to the capacity; different SKUs do not share.
\* Scores and weights only choose among them.
Feasible(s, sku, n) ==
    LET c == cell[s]
    IN  IF c = Empty THEN n <= 1
        ELSE c.quantity + n <= Capacity /\ (c.quantity = 0 \/ c.sku = sku)

\* The cells suggest_putaway_slot may choose, and with what reason.  Without a
\* suggestion _resolve_coords takes the first cell nothing stands in.
Suggestions(o, sku, n) ==
    LET feasible == {s \in Slot : Feasible(s, sku, n)}
        empties  == {s \in feasible : cell[s].quantity = 0}
        topUps   == {s \in feasible \ empties : o \in ToppingUp}
        others   == IF empties # {} THEN empties ELSE feasible
    IN  IF feasible = {} THEN {<<s, "insert">> : s \in {x \in Slot : cell[x] = Empty}}
        ELSE IF topUps # {} THEN {<<s, "topUp">> : s \in topUps}
        ELSE {<<s, "insert">> : s \in others}

\* The first query flushes a changed status, which locks the order.
Suggest(r) ==
    LET s  == session[r]
        n  == s.received
        at == Suggestions(s.order, SkuOf[s.line], n)
    IN  /\ At(r, "loaded") /\ s.call = "receive"
        /\ IF s.setsStatus THEN Takes(r, s.order) ELSE UNCHANGED lock
        /\ ~(s.setsStatus /\ order[s.order].status = Gone)
        /\ \/ n = 0 /\ To(r, s, "changed")
           \/ n > 0 /\ \E c \in at : To(r, [s EXCEPT !.slot = c[1]], c[2])
        /\ UNCHANGED <<order, putaway, cell, entered>>

\* session.get of the item to top up.
ReadItem(r) ==
    LET s == session[r]
        c == cell[s.slot]
    IN  /\ At(r, "topUp")
        /\ To(r, [s EXCEPT !.writes = [c EXCEPT !.quantity = @ + s.received]], "update")
        /\ UNCHANGED <<order, putaway, cell, lock, entered>>

\* The flush of the topped up item.
UpdateItem(r) ==
    /\ At(r, "update")
    /\ Takes(r, session[r].slot)
    /\ To(r, session[r], "changed")
    /\ UNCHANGED <<order, putaway, cell, entered>>

\* Mutant: no unique index.
InsertUnlocked(r) ==
    LET s == session[r]
    IN  /\ At(r, "insert") /\ cell[s.slot] = Empty
        /\ To(r, [s EXCEPT !.writes = [sku |-> SkuOf[s.line], quantity |-> s.received],
                           !.inserts = TRUE], "changed")
        /\ UNCHANGED <<order, putaway, cell, lock, entered>>

\* The insert of a new item; the unique index makes it wait for one that is
\* not committed and refuses the cell of another item.
InsertItem(r) ==
    LET s == session[r]
    IN  /\ At(r, "insert") /\ cell[s.slot] = Empty
        /\ Takes(r, s.slot)
        /\ To(r, [s EXCEPT !.writes = [sku |-> SkuOf[s.line], quantity |-> s.received],
                           !.inserts = TRUE], "changed")
        /\ UNCHANGED <<order, putaway, cell, entered>>

\* What the flush of the order writes: the lines as loaded, with the one
\* received processed.
Changed(s) ==
    IF s.call # "receive" THEN s
    ELSE [s EXCEPT !.lines[s.line] = [done |-> TRUE, received |-> s.received],
                   !.setsLines = TRUE]

\* Calls that plan put-away tasks after the flush.
Plans(s) == s.call = "patch" \/ (s.call = "receive" /\ s.received > 0)

\* Mutant: the flush comes after the planning.
FlushUnlocked(r) ==
    LET s == session[r]
    IN  /\ At(r, "changed")
        /\ To(r, Changed(s), IF Plans(s) THEN "flushed" ELSE "ready")
        /\ UNCHANGED <<order, putaway, cell, lock, entered>>

\* session.flush of the order; a row that is gone is an error.
Flush(r) ==
    LET s == session[r]
    IN  /\ At(r, "changed") /\ order[s.order].status # Gone
        /\ Takes(r, s.order)
        /\ To(r, Changed(s), IF Plans(s) THEN "flushed" ELSE "ready")
        /\ UNCHANGED <<order, putaway, cell, entered>>

\* plan_inbound_putaways: received lines none of whose tasks is visible.
ToPlan(s) ==
    {l \in Line : /\ s.status \in PlanStatus
                  /\ putaway[s.order][l] = <<>>
                  /\ s.lines[l].done /\ s.lines[l].received > 0}

Plan(r) ==
    LET s == session[r]
    IN  /\ At(r, "flushed")
        /\ To(r, [s EXCEPT !.planned = ToPlan(s)], "ready")
        /\ UNCHANGED <<order, putaway, cell, lock, entered>>

\* session.commit of any of the requests.
Commit(r) ==
    LET s     == session[r]
        o     == s.order
        stock == s.call = "receive" /\ s.received > 0
    IN  /\ At(r, "ready")
        /\ order' = [order EXCEPT ![o] =
                        [status |-> IF s.setsStatus THEN s.status ELSE @.status,
                         lines  |-> IF s.setsLines  THEN s.lines  ELSE @.lines]]
        /\ putaway' = [putaway EXCEPT ![o] =
              [l \in Line |->
                  IF l \in s.planned THEN Append(@[l], "pending")
                  ELSE IF s.call = "task" /\ l = s.line THEN [@[l] EXCEPT ![s.task] = s.taskStatus]
                  ELSE @[l]]]
        /\ cell' = IF stock THEN [cell EXCEPT ![s.slot] = s.writes] ELSE cell
        /\ entered' = IF stock THEN [entered EXCEPT ![o][s.line] = @ + 1] ELSE entered
        /\ Ends(r)

-----------------------------------------------------------------------------
(* The other requests *)

\* create_inbound_order, with lines none of which is received.
CreateOrder(o) ==
    /\ order[o].status = NoOrder
    /\ order' = [order EXCEPT ![o].status = "open"]
    /\ UNCHANGED <<putaway, cell, lock, session, entered>>

\* update_inbound_order with a status or with lines.
StartPatchStatus(r, o, status) ==
    /\ At(r, "idle") /\ Exists(o)
    /\ To(r, WithStatus(Loaded(o, "patch"), status), "changed")
    /\ UNCHANGED <<order, putaway, cell, lock, entered>>

StartPatchLines(r, o, row) ==
    /\ At(r, "idle") /\ Exists(o)
    /\ To(r, [Loaded(o, "patch") EXCEPT !.lines = [l \in Line |-> row], !.setsLines = TRUE], "changed")
    /\ UNCHANGED <<order, putaway, cell, lock, entered>>

\* close_receiving; a line of which nothing was ordered may stay as it is.
StartClose(r, o) ==
    /\ At(r, "idle") /\ Exists(o)
    /\ order[o].status \notin EndStatus \cup {"received"}
    /\ \A l \in Line : order[o].lines[l].done \/ Ordered[l] = 0
    /\ To(r, WithStatus(Loaded(o, "close"), "received"), "changed")
    /\ UNCHANGED <<order, putaway, cell, lock, entered>>

\* sync_inbound_status_from_tasks: the tasks of the order, with the new status of
\* the k-th task of line l, are all done.
AllDone(o, l, k, status) ==
    /\ status \in DoneStatus
    /\ \A m \in Line : \A j \in DOMAIN putaway[o][m] :
          <<m, j>> = <<l, k>> \/ putaway[o][m][j] \in DoneStatus

\* Mutant: the order takes over the status of the task.
FollowedBy(s) == WithStatus(s, s.taskStatus)

\* The status of RECEIVING_CLOSED_STATUS.
Closed(s) == WithStatus(s, "closed")

\* patch_warehouse_task: the task is flushed, which locks its row, then the order
\* is loaded and follows its tasks.
StartPatchTask(r, o, l, k, status) ==
    LET s      == [Loaded(o, "task") EXCEPT !.line = l, !.task = k, !.taskStatus = status]
        closes == order[o].status \notin EndStatus /\ AllDone(o, l, k, status)
    IN  /\ At(r, "idle") /\ Exists(o) /\ k \in DOMAIN putaway[o][l]
        /\ \A q \in Request : ~At(q, "idle") =>
              ~(session[q].call = "task" /\ <<session[q].order, session[q].line>> = <<o, l>>)
        /\ IF closes THEN To(r, Closed(s), "changed") ELSE To(r, s, "ready")
        /\ UNCHANGED <<order, putaway, cell, lock, entered>>

\* delete_inbound_order; the tasks stay.
DeleteOrder(o) ==
    /\ Exists(o) /\ lock[o] = Nobody
    /\ order' = [order EXCEPT ![o].status = Gone]
    /\ UNCHANGED <<putaway, cell, lock, session, entered>>

\* A confirmed pick takes a unit out of a cell; an item without units keeps its
\* cell until it is shipped.
Pick(s) ==
    /\ cell[s].quantity > 0 /\ lock[s] = Nobody
    /\ cell' = [cell EXCEPT ![s].quantity = @ - 1]
    /\ UNCHANGED <<order, putaway, lock, session, entered>>

Receive(r) ==
    \/ \E o \in Order, l \in Line, n \in Quantity : StartReceive(r, o, l, n)
    \/ Suggest(r) \/ ReadItem(r) \/ UpdateItem(r) \/ InsertItem(r)

Change(r) ==
    \E o \in Order :
        \/ \E status \in PatchedStatus : StartPatchStatus(r, o, status)
        \/ \E row \in PatchedLine : StartPatchLines(r, o, row)
        \/ StartClose(r, o)
        \/ \E l \in Line, k \in 1 .. 2, status \in TaskStatus : StartPatchTask(r, o, l, k, status)

Next ==
    \/ \E r \in Request : Receive(r) \/ Change(r) \/ Flush(r) \/ Plan(r) \/ Commit(r) \/ Fail(r)
    \/ \E o \in Order : CreateOrder(o) \/ DeleteOrder(o)
    \/ \E s \in Slot : Pick(s)

Spec == Init /\ [][Next]_vars

-----------------------------------------------------------------------------
(* Properties *)

\* What a request at work knows.
Session ==
    [step : {"loaded", "topUp", "update", "insert", "changed", "flushed", "ready"},
     call : {"receive", "patch", "close", "task"}, order : Order,
     status : Status, setsStatus : BOOLEAN,
     lines : [Line -> LineRow], setsLines : BOOLEAN,
     line : Line \cup {None}, received : Nat,
     slot : Slot \cup {None}, writes : Item \cup {Empty}, inserts : BOOLEAN,
     planned : SUBSET Line, task : Nat, taskStatus : {"pending"} \cup TaskStatus]

\* Type invariant.
TypeOK ==
    /\ order \in [Order -> [status : Status \cup {NoOrder, Gone}, lines : [Line -> LineRow]]]
    /\ putaway \in [Order -> [Line -> Seq({"pending"} \cup TaskStatus)]]
    /\ cell \in [Slot -> Item \cup {Empty}]
    /\ lock \in [Order \cup Slot -> Request \cup {Nobody}]
    /\ session \in [Request -> {Idle} \cup Session]
    /\ entered \in [Order -> [Line -> Nat]]

\* However receipts, edits and closings of an order overlap, a line gets one
\* put-away task at most, and what an order shows as received has its task:
\* nobody is sent twice for goods, and no goods are forgotten at the dock.
OnePutaway ==
    \A o \in Order, l \in Line :
        /\ Len(putaway[o][l]) <= 1
        /\ order[o].lines[l].done /\ order[o].lines[l].received > 0 => putaway[o][l] # <<>>

\* Goods that entered the stock have a put-away task, also where the mark of
\* their receipt was lost: a request that read the order before writes all its
\* lines back, or a user rewrites them.
GoodsHaveTask ==
    \A o \in Order, l \in Line : entered[o][l] > 0 => putaway[o][l] # <<>>

Inserts(r) == session[r] # Idle /\ session[r].inserts

\* A new item does not share its cell, although the cell was chosen without a
\* lock and others receive into it, or pick from it, meanwhile: from the insert to
\* the commit nothing stands there, and no other request inserts there.
NewItemIsAlone ==
    \A r \in Request : Inserts(r) =>
        /\ cell[session[r].slot] = Empty
        /\ \A q \in Request \ {r} : Inserts(q) => session[q].slot # session[r].slot

-----------------------------------------------------------------------------
(* What tests and comments promise and the code does not keep              *)

\* What a test and an error text promise of closing: no order is closed while a
\* line was not received.
ClosedIsReceived ==
    \A o \in Order : order[o].status = "closed" => \A l \in Line : order[o].lines[l].done \/ Ordered[l] = 0

\* What receive_line promises: a line is processed once, its goods enter the
\* stock once.
ReceivedOnce == \A o \in Order, l \in Line : entered[o][l] <= 1

\* What receive_line promises: the fact and the stock are written together, the
\* commit adds what was received to what lies in the cell at that moment.
ReceivedIsStocked ==
    [][\A r \in Request :
          /\ At(r, "ready") /\ session'[r] = Idle
          /\ entered' # entered
          => LET s == session[r] IN
             cell'[s.slot].quantity = cell[s.slot].quantity + s.received]_vars

\* What choose_best_slot promises: the cell suggested for a new item is free, or
\* one that another request of the moment took.
SuggestedIsFree ==
    \A r \in Request : At(r, "insert") =>
        \/ cell[session[r].slot] = Empty
        \/ \E q \in Request \ {r} : ~At(q, "idle")

\* What sync_inbound_status_from_tasks promises: the update that leaves no
\* put-away task of an order open leaves the order closed.
DonePutawaysClose ==
    [][\A r \in Request :
          /\ At(r, "ready") /\ session[r].call = "task" /\ session'[r] = Idle
          /\ putaway' # putaway
          => LET o == session[r].order IN
             \/ order'[o].status \in EndStatus \cup {Gone}
             \/ \E l \in Line : \E k \in DOMAIN putaway'[o][l] : putaway'[o][l][k] \notin DoneStatus]_vars

=============================================================================

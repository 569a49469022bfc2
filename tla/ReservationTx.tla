---------------------------- MODULE ReservationTx ----------------------------
(***************************************************************************)
(* The reservation service as PostgreSQL and SQLAlchemy execute it: every  *)
(* request is a session with one transaction, READ COMMITTED, whose        *)
(* statements interleave with those of other requests.                     *)
(*                                                                         *)
(* What the code relies on, or forgets, of the two libraries:              *)
(*  - a SELECT sees what is committed when it runs, and the session's own  *)
(*    flushed writes; SELECT ... FOR UPDATE and UPDATE wait for the row    *)
(*    lock of another transaction, held until that one ends;               *)
(*  - a row already loaded by the session keeps its attributes when it is  *)
(*    selected again (_lock_item does not ask for populate_existing);      *)
(*    session.refresh reads them anew;                                     *)
(*  - a flush writes the attributes that changed, as absolute values.      *)
(*                                                                         *)
(* A request is the list of statements its handler still has to run, of    *)
(* which only those on item, reservation and task rows are kept.  Pickers  *)
(* confirm the planned quantity of the planned item.                       *)
(***************************************************************************)
EXTENDS Stock, Sequences

CONSTANTS
    Request,    \* requests in flight
    Calls,      \* what a request may ask for: a handler and its tasks in order
    Nobody,     \* holder of a free lock
    PlannedBefore, \* tasks planned and reserved when the requests arrive
    ItemOf,     \* the item of a task
    QuantityOf  \* the quantity of a task

Handler == {"plan", "confirm", "no_stock", "complete", "cancel"}

ASSUME CallsAssumption ==
    \A c \in Calls : /\ c.handler \in Handler
                     /\ c.tasks \in Seq(Task) /\ c.tasks # <<>>
                     /\ c.handler # "plan" => Len(c.tasks) = 1
ASSUME NobodyAssumption == Nobody \notin Request
ASSUME TaskDataAssumption ==
    /\ PlannedBefore \subseteq Task
    /\ ItemOf \in [Task -> Item]
    /\ QuantityOf \in [Task -> Nat \ {0}]

PlannedQuantity == [t \in PlannedBefore |-> QuantityOf[t]]

\* The planner found them enough stock.
ASSUME PlannedAssumption == CanReserveAll(EmptyLedger(Shelf), ItemOf, PlannedQuantity)

StockBefore == ReserveAll(EmptyLedger(Shelf), ItemOf, PlannedQuantity)

VARIABLES       \* and stock, the committed ledger
    taskStatus, \* the committed status of each task
    itemLock,   \* who holds the lock of an item row
    taskLock,   \* who holds the lock of a task row
    session     \* what each request has loaded, changed and still to do

txVars == <<stock, taskStatus, itemLock, taskLock, session>>

-----------------------------------------------------------------------------
(* Statements of the handlers                                              *)

\* Mutant: PATCH writes the task after the stock.
StatementsPatchLast(handler) ==
    CASE handler = "plan"     -> <<"refresh", "readRow", "reserve">>
      [] handler = "confirm"  -> <<"readTask", "loadItem", "completed", "readRow", "consume">>
      [] handler = "no_stock" -> <<"readTask", "readRow", "release", "blocked">>
      [] handler = "complete" -> <<"readRow", "consume", "completed">>
      [] handler = "cancel"   -> <<"readRow", "release", "cancelled">>

\* By handler, for one task: a line of plan_outbound_picks with one candidate;
\* confirm_pick with outcome "ok" and with "no_stock"; patch_warehouse_task with
\* "completed" and "cancelled".
Statements(handler) ==
    CASE handler = "plan"     -> <<"refresh", "readRow", "reserve">>
      [] handler = "confirm"  -> <<"readTask", "loadItem", "completed", "readRow", "consume">>
      [] handler = "no_stock" -> <<"readTask", "readRow", "release", "blocked">>
      [] handler = "complete" -> <<"completed", "readRow", "consume">>
      [] handler = "cancel"   -> <<"cancelled", "readRow", "release">>

\* confirm_pick reserves for a blocked task again before it completes it.
WhenBlocked == <<"loadItem", "readRow", "reserve", "completed", "readRow", "consume">>

\* The statements ops for each of the tasks in turn.
ForEach(ops, tasks) ==
    [n \in 1 .. Len(ops) * Len(tasks) |->
        [op |-> ops[((n - 1) % Len(ops)) + 1], task |-> tasks[((n - 1) \div Len(ops)) + 1]]]

\* All of a call: a plan goes through its lines, the others have one task.
Todo(call) == ForEach(Statements(call.handler), call.tasks)

-----------------------------------------------------------------------------
(* Rows as a session sees them                                             *)

Row(s, t) == [state |-> s.state[t], source |-> s.source[t], amount |-> s.amount[t]]

NotLoaded == [loaded |-> FALSE, quantity |-> 0, reserved |-> 0]

Loaded(i) == [loaded |-> TRUE, quantity |-> stock.quantity[i], reserved |-> stock.reserved[i]]

NoRow == [state |-> "none", source |-> NoItem, amount |-> 0]

Fresh(call) ==
    [call  |-> call,
     phase |-> "running",
     todo  |-> Todo(call),
     item  |-> [i \in Item |-> NotLoaded],   \* the identity map
     dirty |-> {},                           \* changed attributes of items: <<item, name>>
     rows  |-> <<>>,                         \* written reservation rows, by task
     tasks |-> <<>>,                         \* written task statuses, by task
     row   |-> NoRow,                        \* the reservation row looked up last
     take  |-> 0]                            \* the quantity to reserve

\* With(f, x, v) is f with x mapped to v.
With(f, x, v) == [y \in DOMAIN f \cup {x} |-> IF y = x THEN v ELSE f[y]]

\* The reservation of t: the session's own write, else the committed row.
Visible(s, t) == IF t \in DOMAIN s.rows THEN s.rows[t] ELSE Row(stock, t)

TxInit ==
    /\ stock = StockBefore
    /\ taskStatus = [t \in Task |-> "pending"]
    /\ itemLock = [i \in Item |-> Nobody]
    /\ taskLock = [t \in Task |-> Nobody]
    /\ session \in [Request -> {Fresh(call) : call \in Calls}]

Running(r) == session[r].phase = "running"

\* The next statement of r is op on t.
At(r, op, t) == Running(r) /\ session[r].todo # <<>> /\ Head(session[r].todo) = [op |-> op, task |-> t]

Rest(r) == Tail(session[r].todo)

\* r goes on with the statements todo after changing what it knows.
Continue(r, s, todo) == session' = [session EXCEPT ![r] = [s EXCEPT !.todo = todo]]

\* The locks of r are free, its session is over.
EndSession(r) ==
    /\ itemLock' = [i \in Item |-> IF itemLock[i] = r THEN Nobody ELSE itemLock[i]]
    /\ taskLock' = [t \in Task |-> IF taskLock[t] = r THEN Nobody ELSE taskLock[t]]
    /\ session'  = [session EXCEPT ![r] = [Fresh(@.call) EXCEPT !.phase = "ended", !.todo = <<>>]]

\* An HTTPException or a database error: session.rollback.
Rollback(r) == EndSession(r) /\ UNCHANGED <<stock, taskStatus>>

-----------------------------------------------------------------------------
(* One action per statement                                                *)

\* confirm_pick loads the task and looks at its status.
ReadTask(r, t) ==
    /\ At(r, "readTask", t)
    /\ \/ /\ taskStatus[t] \in {"completed", "cancelled"}
          /\ Rollback(r)
       \/ /\ taskStatus[t] = "blocked" /\ session[r].call.handler = "confirm"
          /\ Continue(r, [session[r] EXCEPT !.take = QuantityOf[t]], ForEach(WhenBlocked, <<t>>))
          /\ UNCHANGED <<stock, taskStatus, itemLock, taskLock>>
       \/ /\ taskStatus[t] \notin {"completed", "cancelled"}
          /\ ~(taskStatus[t] = "blocked" /\ session[r].call.handler = "confirm")
          /\ Continue(r, session[r], Rest(r))
          /\ UNCHANGED <<stock, taskStatus, itemLock, taskLock>>

\* What a session that selected item i works with: the values it loaded first.
Selected(r, i) == [session[r] EXCEPT !.item[i] = IF @.loaded THEN @ ELSE Loaded(i)]

\* lookup_item_by_code loads the item behind the scanned code.
LoadItem(r, t) ==
    /\ At(r, "loadItem", t)
    /\ Continue(r, Selected(r, ItemOf[t]), Rest(r))
    /\ UNCHANGED <<stock, taskStatus, itemLock, taskLock>>

\* plan_outbound_picks refreshes a candidate and takes what it has; a candidate
\* with nothing available is passed over.  The session has not changed it yet,
\* unless an earlier line of the plan did: then it sees its own values.
Refresh(r, t) ==
    LET i    == ItemOf[t]
        s    == session[r]
        seen == IF itemLock[i] = r THEN s.item[i] ELSE Loaded(i)
        take == AtMost(AtLeastZero(seen.quantity - seen.reserved), QuantityOf[t])
    IN  /\ At(r, "refresh", t)
        /\ Continue(r, [s EXCEPT !.item[i] = seen, !.take = take],
                    IF take > 0 THEN Rest(r) ELSE Tail(Tail(Rest(r))))
        /\ UNCHANGED <<stock, taskStatus, itemLock, taskLock>>

\* The look-up of the reservation in reserve_for_task, consume_for_task and
\* release_for_task.  With nothing to do the item is not locked.
ReadRow(r, t) ==
    LET row  == Visible(session[r], t)
        idle == IF Head(Rest(r)).op = "reserve" THEN row.state \in {"active", "consumed"}
                                                ELSE row.state # "active"
    IN  /\ At(r, "readRow", t)
        /\ Continue(r, [session[r] EXCEPT !.row = row], IF idle THEN Tail(Rest(r)) ELSE Rest(r))
        /\ UNCHANGED <<stock, taskStatus, itemLock, taskLock>>

\* Mutant: _lock_item without FOR UPDATE.
LockFreeAlways(r, i) == TRUE

\* _lock_item does not have to wait.
LockFree(r, i) == itemLock[i] \in {Nobody, r}

LockItem(r, i) == LockFree(r, i) /\ itemLock' = [itemLock EXCEPT ![i] = r]

\* session.add and session.flush of new values for item i and the row of t.
Flush(r, s, t, i, quantity, reserved, row) ==
    LET changed == {<<i, name>> : name \in
                      {n \in {"quantity", "reserved"} :
                          \/ n = "quantity" /\ quantity # s.item[i].quantity
                          \/ n = "reserved" /\ reserved # s.item[i].reserved}}
    IN  /\ Continue(r,
               [s EXCEPT !.item[i] = [loaded |-> TRUE, quantity |-> quantity, reserved |-> reserved],
                         !.dirty   = @ \cup changed,
                         !.rows    = With(@, t, row)],
               Rest(r))
        /\ UNCHANGED <<stock, taskStatus, taskLock>>

\* The rest of reserve_for_task.  The unique constraint on the task refuses a
\* second row.
ReserveRow(r, t) ==
    LET i    == ItemOf[t]
        s    == Selected(r, i)
        seen == s.item[i]
    IN  /\ At(r, "reserve", t)
        /\ LockFree(r, i)
        /\ IF \/ s.take > AtLeastZero(seen.quantity - seen.reserved)
              \/ s.row.state = "none" /\ stock.state[t] # "none"
           THEN Rollback(r)
           ELSE /\ LockItem(r, i)
                /\ Flush(r, s, t, i, seen.quantity, seen.reserved + s.take,
                         [state |-> "active", source |-> i, amount |-> s.take])

\* The max(0, ...) of consume_for_task and release_for_task.
Less(n, m) == AtLeastZero(n - m)

\* The rest of consume_for_task.
ConsumeRow(r, t) ==
    LET i    == ItemOf[t]
        s    == Selected(r, i)
        seen == s.item[i]
        held == s.row.amount
    IN  /\ At(r, "consume", t)
        /\ LockItem(r, i)
        /\ Flush(r, s, t, i, Less(seen.quantity, held), Less(seen.reserved, held),
                 [s.row EXCEPT !.state = "consumed"])

\* The rest of release_for_task.
ReleaseRow(r, t) ==
    LET i    == ItemOf[t]
        s    == Selected(r, i)
        seen == s.item[i]
    IN  /\ At(r, "release", t)
        /\ LockItem(r, i)
        /\ Flush(r, s, t, i, seen.quantity, Less(seen.reserved, s.row.amount),
                 [s.row EXCEPT !.state = "released"])

\* The flush that writes the status of the task.
WriteTask(r, t, new) ==
    /\ At(r, new, t)
    /\ taskLock[t] \in {Nobody, r}
    /\ taskLock' = [taskLock EXCEPT ![t] = r]
    /\ Continue(r, [session[r] EXCEPT !.tasks = With(@, t, new)], Rest(r))
    /\ UNCHANGED <<stock, taskStatus, itemLock>>

\* session.commit
Commit(r) ==
    LET s == session[r]
    IN  /\ Running(r) /\ s.todo = <<>>
        /\ stock' = [quantity |-> [i \in Item |-> IF <<i, "quantity">> \in s.dirty
                                                  THEN s.item[i].quantity ELSE stock.quantity[i]],
                     reserved |-> [i \in Item |-> IF <<i, "reserved">> \in s.dirty
                                                  THEN s.item[i].reserved ELSE stock.reserved[i]],
                     state    |-> [t \in Task |-> Visible(s, t).state],
                     source   |-> [t \in Task |-> Visible(s, t).source],
                     amount   |-> [t \in Task |-> Visible(s, t).amount]]
        /\ taskStatus' = [t \in Task |-> IF t \in DOMAIN s.tasks THEN s.tasks[t] ELSE taskStatus[t]]
        /\ EndSession(r)

\* Who r waits for.
WaitsFor(r) ==
    IF ~Running(r) \/ session[r].todo = <<>> THEN {}
    ELSE LET next   == Head(session[r].todo)
             holder == CASE next.op \in {"reserve", "consume", "release"} -> itemLock[ItemOf[next.task]]
                         [] next.op \in {"completed", "cancelled", "blocked"} -> taskLock[next.task]
                         [] OTHER -> Nobody
         IN  {holder} \ {Nobody, r}

\* The requests R wait for each other.
Cycle(R) ==
    /\ R # {}
    /\ \A q \in R : WaitsFor(q) \cap R # {} /\ \E p \in R : q \in WaitsFor(p)

\* PostgreSQL aborts a transaction of a deadlock.
Abort(r) == /\ \E R \in SUBSET Request : r \in R /\ Cycle(R)
            /\ Rollback(r)

Statement(r) ==
    \E t \in Task :
        \/ ReadTask(r, t) \/ LoadItem(r, t) \/ Refresh(r, t) \/ ReadRow(r, t)
        \/ ReserveRow(r, t) \/ ConsumeRow(r, t) \/ ReleaseRow(r, t)
        \/ \E new \in {"completed", "cancelled", "blocked"} : WriteTask(r, t, new)

TxNext == \E r \in Request : Statement(r) \/ Commit(r) \/ Abort(r)

TxSpec == TxInit /\ [][TxNext]_txVars

-----------------------------------------------------------------------------
(* Properties *)

\* A request that locks items before tasks, or several items: a plan, an incident,
\* the scan of a blocked task, which reserves first.
LocksItemsFirst(r) == session[r].call.handler \in {"plan", "no_stock"} \/ session[r].take # 0

\* Scans and status changes lock their task, then its item, and no more: whatever runs
\* at once, each deadlock has a plan, an incident or the scan of a blocked task in it.
DeadlocksAreItemsFirst == \A R \in SUBSET Request : Cycle(R) => \E r \in R : LocksItemsFirst(r)

TasksOf(i) == {t \in Task : ItemOf[t] = i}

\* Items of which tasks are scanned, completed and cancelled, but not planned or reported.
PickedItems ==
    {i \in Item : \A c \in Calls :
        c.handler \in {"plan", "no_stock"} => \A n \in DOMAIN c.tasks : ItemOf[c.tasks[n]] # i}

\* A scan may lose the write-off of another (lookup_item_by_code loads the item before it is
\* locked), but the error is to the safe side: no reservation is taken off the shelf or off
\* the counter twice, so what is left is enough for whoever is still to pick.
NeverTakenTwice ==
    \A i \in PickedItems :
        /\ stock.quantity[i] + Total(stock.amount, {t \in TasksOf(i) : stock.state[t] = "consumed"})
             >= Shelf[i]
        /\ stock.reserved[i] >= Total(stock.amount, {t \in TasksOf(i) : stock.state[t] = "active"})

\* Items whose tasks are completed and cancelled by PATCH only, and their part of a ledger.
PatchedItems ==
    {i \in Item : \A c \in Calls :
        c.handler \notin {"complete", "cancel"} => \A n \in DOMAIN c.tasks : ItemOf[c.tasks[n]] # i}

PatchedTasks == {t \in Task : ItemOf[t] \in PatchedItems}

PatchedPart(s) ==
    [quantity |-> [i \in PatchedItems |-> s.quantity[i]],
     reserved |-> [i \in PatchedItems |-> s.reserved[i]],
     state    |-> [t \in PatchedTasks |-> s.state[t]],
     source   |-> [t \in PatchedTasks |-> s.source[t]],
     amount   |-> [t \in PatchedTasks |-> s.amount[t]]]

\* What the service does with these items when each call runs alone.
Service == INSTANCE ItemReservation
             WITH Item <- PatchedItems, Task <- PatchedTasks, stock <- PatchedPart(stock),
                  Shelf <- [i \in PatchedItems |-> Shelf[i]], Found <- PatchedPart(StockBefore),
                  Edited <- {}, CountedFacts <- {}, Requested <- {QuantityOf[t] : t \in Task}

\* Of items whose tasks are completed and cancelled by PATCH only, the service is atomic:
\* whatever the interleaving, their rows evolve as if each call had run alone.  Not so with
\* the other callers: a plan and a scan have loaded the item before they lock it, and an
\* incident has looked its row up.
AtomicService == Service!ServiceSpec

=============================================================================

----------------------------- MODULE OutboundTx -----------------------------
(***************************************************************************)
(* Requests about one outbound order that overlap: scans and incidents of  *)
(* its picks, patches of its pick tasks and of the order, packing and      *)
(* shipping.  Models the handlers of module Outbound statement by          *)
(* statement, as READ COMMITTED and SQLAlchemy's unit of work run them:    *)
(*  - a request loads the order and its task once, without a lock, and     *)
(*    works on these copies until it commits;                              *)
(*  - a flush writes the attributes that are not what was loaded, whole:   *)
(*    the lines of an order are one JSON column, picked counters included. *)
(*    It locks the rows until the request ends;                            *)
(*  - a SELECT of the tasks sees what is committed, and the request's own  *)
(*    task as the request has it.                                          *)
(*                                                                         *)
(* Left out: stock (see ReservationTx), order.extra with its copies of the *)
(* incidents, planning of new picks, deletion of the order.  A request     *)
(* takes the locks of the rows it writes in one step, since nobody sees    *)
(* what it does between them.                                              *)
(***************************************************************************)
EXTENDS Totals

CONSTANTS
    Pick,               \* the pick tasks of the order
    OrderLine,          \* its lines
    LineOf,             \* the line of a pick
    Worker,             \* requests at work
    ScanQuantity,       \* quantities a scan confirms
    PatchedPickStatus,  \* statuses PATCH /warehouse-tasks/{id} writes
    PatchedStatus,      \* statuses PATCH /outbound-orders/{id} writes
    NoPick,             \* what a request about no pick is about
    MaxRequests         \* bound: requests that ever begin

ASSUME PickAssumption == IsFiniteSet(Pick) /\ Pick # {} /\ LineOf \in [Pick -> OrderLine] /\ NoPick \notin Pick
ASSUME ScanAssumption == ScanQuantity \subseteq Nat \ {0} /\ MaxRequests \in Nat

VARIABLES
    orderRow,   \* the order as it is committed
    pickRow,    \* the tasks as they are committed
    work,       \* what each request has loaded, changed and still to do
    scanned,    \* the most that a committed scan confirmed, per pick
    patched,    \* picks whose status was patched
    reopened,   \* picks that were done and then not
    begun       \* how many requests have begun

rowVars == <<orderRow, pickRow, work, scanned, patched, reopened, begun>>

DonePick   == {"completed", "cancelled"}                          \* DONE_TASK_STATUSES
ScanStatus == {"pending", "in_progress", "blocked"}               \* accepted by confirm_pick
Ended      == {"shipped", "closed", "cancelled"}                  \* TERMINAL_STATUSES
NotSynced  == Ended \cup {"packed"}

PickStatus == {"pending", "blocked", "completed"} \cup PatchedPickStatus
OrderStatuses == {"picking", "picking_complete", "packed", "shipped"} \cup PatchedStatus

\* The attributes of an order that requests write.
OrderCopy == [status : OrderStatuses, picked : [OrderLine -> Nat]]

PickCopy == [status : PickStatus, confirmed : Nat]      \* confirmed 0: no confirmed_at

Work ==
    [kind     : {"none", "scan", "incident", "patch", "pack", "ship", "status", "lines"},
     step     : {"idle", "task", "write", "order", "check", "select", "commit"},
     pick     : Pick \cup {NoPick},
     quantity : Nat,                            \* of a scan
     status   : PickStatus,                     \* of a patch
     found    : PickStatus,                     \* the status a patch found
     seen     : OrderCopy,                      \* the order, as the request has it
     wrote    : SUBSET {"status", "lines"}]     \* the attributes of it that changed

NothingPicked == [l \in OrderLine |-> 0]

Idle == [kind |-> "none", step |-> "idle", pick |-> NoPick, quantity |-> 0, status |-> "pending",
         found |-> "pending", seen |-> [status |-> "picking", picked |-> NothingPicked],
         wrote |-> {}]

\* The order has just been planned.
RowsInit ==
    /\ orderRow = [status |-> "picking", picked |-> NothingPicked]
    /\ pickRow  = [p \in Pick |-> [status |-> "pending", confirmed |-> 0]]
    /\ work     = [w \in Worker |-> Idle]
    /\ scanned  = [p \in Pick |-> 0]
    /\ patched  = {}
    /\ reopened = {}
    /\ begun    = 0

-----------------------------------------------------------------------------
(* What a request knows, and its locks                                     *)

\* The copy after its status is set; setting the value it has changes nothing.
WithOrderStatus(c, status) ==
    IF status = c.seen.status THEN c
    ELSE [c EXCEPT !.seen.status = status, !.wrote = @ \cup {"status"}]

\* The tasks as a SELECT returns them to request w.
SelectedStatus(w, p) ==
    IF p # work[w].pick THEN pickRow[p].status
    ELSE IF work[w].kind = "scan" THEN "completed" ELSE work[w].status

AllPicksDone(w) == \A p \in Pick : SelectedStatus(w, p) \in DonePick

\* Requests between the flush of their task, or of the order, and their end.
LocksPick(w, p) ==
    /\ work[w].pick = p
    /\ \/ work[w].kind = "scan"  /\ work[w].step \in {"select", "commit"}
       \/ work[w].kind = "patch" /\ work[w].step \in {"order", "select", "commit"}

LocksOrder(w) == work[w].kind = "scan" /\ work[w].step \in {"select", "commit"}

PickFree(w, p) == \A v \in Worker \ {w} : ~LocksPick(v, p)

\* Mutant: nothing of the order is flushed before the SELECT of the tasks.
OrderNotFlushed(w) == TRUE

OrderFree(w) == \A v \in Worker \ {w} : ~LocksOrder(v)

AtStep(w, kind, step) == work[w].kind = kind /\ work[w].step = step

\* w begins with the work c.
Begin(w, c, step) ==
    /\ work[w] = Idle
    /\ begun < MaxRequests
    /\ begun' = begun + 1
    /\ work'  = [work EXCEPT ![w] = [c EXCEPT !.step = step]]
    /\ UNCHANGED <<orderRow, pickRow, scanned, patched, reopened>>

\* w goes on with what it knows now.
Becomes(w, c, step) ==
    /\ work' = [work EXCEPT ![w] = [c EXCEPT !.step = step]]
    /\ UNCHANGED <<orderRow, pickRow, scanned, patched, reopened, begun>>

Quit(w) ==
    /\ work' = [work EXCEPT ![w] = Idle]
    /\ UNCHANGED <<orderRow, pickRow, scanned, patched, reopened, begun>>

\* A request that begins by loading the order.
WithOrder(kind) == [Idle EXCEPT !.kind = kind, !.seen = orderRow]

-----------------------------------------------------------------------------
(* confirm_pick                                                            *)

StartScan(w, p, n) ==
    /\ orderRow.status \notin Ended
    /\ Begin(w, [WithOrder("scan") EXCEPT !.pick = p, !.quantity = n], "task")

StartIncident(w, p) ==
    /\ orderRow.status \notin Ended
    /\ Begin(w, [WithOrder("incident") EXCEPT !.pick = p], "task")

\* A scan of a finished pick ends here: a repeated one with success.
LoadScanned(w) ==
    /\ AtStep(w, "scan", "task")
    /\ IF pickRow[work[w].pick].status \in ScanStatus
       THEN Becomes(w, work[w], "write")
       ELSE Quit(w)

\* Mutant: the order is refreshed before it is counted in.
BumpedFresh(w) ==
    LET c == work[w]
        l == LineOf[c.pick]
    IN  WithOrderStatus([c EXCEPT !.seen.picked = [orderRow.picked EXCEPT ![l] = @ + c.quantity],
                                  !.wrote = @ \cup {"lines"}],
                        IF c.seen.status = "open" THEN "picking" ELSE c.seen.status)

\* _bump_line_picked on the copy of the order, whose status moves on.
Bumped(w) ==
    LET c == work[w]
        l == LineOf[c.pick]
    IN  WithOrderStatus([c EXCEPT !.seen.picked[l] = @ + c.quantity, !.wrote = @ \cup {"lines"}],
                        IF c.seen.status = "open" THEN "picking" ELSE c.seen.status)

\* The flush of the task, then that of the order which the domain event brings about.
FlushScan(w) ==
    /\ AtStep(w, "scan", "write")
    /\ PickFree(w, work[w].pick)
    /\ OrderFree(w)
    /\ Becomes(w, Bumped(w), "select")

\* An incident is refused for a finished pick only.
LoadIncident(w) ==
    LET c == work[w]
    IN  /\ AtStep(w, "incident", "task")
        /\ IF pickRow[c.pick].status \in DonePick
           THEN Quit(w)
           ELSE Becomes(w, IF c.seen.status \in {"open", "picking_complete"}
                           THEN WithOrderStatus(c, "picking") ELSE c, "commit")

-----------------------------------------------------------------------------
(* patch_warehouse_task, and the synchronisation of the order              *)

StartPatch(w, p, status) ==
    /\ Begin(w, [Idle EXCEPT !.kind = "patch", !.pick = p, !.status = status,
                               !.found = pickRow[p].status], "write")

FlushPatch(w) ==
    /\ AtStep(w, "patch", "write")
    /\ PickFree(w, work[w].pick)
    /\ Becomes(w, work[w], "order")

\* find_order_for_task
LoadOrder(w) ==
    /\ AtStep(w, "patch", "order")
    /\ Becomes(w, [work[w] EXCEPT !.seen = orderRow], "select")

\* Mutant: the status of the tasks is written to the order.
SyncOrderCompleted(w) ==
    /\ work[w].step = "select"
    /\ Becomes(w, IF work[w].seen.status \notin NotSynced /\ AllPicksDone(w)
                  THEN WithOrderStatus(work[w], "completed") ELSE work[w], "commit")

\* sync_outbound_status_from_tasks
SyncOrder(w) ==
    /\ work[w].step = "select"
    /\ Becomes(w, IF work[w].seen.status \notin NotSynced /\ AllPicksDone(w)
                  THEN WithOrderStatus(work[w], "picking_complete") ELSE work[w], "commit")

-----------------------------------------------------------------------------
(* pack_order, ship_order and update_outbound_order                        *)

StartPack(w) ==
    /\ orderRow.status \notin Ended \cup {"packed"}
    /\ Begin(w, WithOrder("pack"), "check")

\* Lines and incidents may refuse it as well: then it gives up.
CheckPack(w) ==
    /\ AtStep(w, "pack", "check")
    /\ \A p \in Pick : \/ pickRow[p].status = "cancelled"
                       \/ pickRow[p].status = "completed" /\ pickRow[p].confirmed > 0
    /\ Becomes(w, WithOrderStatus(work[w], "packed"), "commit")

StartShip(w) ==
    /\ orderRow.status = "packed"
    /\ Begin(w, WithOrder("ship"), "check")

CheckShip(w) ==
    /\ AtStep(w, "ship", "check")
    /\ \A p \in Pick : pickRow[p].status \in DonePick
    /\ Becomes(w, WithOrderStatus(work[w], "shipped"), "commit")

StartStatus(w, status) ==
    /\ Begin(w, WithOrderStatus(WithOrder("status"), status), "commit")

\* The lines of the body come without counters.
StartLines(w) ==
    /\ Begin(w, [WithOrder("lines") EXCEPT !.seen.picked = NothingPicked, !.wrote = {"lines"}],
               "commit")

-----------------------------------------------------------------------------
(* The end of a request                                                    *)

\* The row of the task of w once w commits.
Committed(w) ==
    LET c == work[w]
        p == pickRow[c.pick]
    IN  CASE c.kind = "scan"     -> [status |-> "completed", confirmed |-> c.quantity]
          [] c.kind = "incident" -> [status |-> "blocked", confirmed |-> 0]
          [] c.kind = "patch"    -> IF c.status = c.found THEN p ELSE [p EXCEPT !.status = c.status]

\* session.commit: every request but a patch that changes no order has written the order.
CommitWork(w) ==
    LET c == work[w]
    IN  /\ c.step = "commit"
        /\ c.kind = "incident" => PickFree(w, c.pick)
        /\ c.kind # "patch" \/ c.wrote # {} => OrderFree(w)
        /\ orderRow' = [status |-> IF "status" \in c.wrote THEN c.seen.status ELSE orderRow.status,
                        picked |-> IF "lines" \in c.wrote THEN c.seen.picked ELSE orderRow.picked]
        /\ pickRow'  = [p \in Pick |-> IF p = c.pick THEN Committed(w) ELSE pickRow[p]]
        /\ scanned'  = [p \in Pick |-> IF c.kind = "scan" /\ p = c.pick /\ c.quantity > scanned[p]
                                       THEN c.quantity ELSE scanned[p]]
        /\ patched'  = IF c.kind = "patch" THEN patched \cup {c.pick} ELSE patched
        /\ reopened' = reopened \cup {p \in Pick : /\ pickRow[p].status \in DonePick
                                                   /\ pickRow'[p].status \notin DonePick}
        /\ work'     = [work EXCEPT ![w] = Idle]
        /\ UNCHANGED begun

\* An HTTP error, a deadlock, a lost connection: session.rollback.
GiveUp(w) == work[w] # Idle /\ Quit(w)

RowsNext ==
    \E w \in Worker :
        \/ \E p \in Pick :
              \/ \E n \in ScanQuantity : StartScan(w, p, n)
              \/ StartIncident(w, p)
              \/ \E status \in PatchedPickStatus : StartPatch(w, p, status)
        \/ \E status \in PatchedStatus : StartStatus(w, status)
        \/ StartLines(w) \/ StartPack(w) \/ StartShip(w)
        \/ LoadScanned(w) \/ FlushScan(w) \/ LoadIncident(w)
        \/ FlushPatch(w) \/ LoadOrder(w) \/ SyncOrder(w)
        \/ CheckPack(w) \/ CheckShip(w)
        \/ CommitWork(w) \/ GiveUp(w)

RowsSpec == RowsInit /\ [][RowsNext]_rowVars

-----------------------------------------------------------------------------
(* Properties *)

\* Type invariant.
RowsTypeOK ==
    /\ orderRow \in OrderCopy
    /\ pickRow \in [Pick -> PickCopy]
    /\ work \in [Worker -> Work]
    /\ scanned \in [Pick -> Nat]
    /\ patched \subseteq Pick
    /\ reopened \subseteq Pick
    /\ begun \in Nat

\* The picks of a line.
PicksOf(l) == {p \in Pick : LineOf[p] = l}

\* A pick is counted once: however often and with whatever quantities its scan is
\* repeated, at the same time or later, the counter of a line does not exceed what
\* its picks were scanned for.  (It may be less: of two scans of different picks
\* that overlap, one is lost.)  Only a pick that was taken back after it was
\* finished, by a patch or by an incident that did not see it finished, may count twice.
CountedOnce ==
    \A l \in OrderLine :
        PicksOf(l) \cap reopened = {} => orderRow.picked[l] <= Total(scanned, PicksOf(l))

\* The last scan takes the order past picking, whichever of the overlapping ones it
\* is.  Patches of tasks do not lock the order before they look at the other tasks,
\* so the claim is about orders all of whose picks were finished by scans.
LastScanIsNoticed ==
    /\ \A p \in Pick : pickRow[p].status = "completed"
    /\ patched \cup reopened = {}
    => orderRow.status \notin {"open", "picking"}

\* What the comment in patch_warehouse_task says, of patches too: the status of the
\* order follows its tasks.
OrderFollowsTasks ==
    (\A p \in Pick : pickRow[p].status \in DonePick) => orderRow.status \notin {"open", "picking"}

=============================================================================

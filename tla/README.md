# Formal models of the warehouse system

TLA+ models of the control logic of the backend (`src/backend/app`: FastAPI,
SQLModel on PostgreSQL, asyncio workers, the simulator's runtime) and of the
parts of the frontend (`src/frontend/src`: React, TanStack Query) that keep state
of their own over several steps; the TLC configurations that check them on small
instances, and proofs that TLAPS checks for every instance. Python paths below
are relative to `backend/app`, TypeScript paths to `frontend/src`.

Everything here is translated from the code. Documents and comments were only
used to learn what the code is meant to promise.

    tlc -config ReservationWriters.cfg MCItemReservation      # a run
    tlapm EventsProofs.tla                                    # a proof

`PROJECT.json` holds the machine-readable side of this file: components, runs,
mutants, the lines each definition stands for, findings, hazards, theorems.

## 1. The system

The backend keeps everything in PostgreSQL. Requests are threads with one
session each (READ COMMITTED, commit at the end of the handler); the worker
process runs asyncio loops that each open a session per tick; the simulator is an
in-memory asyncio runtime with its own outbox. Redis carries pub/sub messages,
locks and rate limits, never rows. The browser caches what queries returned,
hears over two SSE streams that something changed, and keeps an offline queue of
picks in localStorage.

| Component | State | Operations | Talks to |
|---|---|---|---|
| Stock reservations `services/item_reservation.py` | `Item.quantity`, `Item.reserved_quantity`, `item_reservation` rows (one per task) | reserve, consume, release, apply a task status | called by outbound, tasks; the item row is also written by items and counting |
| Outbound `services/outbound_planning.py`, `outbound_ops.py`, `outbound_fulfillment.py`, routes | `outbound_order` (status, lines with picked counters, `extra.fulfillment`), pick tasks | create/patch/delete order, plan picks, confirm pick (ok / no_stock / alternative), pack, ship | reservations, items, lots, tasks |
| Pick waves `services/outbound_wave.py` | wave, task payload `planned_via` | plan, release, finish | outbound planning |
| Warehouse tasks `api/routes/warehouse_tasks.py` | `warehouse_task` | create, patch status | reservations, outbound status |
| Items, lots `api/routes/items.py`, `services/lot_fefo.py` | item row, lots | create, patch, status chain, delete, FEFO order, expiry | everything above |
| Operator terminal `lib/operatorPickQueue.ts`, `hooks/useOperatorPickQueue.ts`, `components/warehouse/OperatorTaskScanDialog.tsx`, `OperatorMyTasksList.tsx` | step of the scan dialog, calls on their way, queue in localStorage | scan, confirm, report an incident, enqueue, flush | confirm_pick of outbound |
| Domain events and outbox `services/domain_events.py`, `outbox_dispatch.py`, `worker/outbox_loop.py` | `domain_event`, `event_outbox`, `projection_consumer_processed` | emit, dispatch a batch, dead letter, replay | consumers |
| Projections `projections/consumers.py`, `warehouse_slot_projection.py` | twin read models, slot occupancy | handlers per event, replay, reconcile | outbox |
| Twin stream `realtime/twin_stream_hub.py`, `hooks/useTwinRealtime.ts` | debounce timers, history, subscribers' queues; pending tags, queries | publish, flush, subscribe, replay; invalidate, fetch | every handler that publishes; the queries of the pages |
| Simulator stream `warehouse_sim/runtime.py`, `delta.py`, `realtime/sse_common.py`, `components/deviceServer/simStore.ts` | version, last snapshots, subscribers' queues; the client's view and revision | build, emit, publish, subscribe since a revision; merge, answer of a control request | simulator, 3D scene |
| Chat assistant (not modelled) `contexts/AssistantSessionContext.tsx`, `routes/_layout/assistant.tsx` | active chat, messages on the screen, abort controller, typed-out answer, locks | send (with files), stop, retry, choose, create, delete a chat | `/ai` routes, queries of chats |
| Inventory counting `services/inventory_counting.py` | counts, facts, acts | create, enter, post act | item rows |
| Inbound `services/inbound_receiving.py`, `inbound_planning.py`, `putaway_strategy.py` | inbound orders with their lines, put-away tasks | receive a line, patch, close, delete, suggest a cell, plan put-away, follow the tasks | items, slots |
| Event retention `services/event_retention.py` | the same tables by age | archive, prune | outbox, projections |
| Integration inbox `services/integration_inbox_processor.py`, `_handlers.py` | `integration_inbox` | ingest, take a batch, apply, mark processed or failed | tasks, slots, equipment, events |
| Simulator `warehouse_sim/` | vehicles, tasks, edge reservations, slots, outbox | tick, dispatch, traffic, integrate | warehouse database |
| Work orders and maintenance | work orders, schedules, parts | status machine, conflicts, auto creation | equipment, personnel |
| Agent `services/agent_*.py`, `agent/` | pending actions, jobs, rate limits | propose, confirm, execute, claim a job | every API above |
| Rest of the backend: users, audit, catalogues, reports, KPI | CRUD rows | CRUD, read | |
| Rest of the frontend: tables, forms, charts, 3D scene, generated client | what queries returned | render, one request per button | the API |

### What is hard, and what makes it correct

* **Reservations.** Correct means: the counter on the item is the sum of its
  active reservations, that sum never exceeds the shelf, the shelf loses exactly
  what was confirmed, a written-off reservation is final. Hard: concurrent
  transactions that read before they lock, reused rows, other writers.
* **Outbound.** Correct means: stock is held exactly for open work, the picked
  counters say what was scanned, no short order leaves, a shipped order stays
  shipped, an incident is known on both sides, the order follows its picks. Hard: scans,
  incidents, patches, re-planning and deletion in any order over four tables; requests
  that overlap, since the order is read without a lock and its JSON columns are written
  back whole. Not all of it holds (section 5).
* **Operator terminal.** Correct means: a pick that was queued is kept until it is
  sent, picks go out in order and in the end, none is confirmed past an unscanned
  slot. Hard: flushes that overlap, calls that outlive their dialog, a page
  that is reloaded in the middle, a network that comes and goes.
* **Events.** Correct means: each event has one effect per consumer, a completed
  row was delivered everywhere, a replay loses nothing, the queue drains. Hard:
  several dispatchers with SKIP LOCKED, handlers that raise, crashes in the
  middle of a batch, a replay whose statements each see another snapshot.
* **Twin stream.** Correct means: a query that no longer shows what is committed
  will be fetched again. Hard: commit, publication, two timers, a history with a
  window, a bounded queue, a connection that breaks, fetches in flight, restarts.
* **Simulator stream.** Correct means: a connected client ends with the rows of the
  server. Hard: deltas without a check of their base, control requests that overtake
  the tick, a queue that drops, reconnection by revision, a restart, late answers.
* **Inbox.** Correct means: a message is applied once, in the order of the messages of
  its task, or given up for a reason. Hard: one commit of a batch gives back the locks of
  all its rows, so that another worker meets the rest of them; rollbacks, deadlocks and
  workers that die between the commits.
* **Inbound.** Correct means: a line is received once, gets one put-away task, and the
  order is closed when, and only when, everything is received and put away. Hard:
  requests read the order without a lock and write all its lines back; the item to top
  up is read without a lock too; the order follows tasks that other requests finish.
* **Counting.** Correct means: an act is posted once, its facts stay afterwards, its events
  tell what the stock changed by. Hard: the act is read without a lock, the items move
  between count and posting.
* **Simulator** (only its stream is modelled): no two vehicles hold one edge, no task is
  lost between dispatch, failure and its outbox.

## 2. The modules

```
Totals --- OutboundTx --------- MCOutboundTx            StockProofs (of all five)
  |
Stock ---- ItemReservation ---- MCItemReservation
  |  \            ^
  |   \           | AtomicService (INSTANCE, refinement)
  |    ReservationTx ---------- MCReservationTx
  |
Outbound ---------------------- MCOutbound

OperatorTerminal -------------- MCOperatorTerminal      OperatorTerminalProofs
Events ------------------------ MCEvents                EventsProofs
TwinStream -------------------- MCTwinStream            TwinStreamProofs
Inbox ------------------------- MCInbox                 InboxProofs
Receiving --------------------- MCReceiving             ReceivingProofs
Counting ---------------------- MCCounting              CountingProofs
SimStream --------------------- MCSimStream             SimStreamProofs
```

**Stock** is the ledger: a record with the shelf quantity and the counter of every
item and with state, item and quantity of the one reservation row of every task.
The functions of `item_reservation.py` are functions from ledger to ledger
(`Reserve`, `Consume`, `Release`, `ApplyStatus`), their error paths are the
guards `CanReserve`, `CanReserveAll`. The module declares what the modules above it
share: the variable `stock`, and `Shelf`, the quantities before any order. **Totals**
defines sums as cardinalities of sets of units (`Total`), so that they can be proved about
without recursion.

**ItemReservation** lets any task call any function at any time (`ServiceSpec`),
and adds the two writers of the item row outside the service (`WritersSpec`): the
quantity edit of `PATCH /items/{id}` and the posting of a count line. It starts from any
ledger that keeps the laws (`Found`). It is the abstract specification of the service.

**ReservationTx** is the detailed one: each request is a session that runs the
statements of its handler one at a time, among others. It keeps what decides the
outcome: row locks held to the end, SELECTs that see committed data and the
session's own writes, the identity map of SQLAlchemy (a row already loaded keeps
its attributes when it is selected again, `_lock_item` does not ask for
`populate_existing`), flushes that write absolute values, the deadlock detector.
A request is one of the five handlers that call the service: a plan, with its lines in
order; a scan; a `no_stock` answer; `PATCH` with `completed` and with `cancelled`
(`Statements`). A scan that finds its task blocked reserves for it first (`WhenBlocked`).
`PlannedBefore` are the tasks reserved when the requests arrive. Three properties:

* `AtomicService`: the committed ledger `stock` implements `ItemReservation!ServiceSpec`,
  one whole call at a time, on the items whose tasks are only completed and cancelled by
  `PATCH` (`PatchedItems`), whatever runs on other items. `PATCH` writes the row of its task
  before it looks at anything else and has no item in its session when it locks it. The
  other handlers are not atomic: a plan and a scan have loaded the item before they lock it,
  an incident has looked its row up (section 5).
* `NeverTakenTwice`: what is left where scans are not atomic. On an item that is scanned,
  completed and cancelled but neither planned nor reported missing meanwhile, write-offs of
  concurrent scans get lost, but no unit is taken off the shelf or off the counter twice.
* `DeadlocksAreItemsFirst`: a cycle of waits has a request in it that locks items first or
  several of them (a plan, an incident, the scan of a blocked task).

**Outbound** has one action per handler, whole, on four variables: `stock` (the
ledger), `item` (status, slot, expiry), `task` (pick tasks) and `order`. It is about
handlers that run **one at a time**; the code does not enforce that, and what it says of an
order holds of requests that do not overlap. `PATCH` of an order replaces any of status,
lines (with their picked counters) and `extra` (with the incidents, the shortages and the
fact of packing kept in it) by what the body says, then plans; `POST` takes the status from
the body too. A pick
task is named by order, line and the item it was planned for: `planned_bases`
plans a line at most once, with at most one task per candidate. A rejected
request changes nothing and is a stuttering step. `PlanPicks` states the greedy
result of the planning loop (each candidate gives what it still has or what the
line still lacks) instead of looping.

**OutboundTx** is about requests of one order that overlap, statement by statement. A
request loads the order, and its pick task, once and without a lock (`seen`, `found`);
computes on these copies; flushes its task, and for a scan also the order, because the
domain event of the pick is inserted and flushed before
`sync_outbound_status_from_tasks` selects the tasks (`OrderFree`); and commits the
attributes that are not what it loaded, whole (`wrote`; the lines of an order are one JSON
column). A `SELECT` of the tasks sees what is committed and the request's own task. Its
requests are scans and incidents, `PATCH` of a task, of the status and of the lines of the
order, packing and shipping; any of them may end in an error at any point (`GiveUp`).
History variables: `scanned`, the largest quantity a committed scan of a pick confirmed;
`patched`, picks whose status was patched; `reopened`, picks that were done and then were
not. What survives the overlapping:

* `CountedOnce`: the counter of a line never exceeds what its picks were scanned for: a
  scan that is repeated, late or at the same time is not counted again. It may be less, for
  counter updates are lost. Lines with a reopened pick are exempt: one that was taken back
  by a patch, or by an incident that did not see the scan, is counted again when it is
  scanned again.
* `LastScanIsNoticed`: when every pick was finished by a scan, the order is past picking,
  whichever overlapping scan was the last. It is claimed of orders none of whose picks was
  patched or reopened; for the others it fails (section 5).

**OperatorTerminal** has the dialog (`screen`: step, whether the slot was scanned,
loading), the runs of `submitPick` that wait for an answer (`call`, with whether
the dialog on the screen is the one that made it), the queue in localStorage and
the copy each run of `flushOperatorPickQueue` works on (`flush`). A pick is its
number in the queue. `FlushStops` writes the copy back whatever the queue holds by
then; `FlushAccepted` of the last pick writes an empty one; `Reload` loses all but the
queue. The server accepts or refuses at will: what it makes of a pick is Outbound's.

**Events** has the outbox, the claims, two read models and the open transactions:
`tx[w]` is the batch of a dispatcher, kept apart until its commit, and `replay`
the request that empties and refills the tables, one action per statement. The
two consumers stand for the two kinds among the six: the timeline inserts a row
per event and leaves an existing one alone, the pose overwrites the row of its
vehicle (so do queue depth, task state, alerts). An event is the number of its
place by `created_at`; integrations send their own `occurred_at`, so events are
emitted in any order. A replay says whose claims it clears (`names`, the
`consumer_names` of the request; `Named` are those asked for), but purges all read models:
`wiped` is history, the vehicles whose pose such a replay took without clearing the claims
that would bring it back.

**TwinStream** follows a change from its commit to the query that shows it. `world[q]`
counts the commits query q depends on, `cached[q]` those its data show. Between them:
`owed` (committed, not yet published), `dirty` (the hub's debounce timer), `history`
(what a client that comes back is sent), `queue` and `replay` (unread), `tags`
(pending invalidations, with their timer), `phase` and `seen` (the fetch, and what the
server read for it). `missed` is a history variable: a step that is known to lose
wake-ups (a commit nobody announces, a full queue, a message too old) names the
queries it may lose one of, and those that have another on its way are taken out.

**SimStream** has versions, the last snapshots and the frames of the tick that are built
under the lock and emitted after it (`pending`), the frames the subscriber has not read
(`start`, `queue`), and the client's `view` and revision (`since`). A snapshot of a kind is
one row with a value that no other build repeats. `lossy` is the history variable of
this module: kinds of which something was lost that no later delta repeats.

**Inbox** has the status of each row (`row`), the message the status of each task comes
from (`task`), the committed runs of each handler (`applied`, the domain events), and what
every worker is doing (`at`: its phase in the loop's body, the rows of its batch it has
not come to, the locks it holds, whether it found the task). A message is its place by
`created_at` and stands for one row: a key sent again is answered with the row there is,
and the unique index on source and key keeps out a second one, which is why the search for
a processed duplicate in the batch finds nothing. The transaction of a row is cut where
another worker can come between: the look at its status (`Start`, `Skip`), the look for
the task (`Look`, `Raise`), the first write with its event (`Flush`), update and commit
(`Commit`); after a rollback `Reread` and `GiveUp`. Workers wait for the row of a task and
the row of a message, the deadlock detector ends one of a cycle (`Abort`). `crossed` and
`mixed` are history: messages two workers were at work on at the same moment, and tasks
whose messages came out of order or were in two batches at once.

**Receiving** has a session per request, with the copy of the order it loaded. `lock` says
who holds the row of an order (from the flush that writes it to the end of the
transaction) or of the item in a cell. Items are named by their cell: the unique index
lets one item stand there, so an insert waits for another one that is not committed
(`InsertItem`). A receipt goes from `loaded` over `topUp` and `update`, or `insert`, to
`changed`. A receipt of 0 of a line of which 0 was ordered (`Ordered`) is refused, and
closing does not wait for such a line. The flush of the order (`Flush`) writes the status and the lines as the session
knows them, `Plan` looks for lines without a task, `Commit` shows all of it to the others.
The scores and weights of the cell strategy only choose among the cells the code accepts,
which is any of them (`Suggestions`). `entered` is history: how often the goods of a
line came into stock.

**Counting** has a session per request with the act and its lines as loaded. Entering
facts locks the row of the act, then that of the line; posting locks the items one after
the other `FOR UPDATE` and reads them then. A commit leaves of each line the attributes the
session changed (`Merged`), so facts and a posting that overlap are mixed. `Move` stands
for the picks, receipts and edits of other handlers.

The `MC` modules only define instances.

## 3. Runs

| Run | Question | Bounds and why they suffice |
|---|---|---|
| reservation_writers | What survives quantity edits and counts? | 2 items (3 units, 1 unit), 3 tasks, quantities 1-2: two tasks fit an item, the third does not; every reuse of a row. Edits to 1, 2 and counts of 0, 1, 3: below, at and above what is reserved. No symmetry: the run has an action property. Both properties are proved for all sizes, so are the types. The laws of the service alone (section 4) are proved; the run outbound checks them as `StockLaws` |
| outbound | Do reservations, tasks, orders and stock agree under scans, incidents, patches, packing, shipping, deletion, one handler at a time? | 2 orders over 2 slots of one SKU with 3 units, needs 1 or 2: one order can be served from two slots, both together cannot be served. `MaxPicked` 4 is above what a line can get. |
| outbound_changes | Are the rows well typed while users rewrite lines, status and extra of an order, items expire or are staged by hand, picks are short and a wave marks its tasks? | 1 order, 2 slots, every such change at any time; created `open` or already `picking_complete` |
| outbound_tx | What holds of the counters and the status of an order whatever requests overlap? | 1 order, 2 picks of one line (what overlaps are two picks of one row), 3 requests at once of 5 in all, scans of 1 or 2; PATCH puts a pick to `in_progress` or `cancelled` and the order to `cancelled`. With 5 requests a pick is scanned, reopened and scanned again while the other is scanned. Requests and picks are symmetric. The properties are proved without these bounds |
| reservation_tx | Under the locks of the service: are concurrent `PATCH`es atomic (refinement)? Is a unit ever taken twice where scans overlap? Which requests can deadlock? | 3 requests at once, of every handler, over 4 items: one whose two tasks (of 2 and 1 units out of 4) are patched, one whose two tasks are patched and scanned, one whose task is scanned, reported missing and cancelled, one that is only planned; two plans take the last two in opposite orders, not enough for both: they do deadlock, and so do an incident and a scan. A task may be completed twice, or completed and cancelled at once. Requests are symmetric. The second and the third question are proved for every set of requests |
| operator_terminal | Are queued picks kept, sent in order and sent in the end, and slots scanned? | 2 flushes that overlap, 1 call that outlives its dialog, 2 picks (one ahead of the other). The safety part is proved without these bounds |
| events | Exactly-once effects, complete rows, shown poses, a queue that drains | 3 events (one of no vehicle, one that raises in its second consumer, one whose vehicle is unknown), 2 dispatchers, batches of 2, 2 attempts, 2 replays, each of all consumers or of the timeline alone, 1 crash. The safety part is proved without these bounds |
| twin_stream | Is every stale query fetched again, and does it end up to date? | 2 queries (the debounced and the immediate channel), a queue of 2, 2 commits, 1 message ahead of its commit: a second commit meets every stage of the first. `WakeUpComes` is proved for every bound; 3 commits were also run (1.3 million states with the liveness property) |
| sim_stream | Does a connected client end with the rows of the server? | 2 kinds, a queue of 2, 3 versions between restarts, 1 answer that may be late, 1 restart: an overtaken frame, a dropped one, and a revision of the former run |
| inbox | Is each message applied once, in order, and never left? | 2 workers, batches of 2 of 4 messages (two that create a task, a change of it, telemetry), 1 death: a batch has a row after its first commit that another takes, both create the task at once, a victim of the detector is marked failed. No message of the run raises by itself: a change of a missing task takes the same way. The four invariants are proved without these bounds |
| receiving | Does a line get one put-away task, and its goods a cell and a task, whatever overlaps? | 1 order with 2 lines, of one of which nothing was ordered, 2 cells, 2 requests, quantities 0 and 1, capacity 2, 2 receipts, every patch and closing at any time: two writers of one row are what all the interleavings are about. 3 receipts were also run (8.2 million states). All four invariants are proved without these bounds |
| counting | Do the events of a posting tell what the stock changed by? | 2 acts over 2 items, 2 requests, items moved at any time: two postings, or a posting and a count, overlap in every order |

TLC's deadlock checking is off where a run may really stop (no request left, nothing to
deliver, every bound used up), which is everywhere but in reservation_writers.

Each property of a passing run has a mutant in the modules, a plausible mistake
in the code (a dropped guard, a lost reset, a swapped order) under which that run
finds the property violated.

**Fairness.** `Events`: weak fairness of each dispatcher,
whose loop ticks every two seconds whatever a tick raised
(`worker/outbox_loop.py:19-36`), and of the statements of an accepted replay.
The two statements of the replay that wait for rows of dispatchers
(`PurgePoses`, `DeleteRow`) are strongly fair: the waiter is woken when the row is
released, while the dispatcher that released it sleeps before its next tick.
`OperatorTerminal`: the operator comes back into coverage (weak); while picks are shown
as unsent a flush is started again and again, and a pick that is sent over and over gets
an answer, accepted or refused (strong: both are interrupted by the network and by
reloads). This is the one place where a liveness property relies on people: a flush is
started by the page when it opens and by the browser's `online` event
(`hooks/useOperatorPickQueue.ts:43-51`), but on a page that stays open and online only by
the operator, who sees the number of unsent picks and the button to send them. `QueuedIsSent`
is therefore about operators who do not ignore it for ever. `TwinStream`: weak fairness of the hub's timer, of publishing what was
committed, of reading, of the tags' timer and of fetches, which end or fail; messages so
dense that they restart a timer for ever are outside it. `SimStream`: the tick emits what
it built and a connected client reads. `Inbox`: weak fairness of each worker, whose loop
ticks every five seconds whatever the last tick raised
(`worker/agent_background_loop.py:44-55`); a worker that waits is woken when the other
commits, and a cycle is ended by the detector.  Emission, crashes, restarts, broken connections, new requests and
user input other than that are never fair, so no liveness property relies on them.
`ItemReservation`, `ReservationTx`, `Outbound`, `OutboundTx`, `Receiving` and `Counting` only
have safety properties and no fairness.

## 4. Proofs

TLAPS checks every leaf; the assumptions are the named ASSUMEs on the constants.

* **StockProofs**, the ledger: `Total` of empty sets, singletons, unions,
  changed functions; from these, that every ledger operation keeps `LedgerLaws` (types,
  counter = held, held within shelf, shelf + written off = initial shelf). Subtractions
  that the code clips at zero are shown never to need the clip.
* The service: `ServiceSpec => []` of the three laws, with
  `LedgerLaws` as the inductive invariant (each law needs the other: without
  "counter = held", `max(0, ...)` could hide a loss). For `WritersSpec`, with the other
  writers: type correctness, that a written-off reservation is final, and that the
  counter never exceeds the active reservations (`ReservedAtMostHeldTheorem`): the clip
  and the count only lower it, and every call changes both by the same amount or the
  counter by more downwards.
* The transactions, for every set of requests, tasks and items: `TxInv` says of each
  session where it stands. One that locks its task first (a scan, a status change) holds the
  lock of that task from its write on and locks its item last, with nothing left to
  wait for (`DeadlocksAreItemsFirst`). On an item that is only picked from, the row such a
  session has looked up is still active until it commits, since every other writer of
  that row waits for the task; and the quantity and counter it will write, from values
  loaded at whatever time, fall short of the laws by no more than the reservation it closes
  (`Wrote`), since older values are only larger. So `shelf + written off >= initial shelf` and
  `counter >= active reservations` are inductive (`RowsOK`, which is `NeverTakenTwice`).
  `AtomicService` is only model-checked: it holds of fewer handlers than the code has, and a
  refinement proved for these would say less than the two theorems.
* Overlapping requests about an order: `RowsInv` adds to the types and the two
  properties what a request knows. For `CountedOnce`: a copy of the
  order counts no more on a line than its picks were scanned for, and once a scan found its
  task open what the copy counts are scans of the other picks (`ScannedIsDone`: a pick
  with a committed scan is done, or was reopened), so its own quantity may be added,
  whatever another scan of the same pick commits meanwhile. For `LastScanIsNoticed`: a scan that selects the tasks
  holds the row of the order from its flush, so of two scans one selects after the other
  committed and sees both; and a status that is not "open" or "picking" is never written back to
  these but by incidents, which reopen their pick or leave it unfinished. Assumed: `PATCH` of
  an order writes only final statuses (`PatchedStatus \subseteq Ended`; a user who writes
  "picking" by hand gets it). `Pick` is finite and not empty.
* Outbound orders, one handler at a time: `IInv` = types, `StockLaws`,
  `NewTasksHoldNothing` (a task that does not exist has no reservation row, or planning could
  meet an old one) and `ReservationFollowsTask`, one lemma per action. `ShippedIsFinal`
  assumes that nobody writes order statuses by hand (`PatchedOrderStatus = {}`), and
  `ShippedIsPicked` also that orders are created open and that there are no waves (the
  feature flag `outbound_wave_picking` is off by default, `services/feature_flags.py`): there
  every pick keeps its mark `outbound_planning`, so the gate of `ship_order` sees them all.
* **OperatorTerminalProofs**: types, `KeptUntilSent`, `SentInOrder` and `SlotIsScanned`,
  for any number of flushes, calls and picks. The type invariant says also that the dialog
  waits only where it submits. The strengthening says that the steps
  after the scan of the slot are reached with it scanned (`ConfirmIsScanned`), and that every copy a flush works on holds all quiet picks not yet accepted, which is why
  overlapping flushes may overwrite each other without a loss of these.
* **EventsProofs**: `IInv` says that a row in a batch is pending and in no other
  batch, that a dispatcher claims what it ran and what is not yet claimed, that
  rows to be completed have all their claims, that the poses of a batch are
  none the replay deletes, and, of a replay that names the consumer of poses, that claims it has
  not seen are for poses that are there and that it keeps. The step that needs all of it is
  the commit of the replay: it waited for every row, so no batch is left. What
  `ClaimedPoseIsShown` excludes are the poses in `wiped`: those that a replay took without
  naming their consumer.
* **TwinStreamProofs**: `WakeUpComes` for every bound. Its inductive invariant adds
  `Quiet` (a client that is not connected has nothing to read: a broken connection must
  not be able to lose what was replayed) and `Forward` (what is cached was read by an
  earlier or the same fetch, so that a fetch which ends never takes data back).
* **InboxProofs**: types and locks, and `AppliedOnce`, for any number of messages,
  tasks, workers and deaths. The inductive invariant `OnceInv` adds that two workers at
  work on one message have crossed (`Apart`) and that a message worked on without crossing
  is pending all the while (`WorkedIsPending`): without them nothing would keep a second
  commit of the row away once the locks are gone. `AloneTheorem`: with one worker nothing
  ever crosses, so no message takes effect twice.
  `TaskFollowsOrder` and `FailedForCause`: `OrderInv` adds `InTurn`
  (while a message of an unmixed task is pending, none after it is done with, and a batch
  that has one after it has it too), `OneBatch` and `CrossedIsMixed` (two workers that
  meet have mixed the task), `FoundIsSo` (what a worker found of its task still holds when
  it writes) and `RollbackHasCause`. A deadlock needs two workers with one task
  (`DeadlockIsMixed`), so its victims are not among the messages that could be applied.
* **ReceivingProofs**: types, `OnePutaway`, `GoodsHaveTask` and `NewItemIsAlone`, for any number of orders, lines, cells and
  requests. `IInv` adds of every session (`Good`) that who plans, or has planned, holds the
  row of the order from its flush to its commit and plans for lines without a task, and
  that what a session would write as received has a task already, or gets one in the same
  commit; and that who has written an item holds its cell, which a new item finds empty.
  The assumption `PatchAssumption` says that nobody writes the marks of a receipt
  by hand with PATCH.
* **SimStreamProofs**: types and `InSync`, for any number of kinds, versions and restarts
  and any length of the queue. `StreamInv` adds that one frame at most waits per kind, and
  none is ahead of the version counter (`FramesKnown`), that the counter is the version
  built last and a client of this run is not ahead of it either (`VersionsAgree`), and that
  for each kind of which nothing was lost, what the client shows followed by what is on its
  way ends with the last snapshot (`Comes`). That is claimed of a broken connection too (`Following`) while the client keeps
  a revision of this run that is not overtaken: it will be sent nothing when it comes back,
  so what was in step at the break must still be.
* **CountingProofs**: `EventsTellChange`, for any number of acts, items and requests.
  `CountInv` says of a session that posts: it holds the row of every item it is past, the
  stored quantity is still the one it computed the difference from, the facts it writes are
  there, and it flushes the act only when no line is left to post. That other sessions keep
  this is the lock of the item alone: the act and its lines are read without one, and the
  findings about them below break other properties, not this.

Only model-checked: liveness (`HealthyQueueDrains`, `QueuedIsSent`, `Converges`,
`CatchesUp`, `EveryMessageEnds`), which is out of the prover's reach, and `AtomicService`.
Every other property of a passing run is stated by a theorem; where the theorem has a
hypothesis that the run's constants meet, it is named above.

## 5. Findings

All were met while modelling. The models contain the behaviour, no run of the present set is
about it. Where a definition is named, it states what the code, a comment or a test
promises; listed as INVARIANT or PROPERTY of the named run it is violated, with the
changes to the constants in brackets.

* *Outbound, requests about one order that overlap* (OutboundTx). `OrderFollowsTasks`
  (outbound_tx; `PatchedPickStatus = {"completed"}`, `PatchedStatus = {}`): two `PATCH`es that complete the last two picks each see the other pick
  open (`services/outbound_planning.py:300`), and the order stays in "picking" with
  all picks done, against the comment in `api/routes/warehouse_tasks.py:162`. So does a
  patch together with a scan. (The same bug of inbound orders is `DonePutawaysClose` below.)
* Of two scans of different picks one counter update is lost: the order is read without a
  lock (`api/routes/outbound_orders.py:168`) and its lines are written back whole
  (`services/outbound_ops.py:182`). Both picks are completed and confirmed; packing compares
  the lines with the confirmed quantities of the tasks (`:560`) and so does not notice. In the same way a scan
  overwrites a `PATCH` of the lines with the older lines it loaded, and such a `PATCH` that
  overlaps shipping changes the lines of an order that has left.
* A `no_stock` answer that overlaps the scan of its own pick writes "blocked" over "completed"
  (`:263` looks at the status it loaded): the pick is counted, and counted again when it is
  scanned again. If it overlaps the scan of the last other pick it can also leave the order
  in "picking" after everything is picked.
* `extra` is one JSON column too (`:522`): requests about two picks of one order lose an
  incident or bring a resolved one back, so that the copies in the order and in the tasks
  disagree; packing and shipping trust the copy in the order. `PATCH` of an order may
  replace `extra` (`models/orders.py:204`): incidents, shortages and `packed_at` are gone. (Outbound
  has the `PATCH`, `WithExtra`; the overlapping of `extra` is in no module.)
* Statuses are written from copies as well. The last scan of an order that is cancelled
  meanwhile writes "picking_complete" over "cancelled"
  (`services/outbound_planning.py:302`), and over "packed" or "shipped" if a repeated scan, or
  a patch, finished its pick first. A pack that overlaps another pack and the shipping writes
  "packed" over "shipped" (`services/outbound_ops.py:678`), and the order can be shipped
  again.

* *Operator terminal.* `EveryPickKept` (operator_terminal): a flush writes back the copy of
  the queue it read at its start (`lib/operatorPickQueue.ts:105`). A pick queued meanwhile
  is overwritten, although the operator was told that it is saved and will be sent
  (`OperatorMyTasksList.tsx:116`).
* *Inbound.* `ClosedIsReceived` (receiving; `PatchedLine`, `PatchedStatus` empty, one
  request): an order is closed when the put-away tasks that exist are done
  (`services/inbound_planning.py:237`), also while a line is not received yet; it never
  can be then. `close_receiving` refuses exactly that (`services/inbound_receiving.py:524`),
  and a test says so.
* `ReceivedOnce` (receiving; `PatchedLine` empty): two requests for one line both read it as
  open (`services/inbound_receiving.py:308`) and both put its goods into stock; two requests
  for two lines overwrite each other's marks, and the line whose mark was lost can be
  received again.
* `ReceivedIsStocked` (receiving; `Order = {o1, o2}`, `ToppingUp = {o1, o2}`, one line,
  `Capacity = 4`, `Stored <- OneUnit`, no symmetry of cells): the quantity of an item to top
  up is read without a lock and written as a sum (`:375`): a pick or a receipt in between is
  lost.
* `SuggestedIsFree` (receiving; one request, `Capacity = 4`, `Stored <- OneUnit`,
  `Quantity = {1, 2}`, no symmetry of cells): a cell picked empty keeps its item of quantity
  0 until it is shipped; the strategy takes it for an empty cell, with the capacity of an
  occupied one (`services/putaway_strategy.py:240`), and the receipt fails on the unique
  index.
* `DonePutawaysClose` (receiving; `PatchedLine`, `PatchedStatus` empty, no symmetry): of two requests that complete the last two
  put-aways at once each sees the other task open (`services/inbound_planning.py:232`): the
  order is never closed, against the comment in `:229`.
* `RepostIsIdempotent` (counting): two requests post one act at once
  (`services/inventory_counting.py:290`): the second waits for the items and then
  writes the facts over what moved in between, against `:287` and a test that posts one
  after the other.
* `PostedFactsFrozen` (counting; `Fact = {0, 1}`): facts entered while the act is being posted
  (`:233`) change the posted act; it then shows a fact the stock was never set to.
* *Stock and outbound.* `consume_for_task` does nothing when the task has no active row:
  a task blocked by an incident and put back to `in_progress` by PATCH is completed by a
  scan, counted as picked, and nothing is written off.
* Shipping takes the whole item row away while other orders hold reservations on it.
* A plan refreshes the item before it locks it and the lock does not reload it: two
  concurrent plans get the same units. By the same missing reload, of two concurrent
  confirmations of one item (`services/outbound_ops.py:358`) one write-off is lost, and
  two concurrent `no_stock` answers of one task release it twice
  (`services/item_reservation.py:139`). Two confirmations of one blocked task both find its
  released row before they lock the item (`services/item_reservation.py:51`), and both add to
  the counter of the item.
* A quantity edit may go below what is reserved (`api/routes/items.py:714`,
  against `services/item_reservation.py:4`), and a posted count cuts the counter but
  leaves the rows (`services/inventory_counting.py:336`).
* A confirmed quantity above the reserved one is counted on the line but written
  off only up to the reservation (`services/item_reservation.py:122`); a substitute
  scanned for an unblocked task is not the item written off (`services/outbound_ops.py:200`).
* `plan_wave` overwrites the mark by which the gate of `ship_order` recognises its
  picks (`services/outbound_wave.py:474`), so with waves on an order can ship short
  (set `Waves` and `PatchedTaskStatus = {"cancelled"}` in `Outbound.cfg`).
* *Events.* A database error in a handler aborts the transaction of the whole batch;
  not even the attempt is counted, and the oldest rows, this one among them, are taken
  again for ever. A position message of unknown equipment is enough.
* An event delivered again while a second replay purges the timeline keeps its claim and
  loses its entry.
* A replay purges all read models (`api/routes/projections.py:70-75`, by default) but clears
  only the claims of the consumers it names (`:78`): with `consumer_names =
  ["twin_timeline"]` the poses, task states, queues and alerts are gone, their claims keep
  every old event from being delivered to them again, and a vehicle has no pose until its
  next message. The docstring promises a rebuild (`:65`).
* *Inbound.* A lot that is topped up gets the larger of the two quantities and not
  their sum, and the expiry of the last receipt. A receipt that is under way when an order
  is cancelled or closed writes "receiving" over it.
* *Operator terminal.* A refused pick (4xx) at the head of the queue stops every flush
  for ever; a `no_stock` sent again after a lost answer reports the incident a second
  time; overlapping flushes send a pick twice; a late success closes, and a late refusal
  moves, the dialog of another task.
* *Simulator stream.* After a restart a client whose revision is larger gets no full
  frames (`warehouse_sim/runtime.py:980`); a control request publishes ahead of the tick
  and the older delta follows (`runtime.py:910`); start, pause and reset publish the data
  only, motion rows they change reach nobody until they change again (`runtime.py:621`); a
  connection that breaks between "ready" and the full frames leaves a revision
  without its rows (`simStore.ts:555`); answers of requests ignore the version
  (`simStore.ts:604`); a full queue drops a delta and `base_revision` is not checked.
* *Twin stream.* Confirmed picks, plans, patched tasks and posted counts publish nothing;
  the worker publishes into a hub of its own process, which has no loop
  (`worker/projection_loop.py:25`); a hub without a loop drops messages even from its
  history until the first client comes; the task update of the simulator's integration is
  published before the commit, only the telemetry that follows makes up for it; messages
  that never pause keep restarting the timers; a failed fetch is swallowed and
  `refetchOnWindowFocus` is off.
* *Inbox.* The first commit of a batch gives back the locks of all its rows
  (`services/integration_inbox_processor.py:134`, `:146`). With two workers the rest can be
  taken by the other too: a message is applied twice, a message that failed in one worker
  is marked failed although the other applied it meanwhile, a
  change overtakes the message that creates its task in the other batch and is given up.
* A failure is final: a deadlock or a database error marks a row failed like a wrong
  payload does (`:156-167`), nothing takes failed rows up again, and the sender that
  repeats its key is answered with the failed row (`api/routes/integrations.py:146-165`).
* An empty idempotency key passes the look for an existing row (`:146`) but not the unique
  index: the second sender of `""` is answered with the row of the first.
* `twin_published_at` is set before the message is published, and the publication goes to
  the hub of the worker, which has no clients
  (`services/integration_inbox_processor.py:144-150`).

## 6. Abstractions and what is not modelled

* *Stock, Outbound.* Handlers run one at a time; see OutboundTx and ReservationTx for the
  others. Items are numbered in the order of FEFO, pick face and address;
  lot balances are not kept. `open` stands for `open` and `confirmed`. A line that
  does not exist has need 0, lines keep their places. Left out: `extra.pallet_item_ids`,
  pick variances, notifications, hand-made tasks (POST), PATCH of payload or
  assignee, lines that arrive with picked counters and an `extra` that arrives with incidents
  (POST, PATCH), the wave record (a wave is a set of orders of which any nonempty part of
  the picks is marked). Slot moves, quantity edits and counts are in ItemReservation
  only; deletion of items is in none.
* *ReservationTx.* Planned quantity and item, one candidate per line, no shipping,
  counting or edits. `Abort` may end any member of a cycle.
* *OutboundTx.* One order, planned before the requests arrive. Stock (see ReservationTx),
  `extra` with the copies of the incidents, `packed_at`, planning of new picks and deletion are left out; packing may be refused
  for incidents and lines, which `GiveUp` stands for. A request takes the locks of the rows
  it writes in one step and releases them at its end.
* *OperatorTerminal.* What a pick says and what the server does with it; texts, sounds,
  the camera of the scanner, the attempt counter of a queued pick.
* *Events.* Two consumers, one replay at a time, no retention. An empty list of names is
  all consumers, as in the code. `AbortWaiting` may end any transaction that waits, not only one in a
  deadlock. The statements after the outbox DELETE (SELECT, INSERTs, commit) are
  one step. Which handlers raise is fixed (`Raising`); database errors are those
  of the pose's foreign key.
* *TwinStream.* Two queries for the two ways of announcing a change; the other
  channels go through the same code. The history is the set of queries with a message
  inside the replay window. The WebSocket route (it subscribes after it has read the
  history), the filter by user and the stream of items alone are left out.
* *SimStream.* One row per kind, with a fresh value at each change. What publishes through
  `call_soon_threadsafe` publishes at once. Cameras (`applyCamera`) and clients that ask
  for full frames only are left out.
* *Inbox.* The handlers of inventory, slots, equipment, queues and alerts are like the
  one of tasks in their transactions and not modelled in what they write; telemetry stands
  for messages without a handler. Every message of a task carries a status. Other writers
  of tasks, the publication to the hub and the switch `INTEGRATION_INBOX_DOMAIN_ENABLED`
  are left out. A database that goes away ends the batch (`Crash`); of the errors of a
  single statement, only the key of the task and the deadlock are modelled. `Abort` may end
  any member of a cycle.
* *Receiving.* The status `awaiting` is treated as `open`. A line is its key (`ToPlan`): the
  code compares the part of the key before "#" with the whole key of the line
  (`services/inbound_planning.py:90`, `:146`) and takes two lines with one `line_id` for one,
  so with repeated ids, or "#" in one, a line gets no task or one more with each plan.
  Lots, discrepancies, damage, events, notifications, PATCH of status and lines in one request, orders created with a status or
  marks of their own and `allow_sku_mix` are left out. The lines keep their places.
  Shipping, which takes the item out of its cell, is not modelled, so an item of quantity 0
  stays; `Pick` is a whole step. Of each line one task at a time is patched, and only its first
  two (there never is a second, see `OnePutaway`).
* *Counting.* The count task, the slot projection and the cell that is cleared at a count
  of 0 are left out; what posting does to reservations is in ItemReservation. A request
  enters one fact.
* *Not modelled:* the components so marked in `PROJECT.json`, with the reason. Most of
  the code by lines are views of the frontend (tables, forms, charts, the 3D scene, the
  generated client and route tree) and CRUD handlers of the backend: they render what a
  query returned and send one request per button, or change one row per request. They
  keep no state over several steps and there is no property of theirs that a model
  checker would decide better than reading them.

## 7. Plan

Done: stock, outbound, events, operator terminal, streams, inbox, receiving, counting.
Left:

1. **Compositions**: the handlers of the inbox as another writer of pick tasks (with
   Outbound) and of events (with Events); receiving and counting as writers of the ledger,
   instead of the two writers ItemReservation has now.
2. **Lots** of receiving and of FEFO, discrepancies of inbound orders.
3. **Simulator**: traffic leases and the task queue first (mutual exclusion of
   edges, no lost task, progress), then its outbox to the warehouse, which feeds
   TwinStream.
4. **Work orders, agent actions**: status machine and resource conflicts; confirm-once
   of a pending action.
5. **Chat assistant**: questions, stops and queries that race on one page.
6. **Retention** as an extension of Events (claims pruned before events).
7. **Overlapping requests**: `extra` with its incidents, `packed_at` and the planning of picks
   in OutboundTx; what shipping and waves do to reservations in ReservationTx.

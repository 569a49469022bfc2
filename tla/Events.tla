------------------------------- MODULE Events -------------------------------
(***************************************************************************)
(* Domain events and their projections: the transactional outbox           *)
(* (services/domain_events.py), its dispatcher (services/outbox_dispatch.py *)
(* and worker/outbox_loop.py), two of the six consumers                    *)
(* (projections/consumers.py) and the replay request                       *)
(* (api/routes/projections.py), all of backend/app.                        *)
(*                                                                         *)
(* The two consumers stand for the two kinds there are:                    *)
(* "twin_timeline" adds a row per event, "twin_equipment_pose" (like queue *)
(* depth and alerts) overwrites one row per entity.  An event is a number, *)
(* its place in the order by created_at; messages of integrations carry    *)
(* their own occurred_at, so events are emitted in any order.              *)
(*                                                                         *)
(* A dispatcher works on a batch in one transaction: what it wrote is kept *)
(* in tx until it commits.  A replay is a transaction too, of statements   *)
(* that each see what is committed when they run.                          *)
(***************************************************************************)
EXTENDS Integers, FiniteSets

CONSTANTS
    Event,       \* domain events
    Equipment,   \* equipment ids that messages mention
    Known,       \* those with a row in the equipment table
    About,       \* the equipment, at most one, whose pose an event reports
    Raising,     \* <<consumer, event>> whose handler raises an exception
    Worker,      \* dispatcher loops
    Named,       \* sets of consumers whose claims a replay request may name
    Limit,       \* rows of a batch (100)
    MaxAttempts, \* attempts before an event is given up (10)
    MaxReplays,  \* bound: replay requests
    MaxCrashes   \* bound: dispatcher crashes

Consumer == {"twin_equipment_pose", "twin_timeline"}

ASSUME EventAssumption     == IsFiniteSet(Event) /\ Event \subseteq Nat \ {0}
ASSUME EquipmentAssumption ==
    /\ Known \subseteq Equipment
    /\ About \in [Event -> SUBSET Equipment]
    /\ \A e \in Event : Cardinality(About[e]) <= 1
ASSUME RaisingAssumption   == Raising \subseteq Consumer \X Event
ASSUME NamedAssumption     == Named \subseteq SUBSET Consumer
ASSUME LimitAssumption     == Limit \in Nat \ {0} /\ MaxAttempts \in Nat \ {0}
ASSUME BoundAssumption     == MaxReplays \in Nat /\ MaxCrashes \in Nat

VARIABLES
    outbox,     \* status of the event_outbox row of each event, "none": not emitted
    attempts,   \* EventOutbox.attempts
    claimed,    \* projection_consumer_processed
    timeline,   \* events with a row in twin_projection_entry
    pose,       \* last_domain_event_id of twin_equipment_pose_projection
    applied,    \* how often a handler's work was committed since its claim was last cleared
    wiped,      \* equipment whose pose a replay took and left its claims, neither written nor
                \* replayed since
    tx,         \* the transaction of each dispatcher
    replay,     \* the transaction of the replay request
    replays, crashes

rows == <<outbox, attempts, claimed, timeline, pose, applied, wiped>>
vars == <<rows, tx, replay, replays, crashes>>

NoEvent == 0

\* The transaction of a dispatcher before it works on the rows S of its batch.
Begin(running, S) ==
    [running |-> running,
     left    |-> S,                                 \* rows of the batch still to process
     done    |-> {},                                \* processed rows
     failed  |-> {},                                \* rows with a consumer that raised
     claims  |-> {},                                \* claims inserted
     ran     |-> {},                                \* handlers that ran to their end
     poses   |-> [x \in Equipment |-> NoEvent]]     \* pose rows written

\* A dispatcher between two ticks.
NoTx == Begin(FALSE, {})

\* No replay request is being served.
NoReplay ==
    [phase |-> "none",
     names |-> {},     \* consumers whose claims it clears
     timeline |-> {}, poses |-> {}, claims |-> {},    \* rows deleted
     rows   |-> {},    \* outbox rows its DELETE sees
     locked |-> {}]    \* those it has deleted so far

Init ==
    /\ outbox   = [e \in Event |-> "none"]
    /\ attempts = [e \in Event |-> 0]
    /\ claimed  = {}
    /\ timeline = {}
    /\ pose     = [x \in Equipment |-> NoEvent]
    /\ applied  = [p \in Consumer \X Event |-> 0]
    /\ wiped    = {}
    /\ tx       = [w \in Worker |-> NoTx]
    /\ replay   = NoReplay
    /\ replays  = 0
    /\ crashes  = 0

Pending == {e \in Event : outbox[e] = "pending"}

Batch(w) == tx[w].left \cup tx[w].done \cup tx[w].failed

\* Outbox rows some transaction has locked.
Taken  == UNION {Batch(w) : w \in Worker}
Locked == Taken \cup replay.locked

Emitted == {e \in Event : outbox[e] # "none"}

\* The first of the rows S by created_at.
Oldest(S) == {e \in S : Cardinality({f \in S : f < e}) < Limit}

IsFirst(e, S) == e \in S /\ \A f \in S : e <= f

-----------------------------------------------------------------------------
(* process_single_outbox                                                   *)

\* Consumers run in the order of the registry.
Earlier(c, d) == c = "twin_equipment_pose" /\ d = "twin_timeline"

\* Handlers that would have to run for e.
Unclaimed(e) == {c \in Consumer : <<c, e>> \notin claimed}

Raises(e) == {c \in Unclaimed(e) : <<c, e>> \in Raising}

\* The loop ends at the first handler that raises.
Runs(e) == {c \in Unclaimed(e) : \A d \in Raises(e) : Earlier(c, d)}

\* Mutant: the claim of a handler that raised is not taken back.
ClaimsKeeping(e) == {<<c, e>> : c \in Runs(e) \cup Raises(e)}

\* Claims that are left once the loop ended: that of a handler that raised is
\* deleted again.
Claims(e) == {<<c, e>> : c \in Runs(e)}

\* Mutant: an event is processed whatever its handlers did.
SucceedsAlways(e) == TRUE

Succeeds(e) == Raises(e) = {}

\* The pose of e is written, by twin_equipment_pose_handler.
Poses(e) == IF "twin_equipment_pose" \in Runs(e) THEN About[e] ELSE {}

\* The foreign key of the pose row finds no equipment.
BreaksKey(e) == ~(Poses(e) \subseteq Known)

\* An INSERT for e meets a row another open transaction deleted or wrote.
Conflicts(w, e) ==
    \/ \E c \in Consumer : <<c, e>> \in replay.claims
    \/ "twin_timeline" \in Runs(e) /\ e \in replay.timeline
    \/ Poses(e) \cap replay.poses # {}
    \/ \E v \in Worker \ {w}, x \in Poses(e) : tx[v].poses[x] # NoEvent

Waits(w) == \E e \in tx[w].left : IsFirst(e, tx[w].left) /\ Conflicts(w, e)

-----------------------------------------------------------------------------

\* emit_domain_event: event and outbox row, in the transaction of the handler.
Emit(e) ==
    /\ outbox[e] = "none"
    /\ outbox' = [outbox EXCEPT ![e] = "pending"]
    /\ UNCHANGED <<attempts, claimed, timeline, pose, applied, wiped, tx, replay, replays, crashes>>

\* The SELECT ... SKIP LOCKED of process_outbox_batch.
Take(w) ==
    /\ ~tx[w].running
    /\ Pending \ Locked # {}
    /\ tx' = [tx EXCEPT ![w] = Begin(TRUE, Oldest(Pending \ Locked))]
    /\ UNCHANGED <<rows, replay, replays, crashes>>

\* The rest of the batch is lost: nothing of it is committed, attempts included.
Rollback(w) == tx' = [tx EXCEPT ![w] = NoTx] /\ UNCHANGED <<rows, replay>>

\* The transaction s after row e.
Delivered(s, e) ==
    [running |-> TRUE,
     left    |-> s.left \ {e},
     done    |-> IF Succeeds(e) THEN s.done \cup {e} ELSE s.done,
     failed  |-> IF Succeeds(e) THEN s.failed ELSE s.failed \cup {e},
     claims  |-> s.claims \cup Claims(e),
     ran     |-> s.ran \cup (Runs(e) \X {e}),
     poses   |-> [x \in Equipment |-> IF x \in Poses(e) THEN e ELSE s.poses[x]]]

\* process_single_outbox for the next row of the batch.  A handler that raises
\* only costs its event an attempt.  After an error of the database every later
\* statement of the transaction fails, its commit too.
Deliver(w) ==
    /\ \E e \in tx[w].left :
          /\ IsFirst(e, tx[w].left)
          /\ ~Conflicts(w, e)
          /\ \/ BreaksKey(e) /\ Rollback(w)
             \/ /\ ~BreaksKey(e)
                /\ tx' = [tx EXCEPT ![w] = Delivered(@, e)]
                /\ UNCHANGED <<rows, replay>>
    /\ UNCHANGED <<replays, crashes>>

\* Mutant: the attempt is not counted.
CountedNot(n) == n

Counted(n) == n + 1

\* Mutant: one attempt too many.
GivenUpLate(n) == Counted(n) > MaxAttempts

GivenUp(n) == Counted(n) >= MaxAttempts

\* session.commit of outbox_dispatcher_loop
Commit(w) ==
    /\ tx[w].running /\ tx[w].left = {}
    /\ outbox' = [e \in Event |->
                    IF e \in tx[w].done THEN "done"
                    ELSE IF e \in tx[w].failed /\ GivenUp(attempts[e]) THEN "dead" ELSE outbox[e]]
    /\ attempts' = [e \in Event |-> IF e \in tx[w].failed THEN Counted(attempts[e]) ELSE attempts[e]]
    /\ claimed'  = claimed \cup tx[w].claims
    /\ timeline' = timeline \cup {e \in Event : <<"twin_timeline", e>> \in tx[w].ran}
    /\ pose'     = [x \in Equipment |-> IF tx[w].poses[x] # NoEvent THEN tx[w].poses[x] ELSE pose[x]]
    /\ applied'  = [p \in Consumer \X Event |-> applied[p] + (IF p \in tx[w].ran THEN 1 ELSE 0)]
    /\ wiped'    = {x \in wiped : tx[w].poses[x] = NoEvent}
    /\ tx'       = [tx EXCEPT ![w] = NoTx]
    /\ UNCHANGED <<replay, replays, crashes>>

\* The worker process dies.
Crash(w) ==
    /\ tx[w].running
    /\ crashes < MaxCrashes
    /\ crashes' = crashes + 1
    /\ Rollback(w)
    /\ UNCHANGED replays

\* The detector of deadlocks ends a transaction that waits (here any that waits).
AbortWaiting(w) == Waits(w) /\ Rollback(w) /\ UNCHANGED <<replays, crashes>>

-----------------------------------------------------------------------------
(* post_projections_replay.  consumer_names says whose claims are cleared; *)
(* no names stand for all consumers, and a name may be nobody's.           *)

\* With purge_twin_timeline the rows of the timeline go first.  A row a
\* dispatcher found and left alone (DO NOTHING) is not locked.
PurgeTimeline(names) ==
    /\ replay.phase = "none"
    /\ replays < MaxReplays
    /\ replay'  = [NoReplay EXCEPT !.phase = "timeline", !.names = names, !.timeline = timeline]
    /\ replays' = replays + 1
    /\ UNCHANGED <<rows, tx, crashes>>

\* Then those of the poses.  A row a dispatcher has updated is waited for.
PurgePoses ==
    /\ replay.phase = "timeline"
    /\ \A w \in Worker, x \in Equipment : pose[x] # NoEvent => tx[w].poses[x] = NoEvent
    /\ replay' = [replay EXCEPT !.phase = "models",
                                !.poses = {x \in Equipment : pose[x] # NoEvent}]
    /\ UNCHANGED <<rows, tx, replays, crashes>>

\* Without it the read models stay.
KeepModels(names) ==
    /\ replay.phase = "none"
    /\ replays < MaxReplays
    /\ replay'  = [NoReplay EXCEPT !.phase = "models", !.names = names]
    /\ replays' = replays + 1
    /\ UNCHANGED <<rows, tx, crashes>>

\* The claims of the consumers named go; the read models went whole.
PurgeClaims ==
    /\ replay.phase = "models"
    /\ replay' = [replay EXCEPT !.phase = "claims",
                                !.claims = {p \in claimed : p[1] \in replay.names}]
    /\ UNCHANGED <<rows, tx, replays, crashes>>

\* enqueue_replay_all_domain_events: the DELETE of the outbox finds its rows.
DeleteOutbox ==
    /\ replay.phase = "claims"
    /\ replay' = [replay EXCEPT !.phase = "outbox", !.rows = Emitted]
    /\ UNCHANGED <<rows, tx, replays, crashes>>

\* It deletes them one by one, and waits at a row of a dispatcher.
DeleteRow ==
    /\ \E e \in replay.rows \ replay.locked :
          /\ IsFirst(e, replay.rows \ replay.locked)
          /\ e \notin Taken
          /\ replay' = [replay EXCEPT !.locked = @ \cup {e}]
    /\ UNCHANGED <<rows, tx, replays, crashes>>

\* Equipment without a pose once the replay commits, though events that carry one keep
\* their claims: the replay purged the poses and did not name their consumer.
Wiped == IF "twin_equipment_pose" \in replay.names THEN {} ELSE wiped \cup replay.poses

\* Mutant: the read models are emptied at the end, after the claims.
ReplayedEmptying ==
    /\ outbox'   = [e \in Event |-> IF e \in replay.rows THEN "pending" ELSE outbox[e]]
    /\ attempts' = [e \in Event |-> 0]
    /\ claimed'  = claimed \ replay.claims
    /\ applied'  = [p \in Consumer \X Event |-> IF p \in replay.claims THEN 0 ELSE applied[p]]
    /\ timeline' = {}
    /\ pose'     = [x \in Equipment |-> NoEvent]
    /\ wiped'    = Wiped

\* What the request commits: one pending row per event.
Replayed ==
    /\ outbox'   = [e \in Event |-> IF e \in replay.rows THEN "pending" ELSE outbox[e]]
    /\ attempts' = [e \in Event |-> 0]
    /\ claimed'  = claimed \ replay.claims
    /\ applied'  = [p \in Consumer \X Event |-> IF p \in replay.claims THEN 0 ELSE applied[p]]
    /\ timeline' = timeline \ replay.timeline
    /\ pose'     = [x \in Equipment |-> IF x \in replay.poses THEN NoEvent ELSE pose[x]]
    /\ wiped'    = Wiped

\* The INSERTs and the commit.  An event emitted since the DELETE began has its
\* row already: the unique key of domain_event_id fails the request.
Enqueue ==
    /\ replay.phase = "outbox"
    /\ replay.rows = replay.locked
    /\ IF Emitted = replay.rows THEN Replayed ELSE UNCHANGED rows
    /\ replay' = NoReplay
    /\ UNCHANGED <<tx, replays, crashes>>

\* The detector of deadlocks ends the request instead of the dispatcher.
AbortReplay ==
    /\ replay.phase # "none"
    /\ \E w \in Worker : Waits(w)
    /\ replay' = NoReplay
    /\ UNCHANGED <<rows, tx, replays, crashes>>

-----------------------------------------------------------------------------

Dispatcher(w) == Take(w) \/ Deliver(w) \/ Commit(w) \/ AbortWaiting(w)

Replay ==
    \/ \E names \in Named : PurgeTimeline(names) \/ KeepModels(names)
    \/ PurgePoses \/ PurgeClaims \/ DeleteOutbox \/ DeleteRow \/ Enqueue \/ AbortReplay

Next ==
    \/ \E e \in Event : Emit(e)
    \/ \E w \in Worker : Dispatcher(w) \/ Crash(w)
    \/ Replay

\* The loop ticks every two seconds and a tick runs to its end; a request that
\* was accepted is served.  A DELETE that waits for a row is woken when the row is
\* released, the dispatcher that released it sleeps first: the DELETE does not
\* lose that race for ever.
Fairness ==
    /\ \A w \in Worker : WF_vars(Dispatcher(w))
    /\ SF_vars(PurgePoses) /\ WF_vars(PurgeClaims)
    /\ WF_vars(DeleteOutbox) /\ SF_vars(DeleteRow) /\ WF_vars(Enqueue)

Spec == Init /\ [][Next]_vars /\ Fairness

-----------------------------------------------------------------------------
(* Properties *)

Tx ==
    [running : BOOLEAN, left : SUBSET Event, done : SUBSET Event, failed : SUBSET Event,
     claims : SUBSET (Consumer \X Event), ran : SUBSET (Consumer \X Event),
     poses : [Equipment -> Event \cup {NoEvent}]]

ReplayTx ==
    [phase : {"none", "timeline", "models", "claims", "outbox"},
     names : SUBSET Consumer, timeline : SUBSET Event, poses : SUBSET Equipment,
     claims : SUBSET (Consumer \X Event),
     rows : SUBSET Event, locked : SUBSET Event]

\* Type invariant.
TypeOK ==
    /\ outbox \in [Event -> {"none", "pending", "done", "dead"}]
    /\ attempts \in [Event -> 0 .. MaxAttempts]
    /\ claimed \subseteq Consumer \X Event
    /\ timeline \subseteq Event
    /\ pose \in [Equipment -> Event \cup {NoEvent}]
    /\ applied \in [Consumer \X Event -> Nat]
    /\ wiped \subseteq Equipment
    /\ tx \in [Worker -> Tx]
    /\ replay \in ReplayTx
    /\ replays \in 0 .. MaxReplays
    /\ crashes \in 0 .. MaxCrashes

\* Each event reaches each consumer exactly once: through retries, crashes,
\* several dispatchers and replays, a claim stands for one committed run of the
\* handler, no claim for none (try_claim_processed).
ClaimIsOneRun ==
    \A p \in Consumer \X Event : applied[p] = IF p \in claimed THEN 1 ELSE 0

\* A row is completed without an error only when every consumer has the event.
DoneIsDelivered ==
    \A e \in Event : outbox[e] = "done" => Consumer \X {e} \subseteq claimed

\* A pose that was delivered is lost to one kind of replay only: one that purges the read
\* models but names other consumers, so that the claims of the poses it takes stay and
\* keep them from being delivered again.  With any other replay the read model has a pose
\* wherever a claim says so, whatever dispatchers commit while it is emptied.
ClaimedPoseIsShown ==
    \A e \in Event : <<"twin_equipment_pose", e>> \in claimed =>
        \A x \in About[e] \ wiped : pose[x] # NoEvent

\* Once no event of unknown equipment is waiting, every event is delivered or
\* given up, though handlers raise, dispatchers crash and users ask for replays.
HealthyQueueDrains ==
    <>[](\A e \in Pending : About[e] \subseteq Known)
        => \A e \in Event : outbox[e] = "pending" ~> outbox[e] # "pending"

=============================================================================

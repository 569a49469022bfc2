------------------------------ MODULE TwinStream ------------------------------
(***************************************************************************)
(* The stream that tells the browser which of its queries are stale: the   *)
(* hub of the API process (backend/app/realtime/twin_stream_hub.py) with   *)
(* its debounced and immediate channels, its history for clients that come *)
(* back, and bounded queues; the hook that reads it and invalidates        *)
(* queries (frontend/src/hooks/useTwinRealtime.ts).                        *)
(*                                                                         *)
(* Two queries stand for the two ways a change is announced.  "orders"     *)
(* follow item movements: published after the commit, debounced.  "tasks"  *)
(* follow task updates, which the simulator's integration publishes before *)
(* it commits, and telemetry, which it publishes after.  A message is the  *)
(* query it makes stale (tagsForTwinMessage); what else it says is left    *)
(* out.  world and cached count the commits a query depends on and those   *)
(* its data shows.                                                         *)
(***************************************************************************)
EXTENDS Integers, Sequences

CONSTANTS
    MaxQueue,      \* messages a subscriber's queue holds (64)
    MaxCommits,    \* bound: commits that change a query
    MaxEarly       \* bound: task updates published before a commit

ASSUME BoundAssumption ==
    /\ MaxQueue \in Nat \ {0}
    /\ MaxCommits \in Nat
    /\ MaxEarly \in Nat

Query == {"orders", "tasks"}

NoData == -1

VARIABLES
    world,        \* commits so far
    owed,         \* commits whose message is not published yet
    early,
    loop,         \* the hub knows the event loop (_hub_loop)
    dirty,        \* the debounce timer of item movements runs
    history,      \* queries of which a message is in the replay window
    queue, replay, connected,    \* what the client has still to read, of the queue and of the history
    tags,         \* pendingTagsRef; its timer runs while there are any
    phase, seen,  \* fetches: "idle", "sent", or "read" with the version the server read
    cached,
    missed        \* history: queries of which a wake-up was lost, for a known reason

server == <<world, owed, early>>
hub    == <<loop, dirty, history>>
stream == <<queue, replay, connected>>
client == <<tags, phase, seen, cached>>
vars   == <<server, hub, stream, client, missed>>

-----------------------------------------------------------------------------
(* What is on its way                                                      *)

InQueue(q) == \E i \in 1 .. Len(queue) : queue[i] = q

\* Something will yet make the client fetch q, or it has fetched what is there now.
Coming(q) ==
    \/ owed[q] > 0
    \/ q = "orders" /\ dirty
    \/ InQueue(q)
    \/ q \in replay
    \/ ~connected /\ q \in history
    \/ q \in tags
    \/ phase[q] = "sent"
    \/ phase[q] = "read" /\ seen[q] = world[q]

Fresh(q) == cached[q] = world[q] \/ Coming(q)

\* The step may lose the wake-ups of the queries in S.
MayMiss(S) == missed' = {q \in missed \cup S : ~Fresh(q)'}

-----------------------------------------------------------------------------
(* The hub                                                                 *)

Init ==
    /\ world = [q \in Query |-> 0]
    /\ owed  = [q \in Query |-> 0]
    /\ early = 0
    /\ loop = FALSE /\ dirty = FALSE /\ history = {}
    /\ queue = <<>> /\ replay = {} /\ connected = FALSE
    /\ tags  = {}
    /\ phase = [q \in Query |-> "sent"]    \* the page has opened
    /\ seen  = [q \in Query |-> 0]
    /\ cached = [q \in Query |-> NoData]
    /\ missed = {}

\* Mutant: the queue has no bound.
PutUnbounded(s, q) == Append(s, q)

\* put_drop_oldest.
Put(s, q) == Append(IF Len(s) < MaxQueue THEN s ELSE Tail(s), q)

\* The message put_drop_oldest drops.
Dropped(s) == IF connected /\ Len(s) >= MaxQueue THEN {Head(s)} ELSE {}

\* _broadcast: into the history, and to the client if there is one.
Broadcast(q) ==
    /\ history' = history \cup {q}
    /\ queue' = IF connected THEN Put(queue, q) ELSE queue
    /\ UNCHANGED <<loop, replay, connected>>

Committed(q) ==
    /\ world["orders"] + world["tasks"] < MaxCommits
    /\ world' = [world EXCEPT ![q] = @ + 1]

\* A request or the integration of the simulator commits; it publishes afterwards.
Commit(q) ==
    /\ Committed(q)
    /\ owed' = [owed EXCEPT ![q] = @ + 1]
    /\ UNCHANGED <<early, hub, stream, client>>
    /\ MayMiss({})

\* Confirmed picks, plans, patched tasks and posted counts publish nothing; the worker publishes
\* in its own process, whose hub has no loop.
SilentCommit(q) ==
    /\ Committed(q)
    /\ UNCHANGED <<owed, early, hub, stream, client>>
    /\ MayMiss({q})

\* The commit is announced: item movements through the timer, which is (re)started, telemetry
\* at once.  Without a loop nothing is, not even to the history.
Publish(q) ==
    /\ owed[q] > 0
    /\ owed' = [owed EXCEPT ![q] = @ - 1]
    /\ UNCHANGED <<world, early, client>>
    /\ \/ /\ ~loop
          /\ UNCHANGED <<hub, stream>>
          /\ MayMiss({q})
       \/ /\ loop /\ q = "orders"
          /\ dirty' = TRUE
          /\ UNCHANGED <<loop, history, stream>>
          /\ MayMiss({})
       \/ /\ loop /\ q = "tasks"
          /\ Broadcast(q)
          /\ UNCHANGED dirty
          /\ MayMiss(Dropped(queue))

\* _emit_task: a task update, sent before the transaction commits.
PublishEarly ==
    /\ early < MaxEarly
    /\ early' = early + 1
    /\ loop
    /\ Broadcast("tasks")
    /\ UNCHANGED <<world, owed, dirty, client>>
    /\ MayMiss(Dropped(queue))

\* _flush of the debounce timer.
Fire ==
    /\ dirty
    /\ dirty' = FALSE
    /\ Broadcast("orders")
    /\ UNCHANGED <<server, client>>
    /\ MayMiss(Dropped(queue))

\* The last message of q gets older than the replay window, or is pushed out of the history.
Expire(q) ==
    /\ q \in history
    /\ history' = history \ {q}
    /\ UNCHANGED <<server, loop, dirty, stream, client>>
    /\ MayMiss({q})

\* The API process ends and begins again.
Restart ==
    /\ owed' = [q \in Query |-> 0]
    /\ loop' = FALSE /\ dirty' = FALSE /\ history' = {}
    /\ queue' = <<>> /\ replay' = {} /\ connected' = FALSE
    /\ UNCHANGED <<world, early, client>>
    /\ MayMiss(Query)

-----------------------------------------------------------------------------
(* The stream                                                              *)

\* twin_sse_stream: the client is subscribed and the history read in one turn of the loop.
Connect ==
    /\ ~connected
    /\ connected' = TRUE
    /\ loop' = TRUE
    /\ queue' = <<>>
    /\ replay' = history
    /\ UNCHANGED <<server, dirty, history, client>>
    /\ MayMiss({})

\* The stream ends; five seconds later the client connects again.
Break ==
    /\ connected
    /\ connected' = FALSE
    /\ queue' = <<>> /\ replay' = {}
    /\ UNCHANGED <<server, hub, client>>
    /\ MayMiss(Query \ history)

\* Mutant: the tags of messages that came in the same window are forgotten.
TaggedAlone(q) == {q}

\* handleRaw: the tag waits for the timer, which is restarted.
Tagged(q) == tags \cup {q}

\* A message of the history, or when there is none left of the queue.
Read ==
    /\ \/ \E q \in replay :
             replay' = replay \ {q} /\ queue' = queue /\ tags' = Tagged(q)
       \/ /\ replay = {} /\ queue # <<>>
          /\ replay' = {} /\ queue' = Tail(queue) /\ tags' = Tagged(Head(queue))
    /\ UNCHANGED <<server, hub, connected, phase, seen, cached>>
    /\ MayMiss({})

-----------------------------------------------------------------------------
(* Queries                                                                 *)

\* Mutant: an invalidated query that is being fetched is left alone.
RefetchedIdle(q) == phase[q] = "idle"

\* invalidateQueries: a fetch in flight is cancelled and made again, but not a query's first.
Refetched(q) == phase[q] = "idle" \/ cached[q] # NoData

\* The timer of the tags: flushInvalidations.
Flush ==
    /\ tags # {}
    /\ tags' = {}
    /\ phase' = [q \in Query |-> IF q \in tags /\ Refetched(q) THEN "sent" ELSE phase[q]]
    /\ UNCHANGED <<server, hub, stream, seen, cached>>
    /\ MayMiss({q \in tags : phase[q] # "idle" /\ cached[q] = NoData})

ServerReads(q) ==
    /\ phase[q] = "sent"
    /\ phase' = [phase EXCEPT ![q] = "read"]
    /\ seen'  = [seen EXCEPT ![q] = world[q]]
    /\ UNCHANGED <<server, hub, stream, tags, cached>>
    /\ MayMiss({})

FetchEnds(q) ==
    /\ phase[q] = "read"
    /\ phase'  = [phase EXCEPT ![q] = "idle"]
    /\ cached' = [cached EXCEPT ![q] = seen[q]]
    /\ UNCHANGED <<server, hub, stream, tags, seen>>
    /\ MayMiss({})

\* The fetch failed, its retry too; safeInvalidateQueries swallows the error.
FetchFails(q) ==
    /\ phase[q] # "idle"
    /\ phase' = [phase EXCEPT ![q] = "idle"]
    /\ UNCHANGED <<server, hub, stream, tags, seen, cached>>
    /\ MayMiss({q})

Next ==
    \/ \E q \in Query :
          \/ Commit(q) \/ SilentCommit(q) \/ Publish(q) \/ Expire(q)
          \/ ServerReads(q) \/ FetchEnds(q) \/ FetchFails(q)
    \/ PublishEarly \/ Fire \/ Restart \/ Connect \/ Break \/ Read \/ Flush

\* Requests and timers go on, the client reads what comes, fetches end.
Fairness ==
    /\ WF_vars(Fire) /\ WF_vars(Read) /\ WF_vars(Flush)
    /\ \A q \in Query :
          WF_vars(Publish(q)) /\ WF_vars(ServerReads(q)) /\ WF_vars(FetchEnds(q) \/ FetchFails(q))

Spec     == Init /\ [][Next]_vars
FairSpec == Spec /\ Fairness

-----------------------------------------------------------------------------
(* Properties                                                              *)

\* The state is well formed; no query shows what was not committed, and put_drop_oldest keeps
\* the bound of the queue.
TypeOK ==
    /\ world \in [Query -> 0 .. MaxCommits] /\ owed \in [Query -> 0 .. MaxCommits]
    /\ early \in 0 .. MaxEarly
    /\ loop \in BOOLEAN /\ dirty \in BOOLEAN /\ connected \in BOOLEAN
    /\ history \subseteq Query /\ replay \subseteq Query /\ tags \subseteq Query
    /\ queue \in Seq(Query) /\ Len(queue) <= MaxQueue
    /\ phase \in [Query -> {"idle", "sent", "read"}]
    /\ seen \in [Query -> 0 .. MaxCommits] /\ cached \in [Query -> -1 .. MaxCommits]
    /\ \A q \in Query : owed[q] <= world[q] /\ cached[q] <= world[q] /\ seen[q] <= world[q]
    /\ missed \subseteq Query

\* A query that does not show the last commit is going to be fetched again: between commit,
\* publication, timers, history, queue, reconnection and fetches in flight a wake-up is lost
\* only where a step says so (silent commits, a hub without a loop, a restart, a full queue,
\* a history too short, the first fetch of a query, a fetch that fails).
WakeUpComes == \A q \in Query : q \notin missed => Fresh(q)

\* And it is fetched: a client that stays connected and misses nothing more ends with what
\* was committed last, once messages stop restarting the timers.
Converges ==
    \A q \in Query :
        <>[](connected /\ q \notin missed) => <>[](cached[q] = world[q])

=============================================================================

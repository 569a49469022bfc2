-------------------------------- MODULE Inbox --------------------------------
(***************************************************************************)
(* The queue of messages from other systems: the request that puts one in  *)
(* (api/routes/integrations.py), the batch that applies them               *)
(* (services/integration_inbox_processor.py, _handlers.py) and the loop of *)
(* the worker that runs it (worker/agent_background_loop.py), all of       *)
(* backend/app.                                                            *)
(*                                                                         *)
(* A message is a number, its place by created_at, and stands for its row: *)
(* sent again under its key it finds the row there is, and the unique      *)
(* index on source and key keeps every other from being added, so that the *)
(* search for a processed duplicate in the batch never finds one.          *)
(*                                                                         *)
(* The batch locks its rows with one SELECT, but commits after each of     *)
(* them: the first commit, or rollback, gives all the locks back.  What it *)
(* does with a row is a transaction of a few statements; other workers run *)
(* between them.                                                           *)
(***************************************************************************)
EXTENDS Integers, FiniteSets

CONSTANTS
    Message,    \* messages, numbered by created_at
    Task,       \* warehouse tasks that messages are about
    NoTask,
    TaskOf,     \* the task of a message, NoTask for telemetry (TWIN_ONLY)
    Creating,   \* messages task.created
    Bad,        \* messages whose handler raises: unknown type, invalid payload
    Worker,     \* worker processes
    Limit,      \* rows of a batch (30)
    MaxCrashes  \* bound: workers that die

ASSUME MessageAssumption == IsFiniteSet(Message) /\ Message \subseteq Nat \ {0}
ASSUME TaskAssumption    == NoTask \notin Task /\ TaskOf \in [Message -> Task \cup {NoTask}]
ASSUME KindAssumption    == Creating \subseteq Message /\ Bad \subseteq Message
ASSUME LimitAssumption   == Limit \in Nat \ {0} /\ MaxCrashes \in Nat

VARIABLES
    row,        \* status of the integration_inbox row, "none": not sent yet
    task,       \* the message the status of the task is from, 0: no row
    applied,    \* committed runs of the handler: domain events of the message
    at,         \* what each worker is doing
    crashes,
    \* history: messages two workers were at work on at once; tasks whose messages came out
    \* of order or were in the batches of two workers at once
    crossed, mixed

rows  == <<row, task, applied>>
marks == <<crossed, mixed>>
vars  == <<rows, at, crashes, marks>>

NoMessage == 0

\* A worker between two ticks.
Idle == [phase |-> "idle", left |-> {}, locks |-> {}, found |-> FALSE]

Init ==
    /\ row     = [m \in Message |-> "none"]
    /\ task    = [t \in Task |-> NoMessage]
    /\ applied = [m \in Message |-> 0]
    /\ at      = [w \in Worker |-> Idle]
    /\ crashes = 0
    /\ crossed = {} /\ mixed = {}

-----------------------------------------------------------------------------
(* Rows and locks                                                          *)

Pending == {m \in Message : row[m] = "pending"}

Locked == UNION {at[w].locks : w \in Worker}

\* The first of the rows S by created_at.
Oldest(S) == {m \in S : Cardinality({k \in S : k < m}) < Limit}

IsFirst(m, S) == m \in S /\ \A k \in S : m <= k

\* The worker is in the loop's body for m, past the look at its status.
AtWork(w, m) == at[w].phase \notin {"idle", "row"} /\ IsFirst(m, at[w].left)

\* Another worker has locked the row of m.
LockedByOther(w, m) == \E v \in Worker \ {w} : m \in at[v].locks

\* The worker has flushed its change of the task.
Writes(w, t) == \E m \in Message : at[w].phase = "mark" /\ AtWork(w, m) /\ TaskOf[m] = t

TaskTaken(w, t) == t # NoTask /\ \E v \in Worker \ {w} : Writes(v, t)

\* The worker goes on to m's phase p; a rollback gives back the locks.
To(w, p)   == [at EXCEPT ![w].phase = p]
Back(w, p) == [at EXCEPT ![w].phase = p, ![w].locks = {}]

\* The worker is done with m: what it committed or rolled back last gave back the locks.
Done(w, m) ==
    [at EXCEPT ![w] = [phase |-> IF at[w].left = {m} THEN "idle" ELSE "row",
                       left |-> at[w].left \ {m}, locks |-> {}, found |-> FALSE]]

-----------------------------------------------------------------------------
(* Messages come in                                                        *)

\* integration_inbox_ingest: a new row.  (With the key of a row that is there it answers
\* with that row and changes nothing, whatever became of it.)
Ingest(m) ==
    /\ row[m] = "none"
    /\ row' = [row EXCEPT ![m] = "pending"]
    /\ mixed' = IF \E k \in Message : k > m /\ TaskOf[k] = TaskOf[m] /\ row[k] # "none"
                THEN mixed \cup {TaskOf[m]} ELSE mixed
    /\ UNCHANGED <<task, applied, at, crashes, crossed>>

-----------------------------------------------------------------------------
(* process_integration_inbox_batch                                         *)

\* Mutant: rows that are locked are taken too.
FreeOrNot == Pending

\* SKIP LOCKED.
Free == Pending \ Locked

\* Mutant: the rows are taken in no order.
BatchAny(S) == {m \in S : Cardinality({k \in S : k > m}) < Limit}

\* ORDER BY created_at LIMIT.
Batch(S) == Oldest(S)

\* The SELECT ... FOR UPDATE SKIP LOCKED.
Take(w) ==
    /\ at[w].phase = "idle"
    /\ Free # {}
    /\ at' = [at EXCEPT ![w] = [phase |-> "row", left |-> Batch(Free),
                                locks |-> Batch(Free), found |-> FALSE]]
    /\ mixed' = mixed \cup {TaskOf[m] : m \in {k \in Batch(Free) :
                    \E v \in Worker \ {w} : \E n \in at[v].left : TaskOf[n] = TaskOf[k]}}
    /\ UNCHANGED <<rows, crashes, crossed>>

\* Mutant: the status is not looked at again once the locks are gone.
TakenUp(m) == TRUE

\* session.get, which reads the row again after a commit or rollback.
StillPending(m) == row[m] = "pending"

\* Somebody else dealt with the row.
Skip(w, m) ==
    /\ at[w].phase = "row" /\ IsFirst(m, at[w].left)
    /\ ~StillPending(m)
    /\ at' = Done(w, m)
    /\ UNCHANGED <<rows, crashes, marks>>

\* The row is still pending: the worker goes to work on it.
Start(w, m) ==
    /\ at[w].phase = "row" /\ IsFirst(m, at[w].left)
    /\ StillPending(m)
    /\ at' = To(w, "look")
    /\ crossed' = IF \E v \in Worker \ {w} : AtWork(v, m) THEN crossed \cup {m} ELSE crossed
    /\ UNCHANGED <<rows, crashes, mixed>>

\* Mutant: task.created for a task that is there raises.
RaisesTwice(m) ==
    m \in Bad \/ (TaskOf[m] # NoTask /\ (m \in Creating <=> task[TaskOf[m]] # NoMessage))

\* handle_task_lifecycle and _dispatch: a task that is not there can only be created.
Raises(m) == m \in Bad \/ (TaskOf[m] # NoTask /\ m \notin Creating /\ task[TaskOf[m]] = NoMessage)

\* The handler finds its task or not; telemetry has none.
Look(w, m) ==
    /\ at[w].phase = "look" /\ IsFirst(m, at[w].left)
    /\ ~Raises(m)
    /\ at' = IF TaskOf[m] = NoTask THEN To(w, "mark")
             ELSE [at EXCEPT ![w].phase = "write", ![w].found = task[TaskOf[m]] # NoMessage]
    /\ UNCHANGED <<rows, crashes, marks>>

\* The handler raises: the transaction is rolled back.
Raise(w, m) ==
    /\ at[w].phase = "look" /\ IsFirst(m, at[w].left)
    /\ Raises(m)
    /\ at' = Back(w, "failed")
    /\ UNCHANGED <<rows, crashes, marks>>

\* The flush of emit_domain_event: the task is updated or inserted, the event inserted.  An
\* INSERT meets the task another transaction has inserted since it was looked for.
Flush(w, m) ==
    /\ at[w].phase = "write" /\ IsFirst(m, at[w].left)
    /\ ~TaskTaken(w, TaskOf[m])
    /\ at' = IF ~at[w].found /\ task[TaskOf[m]] # NoMessage THEN Back(w, "failed") ELSE To(w, "mark")
    /\ UNCHANGED <<rows, crashes, marks>>

\* The row is updated and everything committed.
Commit(w, m) ==
    /\ at[w].phase = "mark" /\ IsFirst(m, at[w].left)
    /\ ~LockedByOther(w, m)
    /\ row' = [row EXCEPT ![m] = "processed"]
    /\ task' = IF TaskOf[m] = NoTask THEN task ELSE [task EXCEPT ![TaskOf[m]] = m]
    /\ applied' = IF TaskOf[m] = NoTask THEN applied ELSE [applied EXCEPT ![m] = @ + 1]
    /\ at' = Done(w, m)
    /\ UNCHANGED <<crashes, marks>>

\* After a rollback the row is read again: it is still pending, or somebody dealt with it.
Reread(w, m) ==
    /\ at[w].phase = "failed" /\ IsFirst(m, at[w].left)
    /\ at' = IF row[m] = "pending" THEN To(w, "giveup") ELSE Done(w, m)
    /\ UNCHANGED <<rows, crashes, marks>>

\* Mutant: a row that failed is left to be tried again.
LeftPending == "pending"

\* The status of a row whose handler raised.
MarkedFailed == "failed"

\* The row is marked failed: nobody will try it again.
GiveUp(w, m) ==
    /\ at[w].phase = "giveup" /\ IsFirst(m, at[w].left)
    /\ ~LockedByOther(w, m)
    /\ row' = [row EXCEPT ![m] = MarkedFailed]
    /\ at' = Done(w, m)
    /\ UNCHANGED <<task, applied, crashes, marks>>

-----------------------------------------------------------------------------
(* The database and the process                                            *)

WaitsFor(w, v) ==
    \E m \in Message :
        /\ AtWork(w, m)
        /\ \/ at[w].phase = "write" /\ TaskOf[m] # NoTask /\ Writes(v, TaskOf[m])
           \/ at[w].phase \in {"mark", "giveup"} /\ m \in at[v].locks

Deadlocked(w) ==
    \E S \in SUBSET Worker :
        w \in S /\ \A u \in S : \E v \in S \ {u} : WaitsFor(u, v)

\* The detector of deadlocks ends one of the transactions.
Abort(w) ==
    /\ Deadlocked(w)
    /\ at' = Back(w, "failed")
    /\ UNCHANGED <<rows, crashes, marks>>

\* The worker dies, or the database goes away for the rest of the batch.
Crash(w) ==
    /\ at[w].phase # "idle"
    /\ crashes < MaxCrashes
    /\ crashes' = crashes + 1
    /\ at' = [at EXCEPT ![w] = Idle]
    /\ UNCHANGED <<rows, marks>>

Tick(w) ==
    \/ Take(w) \/ Abort(w)
    \/ \E m \in Message :
          \/ Skip(w, m) \/ Start(w, m) \/ Look(w, m) \/ Raise(w, m)
          \/ Flush(w, m) \/ Commit(w, m) \/ Reread(w, m) \/ GiveUp(w, m)

Next ==
    \/ \E m \in Message : Ingest(m)
    \/ \E w \in Worker : Tick(w) \/ Crash(w)

\* The loop ticks every five seconds whatever the last tick raised.
Fairness == \A w \in Worker : WF_vars(Tick(w))

Spec == Init /\ [][Next]_vars /\ Fairness

-----------------------------------------------------------------------------
(* Properties                                                              *)

Phases == {"idle", "row", "look", "write", "mark", "failed", "giveup"}

\* The state is well formed: a worker holds locks on rows of its batch only, no row is locked
\* by two (FOR UPDATE SKIP LOCKED), what is locked is pending, and a batch is never larger
\* than the limit.
TypeOK ==
    /\ row \in [Message -> {"none", "pending", "processed", "failed"}]
    /\ task \in [Task -> Message \cup {NoMessage}]
    /\ applied \in [Message -> Nat]
    /\ at \in [Worker -> [phase : Phases, left : SUBSET Message, locks : SUBSET Message,
                          found : BOOLEAN]]
    /\ \A w \in Worker :
          /\ at[w].locks \subseteq at[w].left \cap Pending
          /\ at[w].phase = "idle" => at[w].left = {}
          /\ \A v \in Worker \ {w} : at[v].locks \cap at[w].locks = {}
    /\ crashes \in 0 .. MaxCrashes
    /\ crossed \subseteq Message /\ mixed \subseteq Task \cup {NoTask}

\* A message takes effect exactly once when its row says processed and not at all when it
\* says anything else, through crashes, failures and batches that have lost their locks,
\* unless two workers were at work on it at the same moment; even then none is marked
\* processed without an effect (process_integration_inbox_batch).
AppliedOnce ==
    \A m \in Message : TaskOf[m] # NoTask =>
        /\ m \notin crossed => applied[m] = IF row[m] = "processed" THEN 1 ELSE 0
        /\ row[m] \in {"none", "pending"} => applied[m] = 0
        /\ row[m] = "processed" => applied[m] > 0

\* The status of a task is that of the last message applied to it by created_at, whatever
\* failed or was taken up again, if its messages came in order and were never in the
\* batches of two workers at once.
TaskFollowsOrder ==
    \A m \in Message :
        row[m] = "processed" /\ TaskOf[m] \in Task \ mixed => m <= task[TaskOf[m]]

\* Under the same condition no message is given up that could have been applied: only one
\* whose handler raises, or about a task none of the messages before it created.
FailedForCause ==
    \A m \in Message :
        row[m] = "failed" /\ TaskOf[m] \notin mixed =>
            \/ m \in Bad
            \/ /\ m \notin Creating
               /\ \A c \in Creating : c < m /\ TaskOf[c] = TaskOf[m] => row[c] # "processed"

\* Every message is processed or given up in the end, though handlers raise, workers die
\* and wait for each other.
EveryMessageEnds == \A m \in Message : row[m] = "pending" ~> row[m] \in {"processed", "failed"}

=============================================================================

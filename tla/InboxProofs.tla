----------------------------- MODULE InboxProofs -----------------------------
(***************************************************************************)
(* What holds of Inbox for every number of messages, tasks and workers:    *)
(* its types and locks, and that a message takes effect once unless two    *)
(* workers are at work on it at the same moment, hence always if there is  *)
(* one worker.  Then the order of messages: as long as those of a task     *)
(* come in order and are never in the batches of two workers at once, its  *)
(* status is that of the last one applied, and none is given up that could *)
(* have been applied.                                                      *)
(***************************************************************************)
EXTENDS Inbox, TLAPS, FiniteSetTheorems

\* Two workers at work on one message have crossed.
Apart ==
    \A m \in Message, w, v \in Worker : AtWork(w, m) /\ AtWork(v, m) /\ w # v => m \in crossed

\* A message that is worked on without crossing is pending all the while.
WorkedIsPending ==
    \A m \in Message, w \in Worker : AtWork(w, m) /\ m \notin crossed => row[m] = "pending"

OnceInv == TypeOK /\ Apart /\ WorkedIsPending /\ AppliedOnce

States == [phase : Phases, left : SUBSET Message, locks : SUBSET Message, found : BOOLEAN]

-----------------------------------------------------------------------------
(* Types and locks                                                         *)

\* The batch is taken from the rows offered to it.
LEMMA BatchWithin == ASSUME NEW S PROVE Batch(S) \subseteq S
BY DEF Batch, Oldest

\* What a worker does next is a state of a worker; its locks are its own or none.
LEMMA DoneType ==
    ASSUME TypeOK, NEW w \in Worker, NEW m \in Message
    PROVE  /\ Done(w, m) \in [Worker -> States]
           /\ Done(w, m)[w].locks = {}
           /\ Done(w, m)[w].phase = "idle" => Done(w, m)[w].left = {}
           /\ Done(w, m)[w].phase \in {"idle", "row"}
           /\ \A v \in Worker \ {w} : Done(w, m)[v] = at[v]
BY DEF TypeOK, Done, States, Phases

LEMMA ToType ==
    ASSUME TypeOK, NEW w \in Worker, NEW p \in Phases
    PROVE  /\ To(w, p) \in [Worker -> States]
           /\ To(w, p)[w].phase = p
           /\ To(w, p)[w].left = at[w].left
           /\ To(w, p)[w].locks = at[w].locks
           /\ \A v \in Worker \ {w} : To(w, p)[v] = at[v]
  <1>1. at \in [Worker -> States]
    BY DEF TypeOK, States
  <1>2. [at[w] EXCEPT !.phase = p] \in States
    BY <1>1 DEF States
  <1>3. To(w, p) = [at EXCEPT ![w] = [at[w] EXCEPT !.phase = p]]
    BY <1>1 DEF To
  <1> QED BY <1>1, <1>2, <1>3 DEF States

LEMMA BackType ==
    ASSUME TypeOK, NEW w \in Worker, NEW p \in Phases
    PROVE  /\ Back(w, p) \in [Worker -> States]
           /\ Back(w, p)[w].phase = p
           /\ Back(w, p)[w].left = at[w].left
           /\ Back(w, p)[w].locks = {}
           /\ \A v \in Worker \ {w} : Back(w, p)[v] = at[v]
  <1>1. at \in [Worker -> States]
    BY DEF TypeOK, States
  <1>2. [at[w] EXCEPT !.phase = p, !.locks = {}] \in States
    BY <1>1 DEF States
  <1>3. Back(w, p) = [at EXCEPT ![w] = [at[w] EXCEPT !.phase = p, !.locks = {}]]
    BY <1>1 DEF Back
  <1> QED BY <1>1, <1>2, <1>3 DEF States

\* The worker that has looked for its task.
LEMMA FoundType ==
    ASSUME TypeOK, NEW w \in Worker, NEW f \in BOOLEAN, NEW s,
           s = [at EXCEPT ![w].phase = "write", ![w].found = f]
    PROVE  /\ s \in [Worker -> States]
           /\ s[w].phase = "write"
           /\ s[w].left = at[w].left
           /\ s[w].locks = at[w].locks
           /\ \A v \in Worker \ {w} : s[v] = at[v]
  <1>1. at \in [Worker -> States] /\ "write" \in Phases
    BY DEF TypeOK, States, Phases
  <1>2. [at[w] EXCEPT !.phase = "write", !.found = f] \in States
    BY <1>1 DEF States
  <1>3. s = [at EXCEPT ![w] = [at[w] EXCEPT !.phase = "write", !.found = f]]
    BY <1>1
  <1> QED BY <1>1, <1>2, <1>3 DEF States

\* A step of one worker that keeps or gives back its locks, and takes no row from pending
\* that another worker has locked, keeps what TypeOK says of the workers.
LEMMA WorkersStep ==
    ASSUME TypeOK, NEW w \in Worker,
           at' \in [Worker -> States],
           \A v \in Worker \ {w} : at'[v] = at[v],
           at'[w].locks \subseteq at[w].locks, at'[w].locks \subseteq at'[w].left,
           at'[w].phase = "idle" => at'[w].left = {},
           \A v \in Worker : at'[v].locks \subseteq Pending'
    PROVE  \A u \in Worker :
              /\ at'[u].locks \subseteq at'[u].left \cap Pending'
              /\ at'[u].phase = "idle" => at'[u].left = {}
              /\ \A v \in Worker \ {u} : at'[v].locks \cap at'[u].locks = {}
  <1>1. \A u \in Worker : /\ at'[u].locks \subseteq at[u].locks
                          /\ at'[u].locks \subseteq at'[u].left
                          /\ at'[u].phase = "idle" => at'[u].left = {}
    BY DEF TypeOK
  <1> QED BY <1>1 DEF TypeOK

LEMMA TypeInit == Init => TypeOK
BY LimitAssumption DEF Init, TypeOK, Idle, Phases, NoMessage

LEMMA TypeStep == TypeOK /\ [Next]_vars => TypeOK'
  <1> SUFFICES ASSUME TypeOK, [Next]_vars PROVE TypeOK'
    OBVIOUS
  <1> USE DEF NoMessage
  <1>1. ASSUME NEW m \in Message, Ingest(m) PROVE TypeOK'
    <2>1. Pending \subseteq Pending'
      BY <1>1 DEF Ingest, Pending, TypeOK
    <2>2. mixed' \subseteq Task \cup {NoTask}
      BY <1>1, TaskAssumption DEF Ingest, TypeOK
    <2> QED BY <1>1, <2>1, <2>2 DEF Ingest, TypeOK
  <1>2. ASSUME NEW w \in Worker, Take(w) PROVE TypeOK'
    <2> DEFINE B == Batch(Free)
    <2>1. B \subseteq Free /\ Free \subseteq Message /\ Free \subseteq Pending
      BY BatchWithin DEF Free, Pending
    <2>2. \A v \in Worker : at[v].locks \cap B = {}
      BY <2>1 DEF Free, Locked
    <2>3. at' = [at EXCEPT ![w] = [phase |-> "row", left |-> B, locks |-> B, found |-> FALSE]]
      BY <1>2 DEF Take
    <2>4. at' \in [Worker -> States] /\ Pending' = Pending
      BY <1>2, <2>1, <2>3 DEF Take, TypeOK, States, Phases, Pending, rows
    <2>5. \A u \in Worker :
             /\ at'[u].locks \subseteq at'[u].left \cap Pending'
             /\ at'[u].phase = "idle" => at'[u].left = {}
             /\ \A v \in Worker \ {u} : at'[v].locks \cap at'[u].locks = {}
      BY <2>1, <2>2, <2>3, <2>4 DEF TypeOK
    <2>6. mixed' \subseteq Task \cup {NoTask}
      BY <1>2, <2>1, TaskAssumption DEF Take, TypeOK
    <2> QED BY <1>2, <2>4, <2>5, <2>6 DEF Take, TypeOK, States, rows
  <1>3. ASSUME NEW w \in Worker, NEW m \in Message, Skip(w, m) \/ Reread(w, m) PROVE TypeOK'
    <2>1. UNCHANGED <<rows, crashes, marks>>
      BY <1>3 DEF Skip, Reread
    <2>2. at' = Done(w, m) \/ at' = To(w, "giveup")
      BY <1>3 DEF Skip, Reread
    <2>3. /\ at' \in [Worker -> States]
          /\ \A v \in Worker \ {w} : at'[v] = at[v]
          /\ at'[w].locks \subseteq at[w].locks /\ at'[w].locks \subseteq at'[w].left
          /\ at'[w].phase = "idle" => at'[w].left = {}
      <3>1. CASE at' = Done(w, m)
        BY <3>1, DoneType
      <3>2. CASE at' = To(w, "giveup")
        BY <3>2, ToType DEF Phases, TypeOK
      <3> QED BY <2>2, <3>1, <3>2
    <2>4. \A v \in Worker : at'[v].locks \subseteq Pending'
      BY <2>1, <2>3 DEF TypeOK, Pending, rows
    <2>5. \A u \in Worker :
             /\ at'[u].locks \subseteq at'[u].left \cap Pending'
             /\ at'[u].phase = "idle" => at'[u].left = {}
             /\ \A v \in Worker \ {u} : at'[v].locks \cap at'[u].locks = {}
      BY <2>3, <2>4, WorkersStep
    <2> QED BY <2>1, <2>3, <2>5 DEF TypeOK, States, rows, marks
  <1>4. ASSUME NEW w \in Worker,
               NEW m \in Message,
               Start(w, m) \/ Look(w, m) \/ Raise(w, m) \/ Flush(w, m) \/ Abort(w)
        PROVE  TypeOK'
    <2>1. UNCHANGED <<rows, crashes, mixed>> /\ crossed' \subseteq Message
      BY <1>4 DEF Start, Look, Raise, Flush, Abort, marks, TypeOK
    <2>2. /\ at' \in [Worker -> States]
          /\ \A v \in Worker \ {w} : at'[v] = at[v]
          /\ at'[w].locks \subseteq at[w].locks /\ at'[w].locks \subseteq at'[w].left
          /\ at'[w].phase # "idle"
      <3>1. CASE \E p \in {"look", "mark"} : at' = To(w, p)
        BY <3>1, ToType DEF Phases, TypeOK
      <3>2. CASE at' = Back(w, "failed")
        BY <3>2, BackType DEF Phases
      <3>3. CASE at' = [at EXCEPT ![w].phase = "write",
                                  ![w].found = task[TaskOf[m]] # NoMessage]
        <4> DEFINE f == task[TaskOf[m]] # NoMessage
        <4>1. f \in BOOLEAN /\ at' = [at EXCEPT ![w].phase = "write", ![w].found = f]
          BY <3>3
        <4>2. at[w].locks \subseteq at[w].left
          BY DEF TypeOK
        <4> HIDE DEF f
        <4> QED BY <4>1, <4>2, FoundType
      <3> QED BY <1>4, <3>1, <3>2, <3>3 DEF Start, Look, Raise, Flush, Abort
    <2>3. \A v \in Worker : at'[v].locks \subseteq Pending'
      BY <2>1, <2>2 DEF TypeOK, Pending, rows
    <2>4. \A u \in Worker :
             /\ at'[u].locks \subseteq at'[u].left \cap Pending'
             /\ at'[u].phase = "idle" => at'[u].left = {}
             /\ \A v \in Worker \ {u} : at'[v].locks \cap at'[u].locks = {}
      BY <2>2, <2>3, WorkersStep
    <2> QED BY <2>1, <2>2, <2>4 DEF TypeOK, States, rows
  <1>5. ASSUME NEW w \in Worker, NEW m \in Message, Commit(w, m) \/ GiveUp(w, m) PROVE TypeOK'
    <2>1. /\ at' = Done(w, m) /\ ~LockedByOther(w, m)
          /\ UNCHANGED <<crashes, marks>>
      BY <1>5 DEF Commit, GiveUp
    <2>2. /\ row' \in [Message -> {"none", "pending", "processed", "failed"}]
          /\ \A k \in Message \ {m} : row'[k] = row[k]
      BY <1>5 DEF Commit, GiveUp, TypeOK, MarkedFailed
    <2>3. task' \in [Task -> Message \cup {NoMessage}] /\ applied' \in [Message -> Nat]
      BY <1>5, TaskAssumption DEF Commit, GiveUp, TypeOK
    <2>4. /\ at' \in [Worker -> States]
          /\ \A v \in Worker \ {w} : at'[v] = at[v]
          /\ at'[w].locks = {}
          /\ at'[w].phase = "idle" => at'[w].left = {}
      BY <2>1, DoneType
    <2>5. \A v \in Worker : at'[v].locks \subseteq Pending'
      BY <2>1, <2>2, <2>4 DEF TypeOK, Pending, LockedByOther
    <2>6. \A u \in Worker :
             /\ at'[u].locks \subseteq at'[u].left \cap Pending'
             /\ at'[u].phase = "idle" => at'[u].left = {}
             /\ \A v \in Worker \ {u} : at'[v].locks \cap at'[u].locks = {}
      BY <2>4, <2>5, WorkersStep
    <2> QED BY <2>1, <2>2, <2>3, <2>4, <2>6 DEF TypeOK, States, marks
  <1>6. ASSUME NEW w \in Worker, Crash(w) PROVE TypeOK'
    <2>1. at' = [at EXCEPT ![w] = Idle] /\ crashes' \in 0 .. MaxCrashes /\ UNCHANGED <<rows, marks>>
      BY <1>6, LimitAssumption DEF Crash, TypeOK
    <2>2. /\ at' \in [Worker -> States]
          /\ \A v \in Worker \ {w} : at'[v] = at[v]
          /\ at'[w].locks = {} /\ at'[w].left = {}
      BY <2>1 DEF TypeOK, States, Phases, Idle
    <2>3. \A v \in Worker : at'[v].locks \subseteq Pending'
      BY <2>1, <2>2 DEF TypeOK, Pending, rows
    <2>4. \A u \in Worker :
             /\ at'[u].locks \subseteq at'[u].left \cap Pending'
             /\ at'[u].phase = "idle" => at'[u].left = {}
             /\ \A v \in Worker \ {u} : at'[v].locks \cap at'[u].locks = {}
      BY <2>2, <2>3, WorkersStep
    <2> QED BY <2>1, <2>2, <2>4 DEF TypeOK, States, rows, marks
  <1>7. ASSUME UNCHANGED vars PROVE TypeOK'
    BY <1>7 DEF vars, rows, marks, TypeOK, Pending
  <1>8. ASSUME NEW w \in Worker, Abort(w) PROVE TypeOK'
    <2>1. PICK m \in Message : AtWork(w, m)
      BY <1>8 DEF Abort, Deadlocked, WaitsFor
    <2> QED BY <1>8, <1>4
  <1> QED BY <1>1, <1>2, <1>3, <1>4, <1>5, <1>6, <1>7, <1>8 DEF Next, Tick

\* Rows, tasks and workers stay well formed; no row is locked by two workers and what is
\* locked is pending, for every number of messages and workers.
THEOREM TypeTheorem == Spec => []TypeOK
  <1>1. TypeOK /\ [Next]_vars => TypeOK'
    BY TypeStep
  <1> QED BY TypeInit, <1>1, PTL DEF Spec

-----------------------------------------------------------------------------
(* One effect per message                                                  *)

\* No step but Start puts a worker to work on a message it was not at work on.
LEMMA AtWorkStep ==
    ASSUME TypeOK, [Next]_vars, NEW u \in Worker, NEW k \in Message, AtWork(u, k)'
    PROVE  AtWork(u, k) \/ Start(u, k)
  <1>1. ASSUME at'[u] = at[u] PROVE AtWork(u, k)
    BY <1>1 DEF AtWork, IsFirst
  <1>2. ASSUME NEW m \in Message, Ingest(m) PROVE AtWork(u, k)
    BY <1>1, <1>2 DEF Ingest
  <1>3. ASSUME NEW w \in Worker, Take(w) PROVE AtWork(u, k)
    <2>1. CASE u = w
      BY <1>3, <2>1 DEF Take, TypeOK, AtWork
    <2> QED BY <1>1, <1>3, <2>1 DEF Take, TypeOK
  <1>4. ASSUME NEW w \in Worker, NEW m \in Message, at' = Done(w, m) PROVE AtWork(u, k)
    <2>1. CASE u = w
      BY <1>4, <2>1, DoneType DEF AtWork
    <2> QED BY <1>1, <1>4, <2>1, DoneType
  <1>5. ASSUME NEW w \in Worker, NEW p \in Phases, at' = To(w, p), at[w].phase \notin {"idle", "row"}
        PROVE  AtWork(u, k)
    <2>1. CASE u = w
      BY <1>5, <2>1, ToType DEF AtWork, IsFirst
    <2> QED BY <1>1, <1>5, <2>1, ToType
  <1>6. ASSUME NEW w \in Worker, at' = Back(w, "failed"), at[w].phase \notin {"idle", "row"}
        PROVE  AtWork(u, k)
    <2>1. CASE u = w
      BY <1>6, <2>1, BackType DEF AtWork, IsFirst, Phases
    <2> QED BY <1>1, <1>6, <2>1, BackType DEF Phases
  <1>7. ASSUME NEW w \in Worker, NEW m \in Message, Start(w, m)
        PROVE  AtWork(u, k) \/ Start(u, k)
    <2>1. CASE u = w
      <3>1. IsFirst(k, at[w].left)
        BY <1>7, <2>1, ToType DEF Start, AtWork, IsFirst, Phases
      <3>2. k = m
        BY <1>7, <3>1, MessageAssumption DEF Start, IsFirst
      <3> QED BY <1>7, <2>1, <3>2
    <2>2. CASE u # w
      BY <1>1, <1>7, <2>2, ToType DEF Start, Phases
    <2> QED BY <2>1, <2>2
  <1>8. ASSUME NEW w \in Worker, NEW m \in Message, Look(w, m) PROVE AtWork(u, k)
    <2>1. CASE TaskOf[m] = NoTask
      BY <1>5, <1>8, <2>1 DEF Look, Phases
    <2>2. CASE TaskOf[m] # NoTask
      <3> DEFINE f == task[TaskOf[m]] # NoMessage
      <3>1. f \in BOOLEAN /\ at' = [at EXCEPT ![w].phase = "write", ![w].found = f]
        BY <1>8, <2>2 DEF Look
      <3> HIDE DEF f
      <3>2. /\ at'[w].left = at[w].left
            /\ \A v \in Worker \ {w} : at'[v] = at[v]
        BY <3>1, FoundType
      <3> QED BY <1>1, <1>8, <3>2 DEF Look, AtWork, IsFirst
    <2> QED BY <2>1, <2>2
  <1>9. ASSUME NEW w \in Worker, NEW m \in Message,
               Skip(w, m) \/ Commit(w, m) \/ GiveUp(w, m) \/ Reread(w, m)
        PROVE  AtWork(u, k)
    BY <1>4, <1>5, <1>9 DEF Skip, Commit, GiveUp, Reread, Phases
  <1>10. ASSUME NEW w \in Worker, NEW m \in Message, Raise(w, m) \/ Flush(w, m)
        PROVE  AtWork(u, k)
    BY <1>5, <1>6, <1>10 DEF Raise, Flush, Phases
  <1>11. ASSUME NEW w \in Worker, Abort(w) PROVE AtWork(u, k)
    <2>1. at[w].phase \notin {"idle", "row"}
      BY <1>11 DEF Abort, Deadlocked, WaitsFor, AtWork
    <2> QED BY <1>6, <1>11, <2>1 DEF Abort
  <1>12. ASSUME NEW w \in Worker, Crash(w) PROVE AtWork(u, k)
    <2>1. CASE u = w
      BY <1>12, <2>1 DEF Crash, TypeOK, AtWork, Idle
    <2> QED BY <1>1, <1>12, <2>1 DEF Crash, TypeOK
  <1>13. CASE UNCHANGED vars
    BY <1>1, <1>13 DEF vars
  <1> QED BY <1>2, <1>3, <1>7, <1>8, <1>9, <1>10, <1>11, <1>12, <1>13 DEF Next, Tick

\* A step is that of a message sent, of a row given its final status by the worker at work
\* on it, or leaves rows and effects alone.
LEMMA RowStep ==
    ASSUME TypeOK, [Next]_vars
    PROVE  /\ crossed \subseteq crossed'
           /\ \/ UNCHANGED <<row, applied>>
              \/ \E m \in Message : Ingest(m)
              \/ \E w \in Worker, m \in Message : AtWork(w, m) /\ (Commit(w, m) \/ GiveUp(w, m))
  <1>1. ASSUME NEW w \in Worker, NEW m \in Message, Commit(w, m) \/ GiveUp(w, m)
        PROVE  AtWork(w, m) /\ crossed' = crossed
    BY <1>1 DEF Commit, GiveUp, AtWork, marks
  <1>2. ASSUME NEW w \in Worker, NEW m \in Message, Start(w, m)
        PROVE  crossed \subseteq crossed' /\ UNCHANGED <<row, applied>>
    BY <1>2 DEF Start, rows
  <1>3. ASSUME NEW w \in Worker, NEW m \in Message,
               Skip(w, m) \/ Look(w, m) \/ Raise(w, m) \/ Flush(w, m) \/ Reread(w, m)
        PROVE  UNCHANGED <<crossed, row, applied>>
    BY <1>3 DEF Skip, Look, Raise, Flush, Reread, rows, marks
  <1>4. ASSUME NEW w \in Worker, Take(w) \/ Abort(w) \/ Crash(w)
        PROVE  UNCHANGED <<crossed, row, applied>>
    BY <1>4 DEF Take, Abort, Crash, rows, marks
  <1>5. ASSUME NEW m \in Message, Ingest(m) PROVE crossed' = crossed
    BY <1>5 DEF Ingest
  <1>6. CASE UNCHANGED vars
    BY <1>6 DEF vars, rows, marks
  <1> QED BY <1>1, <1>2, <1>3, <1>4, <1>5, <1>6 DEF Next, Tick

LEMMA ApartStep == TypeOK /\ Apart /\ [Next]_vars => Apart'
  <1> SUFFICES ASSUME TypeOK, Apart, [Next]_vars,
                      NEW m \in Message, NEW w \in Worker, NEW v \in Worker,
                      AtWork(w, m)', AtWork(v, m)', w # v
               PROVE  m \in crossed'
    BY DEF Apart
  <1>1. (AtWork(w, m) \/ Start(w, m)) /\ (AtWork(v, m) \/ Start(v, m))
    BY AtWorkStep
  <1>2. CASE AtWork(w, m) /\ AtWork(v, m)
    BY <1>2, RowStep DEF Apart
  <1>3. ASSUME NEW a \in Worker, NEW b \in Worker, a # b, Start(a, m), AtWork(b, m)
        PROVE  m \in crossed'
    BY <1>3 DEF Start
  <1>4. ~(Start(w, m) /\ Start(v, m))
    <2> SUFFICES ASSUME Start(w, m), Start(v, m) PROVE FALSE
      OBVIOUS
    <2>1. at'[w].phase = "look" /\ at'[w] = at[w]
      BY ToType DEF Start, Phases
    <2> QED BY <2>1 DEF Start
  <1> QED BY <1>1, <1>2, <1>3, <1>4

LEMMA WorkedStep == OnceInv /\ [Next]_vars => WorkedIsPending'
  <1> SUFFICES ASSUME OnceInv, [Next]_vars,
                      NEW m \in Message, NEW w \in Worker, AtWork(w, m)', m \notin crossed'
               PROVE  row'[m] = "pending"
    BY DEF WorkedIsPending
  <1>1. m \notin crossed /\ (AtWork(w, m) \/ Start(w, m))
    BY AtWorkStep, RowStep DEF OnceInv
  <1>2. row[m] = "pending"
    BY <1>1 DEF OnceInv, WorkedIsPending, Start, StillPending
  <1>3. CASE UNCHANGED <<row, applied>>
    BY <1>2, <1>3
  <1>4. ASSUME NEW k \in Message, Ingest(k) PROVE row'[m] = "pending"
    BY <1>2, <1>4 DEF Ingest, OnceInv, TypeOK
  <1>5. ASSUME NEW v \in Worker, NEW k \in Message, AtWork(v, k), Commit(v, k) \/ GiveUp(v, k)
        PROVE  row'[m] = "pending"
    <2>1. at' = Done(v, k)
      BY <1>5 DEF Commit, GiveUp
    <2>2. ~AtWork(v, m)' /\ ~Start(w, m)
      <3>1. ~AtWork(v, m)'
        BY <2>1, DoneType DEF AtWork, OnceInv
      <3>2. ASSUME Start(w, m) PROVE FALSE
        <4>1. at'[w].phase = "look"
          BY <3>2, ToType DEF Start, Phases, OnceInv
        <4>2. w # v
          BY <2>1, <4>1, DoneType DEF OnceInv
        <4>3. at'[w] = at[w]
          BY <2>1, <4>2, DoneType DEF OnceInv
        <4> QED BY <3>2, <4>1, <4>3 DEF Start
      <3> QED BY <3>1, <3>2
    <2>3. w # v /\ AtWork(w, m)
      BY <1>1, <2>2
    <2>4. k # m
      BY <1>1, <1>5, <2>3 DEF OnceInv, Apart
    <2> QED BY <1>2, <1>5, <2>4 DEF Commit, GiveUp, OnceInv, TypeOK
  <1> QED BY <1>3, <1>4, <1>5, RowStep DEF OnceInv

LEMMA AppliedStep == OnceInv /\ [Next]_vars => AppliedOnce'
  <1> SUFFICES ASSUME OnceInv, [Next]_vars, NEW m \in Message, TaskOf[m] # NoTask
               PROVE  /\ m \notin crossed' => applied'[m] = IF row'[m] = "processed" THEN 1 ELSE 0
                      /\ row'[m] \in {"none", "pending"} => applied'[m] = 0
                      /\ row'[m] = "processed" => applied'[m] > 0
    BY DEF AppliedOnce
  <1>1. /\ m \notin crossed => applied[m] = IF row[m] = "processed" THEN 1 ELSE 0
        /\ row[m] \in {"none", "pending"} => applied[m] = 0
        /\ row[m] = "processed" => applied[m] > 0
    BY DEF OnceInv, AppliedOnce
  <1>2. applied[m] \in Nat
    BY DEF OnceInv, TypeOK
  <1>3. m \notin crossed' => m \notin crossed
    BY RowStep DEF OnceInv
  <1>4. CASE row'[m] = row[m] /\ applied'[m] = applied[m]
    BY <1>1, <1>3, <1>4
  <1>5. CASE row[m] = "none" /\ row'[m] = "pending" /\ applied'[m] = applied[m]
    BY <1>1, <1>5
  <1>6. ASSUME NEW v \in Worker, AtWork(v, m), m \notin crossed
        PROVE  applied[m] = 0
    BY <1>1, <1>6 DEF OnceInv, WorkedIsPending
  <1>7. ASSUME NEW v \in Worker, AtWork(v, m),
               row'[m] = "processed", applied'[m] = applied[m] + 1
        PROVE  /\ m \notin crossed' => applied'[m] = 1
               /\ applied'[m] > 0
    BY <1>2, <1>3, <1>6, <1>7
  <1>8. ASSUME NEW v \in Worker, AtWork(v, m),
               row'[m] = "failed", applied'[m] = applied[m]
        PROVE  m \notin crossed' => applied'[m] = 0
    BY <1>3, <1>6, <1>8
  <1>9. CASE UNCHANGED <<row, applied>>
    BY <1>4, <1>9
  <1>10. ASSUME NEW k \in Message, Ingest(k)
         PROVE  /\ applied' = applied
                /\ row'[m] = row[m] \/ (row[m] = "none" /\ row'[m] = "pending")
    BY <1>10 DEF Ingest, OnceInv, TypeOK
  <1>11. ASSUME NEW v \in Worker, NEW k \in Message, AtWork(v, k), Commit(v, k)
         PROVE  \/ row'[m] = row[m] /\ applied'[m] = applied[m]
                \/ k = m /\ row'[m] = "processed" /\ applied'[m] = applied[m] + 1
    BY <1>11 DEF Commit, OnceInv, TypeOK
  <1>12. ASSUME NEW v \in Worker, NEW k \in Message, AtWork(v, k), GiveUp(v, k)
         PROVE  /\ applied' = applied
                /\ row'[m] = row[m] \/ (k = m /\ row'[m] = "failed")
    BY <1>12 DEF GiveUp, MarkedFailed, OnceInv, TypeOK
  <1>13. CASE \E k \in Message : Ingest(k)
    BY <1>4, <1>5, <1>10, <1>13
  <1>14. CASE \E v \in Worker, k \in Message : AtWork(v, k) /\ Commit(v, k)
    BY <1>4, <1>7, <1>11, <1>14
  <1>15. CASE \E v \in Worker, k \in Message : AtWork(v, k) /\ GiveUp(v, k)
    BY <1>4, <1>8, <1>12, <1>15
  <1> QED BY <1>9, <1>13, <1>14, <1>15, RowStep DEF OnceInv

LEMMA OnceInit == Init => OnceInv
BY TypeInit DEF Init, OnceInv, Apart, WorkedIsPending, AppliedOnce, AtWork, Idle

LEMMA OnceStep == OnceInv /\ [Next]_vars => OnceInv'
  <1> SUFFICES ASSUME OnceInv, [Next]_vars PROVE OnceInv'
    OBVIOUS
  <1>1. TypeOK'
    BY TypeStep DEF OnceInv
  <1>2. Apart'
    BY ApartStep DEF OnceInv
  <1>3. WorkedIsPending' /\ AppliedOnce'
    BY WorkedStep, AppliedStep
  <1> QED BY <1>1, <1>2, <1>3 DEF OnceInv

\* A message takes effect exactly once when it is marked processed and never otherwise,
\* unless two workers were at work on it at the same moment.
THEOREM AppliedOnceTheorem == Spec => []AppliedOnce
  <1>1. OnceInv => AppliedOnce
    BY DEF OnceInv
  <1>2. OnceInv /\ [Next]_vars => OnceInv'
    BY OnceStep
  <1> QED BY OnceInit, <1>1, <1>2, PTL DEF Spec

\* With one worker process, however often it dies, no message takes effect twice.
THEOREM AloneTheorem ==
    ASSUME \A w, v \in Worker : w = v
    PROVE  Spec => [](\A m \in Message : TaskOf[m] # NoTask => applied[m] \in {0, 1})
  <1> DEFINE Alone == OnceInv /\ crossed = {}
  <1>1. Init => Alone
    BY OnceInit DEF Init
  <1>2. Alone /\ [Next]_vars => Alone'
    <2> SUFFICES ASSUME Alone, [Next]_vars PROVE crossed' = {}
      BY OnceStep
    <2>1. ASSUME NEW w \in Worker, NEW m \in Message, Start(w, m) PROVE crossed' = {}
      BY <2>1 DEF Start
    <2>2. ASSUME NEW w \in Worker, NEW m \in Message,
                 \/ Skip(w, m) \/ Look(w, m) \/ Raise(w, m) \/ Flush(w, m)
                 \/ Commit(w, m) \/ Reread(w, m) \/ GiveUp(w, m)
          PROVE  crossed' = {}
      BY <2>2 DEF Skip, Look, Raise, Flush, Commit, Reread, GiveUp, marks
    <2>3. ASSUME NEW w \in Worker, Take(w) \/ Abort(w) \/ Crash(w) PROVE crossed' = {}
      BY <2>3 DEF Take, Abort, Crash, marks
    <2>4. ASSUME NEW m \in Message, Ingest(m) PROVE crossed' = {}
      BY <2>4 DEF Ingest
    <2>5. CASE UNCHANGED vars
      BY <2>5 DEF vars, marks
    <2> QED BY <2>1, <2>2, <2>3, <2>4, <2>5 DEF Next, Tick
  <1>3. Alone => \A m \in Message : TaskOf[m] # NoTask => applied[m] \in {0, 1}
    BY DEF OnceInv, AppliedOnce
  <1> QED BY <1>1, <1>2, <1>3, PTL DEF Spec

-----------------------------------------------------------------------------
(* The order of messages                                                   *)

Ended(m) == row[m] \in {"processed", "failed"}

\* What a worker still has to do was sent.
LeftIsSent == \A w \in Worker : \A m \in at[w].left : row[m] # "none"

\* Two workers have messages of one task only if it is mixed.
OneBatch ==
    \A w, v \in Worker : w # v =>
        \A m \in at[w].left, n \in at[v].left : TaskOf[m] = TaskOf[n] => TaskOf[m] \in mixed

\* Two workers are at work on one message only if its task is mixed.
CrossedIsMixed == \A m \in crossed : TaskOf[m] \in mixed

\* Nobody is done with a message, or has it in a batch without those before it, while one
\* before it is pending.
InTurn ==
    \A m, k \in Message :
        m < k /\ TaskOf[m] = TaskOf[k] /\ TaskOf[m] \notin mixed /\ row[m] = "pending" =>
            /\ ~Ended(k)
            /\ \A w \in Worker : k \in at[w].left => m \in at[w].left

\* What a worker found of its task is still so when it writes.
FoundIsSo ==
    \A w \in Worker, m \in Message :
        at[w].phase = "write" /\ IsFirst(m, at[w].left) /\ TaskOf[m] \notin mixed =>
            at[w].found <=> task[TaskOf[m]] # NoMessage

\* No message before m that creates its task was applied.
Cause(m) ==
    \/ m \in Bad
    \/ /\ m \notin Creating
       /\ \A c \in Creating : c < m /\ TaskOf[c] = TaskOf[m] => row[c] # "processed"

\* A worker whose transaction was rolled back had a cause.
RollbackHasCause ==
    \A w \in Worker, m \in Message :
        at[w].phase \in {"failed", "giveup"} /\ IsFirst(m, at[w].left) /\ TaskOf[m] \notin mixed =>
            Cause(m)

OrderInv ==
    /\ OnceInv
    /\ LeftIsSent /\ OneBatch /\ CrossedIsMixed /\ InTurn
    /\ TaskFollowsOrder /\ FoundIsSo /\ RollbackHasCause /\ FailedForCause

-----------------------------------------------------------------------------
(* Steps                                                                   *)

\* A batch has with a row all those offered that came before it.
LEMMA OldestIsFirst ==
    ASSUME NEW S \in SUBSET Message, NEW m \in S, NEW k \in Batch(S), m < k
    PROVE  m \in Batch(S)
  <1> DEFINE Before(n) == {j \in S : j < n}
  <1>1. IsFiniteSet(Before(k))
    BY MessageAssumption, FS_Subset, Before(k) \in SUBSET Message
  <1>2. k \in S
    BY BatchWithin
  <1>3. Before(m) \subseteq Before(k)
    <2>1. \A j \in S : j < m => j < k
      <3>1. \A j \in S : j \in Nat
        BY MessageAssumption
      <3> QED BY <1>2, <3>1
    <2> QED BY <2>1
  <1>4. IsFiniteSet(Before(m)) /\ Cardinality(Before(m)) <= Cardinality(Before(k))
    BY <1>1, <1>3, FS_Subset
  <1>5. Cardinality(Before(m)) \in Nat /\ Cardinality(Before(k)) \in Nat
    BY <1>1, <1>4, FS_CardinalityType
  <1>6. Cardinality(Before(k)) < Limit
    BY DEF Batch, Oldest
  <1> QED BY <1>4, <1>5, <1>6, LimitAssumption DEF Batch, Oldest

\* A row is sent, or ended by the worker that is at work on it, or stays.
LEMMA RowChange ==
    ASSUME TypeOK, [Next]_vars, NEW m \in Message
    PROVE  \/ row'[m] = row[m]
           \/ Ingest(m) /\ row[m] = "none" /\ row'[m] = "pending"
           \/ \E w \in Worker : AtWork(w, m) /\ Commit(w, m) /\ row'[m] = "processed"
           \/ \E w \in Worker : AtWork(w, m) /\ GiveUp(w, m) /\ row'[m] = "failed"
  <1>1. ASSUME NEW k \in Message, Ingest(k)
        PROVE  row'[m] = row[m] \/ (k = m /\ row[m] = "none" /\ row'[m] = "pending")
    BY <1>1 DEF Ingest, TypeOK
  <1>2. ASSUME NEW k \in Message, NEW w \in Worker, Commit(w, k)
        PROVE  row'[m] = row[m] \/ (k = m /\ row'[m] = "processed")
    BY <1>2 DEF Commit, TypeOK
  <1>3. ASSUME NEW k \in Message, NEW w \in Worker, GiveUp(w, k)
        PROVE  row'[m] = row[m] \/ (k = m /\ row'[m] = "failed")
    BY <1>3 DEF GiveUp, MarkedFailed, TypeOK
  <1> QED BY <1>1, <1>2, <1>3, RowStep

\* Only a commit changes what a task shows.
LEMMA TaskChange ==
    ASSUME [Next]_vars
    PROVE  UNCHANGED task \/ \E w \in Worker, m \in Message : Commit(w, m)
  <1>1. ASSUME NEW w \in Worker, NEW m \in Message,
               \/ Skip(w, m) \/ Start(w, m) \/ Look(w, m) \/ Raise(w, m) \/ Flush(w, m)
               \/ Reread(w, m) \/ GiveUp(w, m)
        PROVE  UNCHANGED task
    BY <1>1 DEF Skip, Start, Look, Raise, Flush, Reread, GiveUp, rows
  <1>2. ASSUME NEW w \in Worker, Take(w) \/ Abort(w) \/ Crash(w) PROVE UNCHANGED task
    BY <1>2 DEF Take, Abort, Crash, rows
  <1>3. ASSUME NEW m \in Message, Ingest(m) PROVE UNCHANGED task
    BY <1>3 DEF Ingest
  <1>4. CASE UNCHANGED vars
    BY <1>4 DEF vars, rows
  <1> QED BY <1>1, <1>2, <1>3, <1>4 DEF Next, Tick

\* The rest of a batch stays, is dropped, or loses a row that is not pending.
LEMMA LeftChange ==
    ASSUME TypeOK, [Next]_vars
    PROVE  /\ mixed \subseteq mixed'
           /\ \/ \E w \in Worker : Take(w)
              \/ \A u \in Worker :
                    \/ at'[u].left \in {at[u].left, {}}
                    \/ \E x \in Message : row'[x] # "pending" /\ at'[u].left = at[u].left \ {x}
  <1> DEFINE Shrinks == \A u \in Worker :
                            \/ at'[u].left \in {at[u].left, {}}
                            \/ \E x \in Message : row'[x] # "pending" /\ at'[u].left = at[u].left \ {x}
  <1>1. ASSUME NEW w \in Worker, NEW m \in Message, at' = Done(w, m), row'[m] # "pending"
        PROVE  Shrinks
    <2>1. at'[w].left = at[w].left \ {m}
      BY <1>1 DEF Done, TypeOK
    <2>2. \A u \in Worker \ {w} : at'[u] = at[u]
      BY <1>1, DoneType
    <2> QED BY <1>1, <2>1, <2>2
  <1>2. ASSUME NEW w \in Worker, NEW p \in Phases, at' = To(w, p) \/ at' = Back(w, p)
        PROVE  Shrinks
    BY <1>2, ToType, BackType
  <1>3. ASSUME NEW w \in Worker, NEW m \in Message,
               Skip(w, m) \/ Reread(w, m) \/ Commit(w, m) \/ GiveUp(w, m)
        PROVE  Shrinks /\ mixed' = mixed
    <2>1. CASE Skip(w, m)
      BY <1>1, <2>1 DEF Skip, StillPending, rows, marks
    <2>2. CASE Reread(w, m)
      BY <1>1, <1>2, <2>2 DEF Reread, rows, marks, Phases
    <2>3. CASE Commit(w, m) \/ GiveUp(w, m)
      BY <1>1, <2>3 DEF Commit, GiveUp, MarkedFailed, marks, TypeOK
    <2> QED BY <1>3, <2>1, <2>2, <2>3
  <1>4. ASSUME NEW w \in Worker, NEW m \in Message, Start(w, m) \/ Raise(w, m) \/ Flush(w, m)
        PROVE  Shrinks /\ mixed' = mixed
    BY <1>2, <1>4 DEF Start, Raise, Flush, marks, Phases
  <1>5. ASSUME NEW w \in Worker, NEW m \in Message, Look(w, m)
        PROVE  Shrinks /\ mixed' = mixed
    <2>1. CASE TaskOf[m] = NoTask
      BY <1>2, <1>5, <2>1 DEF Look, marks, Phases
    <2>2. CASE TaskOf[m] # NoTask
      <3> DEFINE f == task[TaskOf[m]] # NoMessage
      <3>1. f \in BOOLEAN /\ at' = [at EXCEPT ![w].phase = "write", ![w].found = f]
        BY <1>5, <2>2 DEF Look
      <3> HIDE DEF f
      <3>2. /\ at'[w].left = at[w].left
            /\ \A v \in Worker \ {w} : at'[v] = at[v]
        BY <3>1, FoundType
      <3> QED BY <1>5, <3>2 DEF Look, marks
    <2> QED BY <2>1, <2>2
  <1>6. ASSUME NEW w \in Worker, Abort(w) PROVE Shrinks /\ mixed' = mixed
    BY <1>2, <1>6 DEF Abort, marks, Phases
  <1>7. ASSUME NEW w \in Worker, Crash(w) PROVE Shrinks /\ mixed' = mixed
    BY <1>7 DEF Crash, marks, Idle, TypeOK
  <1>8. ASSUME NEW w \in Worker, Take(w) PROVE mixed \subseteq mixed'
    BY <1>8 DEF Take
  <1>9. ASSUME NEW m \in Message, Ingest(m) PROVE Shrinks /\ mixed \subseteq mixed'
    BY <1>9 DEF Ingest
  <1>10. CASE UNCHANGED vars
    BY <1>10 DEF vars, marks
  <1> QED BY <1>3, <1>4, <1>5, <1>6, <1>7, <1>8, <1>9, <1>10 DEF Next, Tick

\* The batch a worker takes.
LEMMA TakeLeft ==
    ASSUME TypeOK, NEW w \in Worker, Take(w)
    PROVE  /\ at'[w].left = Batch(Free)
           /\ \A v \in Worker \ {w} : at'[v] = at[v]
           /\ at[w].left = {} /\ at[w].locks = {}
           /\ row' = row
           /\ \A k \in Batch(Free) : k \in Message /\ row[k] = "pending"
  <1>1. Batch(Free) \subseteq Free
    BY BatchWithin
  <1> QED BY <1>1 DEF Take, TypeOK, Free, Pending, rows

-----------------------------------------------------------------------------
(* Every step keeps the order                                              *)

LEMMA LeftIsSentStep == OrderInv /\ [Next]_vars => LeftIsSent'
  <1> SUFFICES ASSUME OrderInv, [Next]_vars, NEW w \in Worker, NEW m \in at'[w].left
               PROVE  row'[m] # "none"
    BY DEF LeftIsSent
  <1>1. TypeOK
    BY DEF OrderInv, OnceInv
  <1>2. ASSUME m \in Message, row[m] # "none" PROVE row'[m] # "none"
    BY <1>1, <1>2, RowChange
  <1>3. ASSUME m \in at[w].left PROVE row'[m] # "none"
    BY <1>1, <1>2, <1>3 DEF OrderInv, LeftIsSent, TypeOK
  <1>4. ASSUME NEW u \in Worker, Take(u) PROVE row'[m] # "none"
    BY <1>1, <1>3, <1>4, TakeLeft
  <1> QED BY <1>1, <1>3, <1>4, LeftChange

LEMMA OneBatchStep == OrderInv /\ [Next]_vars => OneBatch'
  <1> SUFFICES ASSUME OrderInv, [Next]_vars, NEW w \in Worker, NEW v \in Worker, w # v,
                      NEW m \in at'[w].left, NEW n \in at'[v].left, TaskOf[m] = TaskOf[n]
               PROVE  TaskOf[m] \in mixed'
    BY DEF OneBatch
  <1>1. TypeOK
    BY DEF OrderInv, OnceInv
  <1>2. CASE m \in at[w].left /\ n \in at[v].left
    BY <1>1, <1>2, LeftChange DEF OrderInv, OneBatch
  <1>3. ASSUME NEW u \in Worker, Take(u) PROVE TaskOf[m] \in mixed'
    <2>0. ASSUME NEW x \in Batch(Free), NEW y \in Worker \ {u}, NEW z \in at[y].left,
                 TaskOf[z] = TaskOf[x]
          PROVE  TaskOf[x] \in mixed'
      BY <1>3, <2>0 DEF Take
    <2>1. CASE u = w
      <3>1. m \in Batch(Free) /\ n \in at[v].left
        BY <1>1, <1>3, <2>1, TakeLeft
      <3> QED BY <2>0, <2>1, <3>1
    <2>2. CASE u = v
      <3>1. n \in Batch(Free) /\ m \in at[w].left
        BY <1>1, <1>3, <2>2, TakeLeft
      <3> QED BY <2>0, <2>2, <3>1
    <2>3. CASE u # w /\ u # v
      BY <1>1, <1>2, <1>3, <2>3, TakeLeft
    <2> QED BY <2>1, <2>2, <2>3
  <1> QED BY <1>1, <1>2, <1>3, LeftChange

\* Another worker at work on m has it in its batch.
LEMMA CrossedIsMixedStep == OrderInv /\ [Next]_vars => CrossedIsMixed'
  <1> SUFFICES ASSUME OrderInv, [Next]_vars, NEW m \in crossed'
               PROVE  TaskOf[m] \in mixed'
    BY DEF CrossedIsMixed
  <1>1. mixed \subseteq mixed'
    BY LeftChange DEF OrderInv, OnceInv
  <1>2. CASE m \in crossed
    BY <1>1, <1>2 DEF OrderInv, CrossedIsMixed
  <1>3. ASSUME NEW w \in Worker, NEW k \in Message, Start(w, k) PROVE TaskOf[m] \in mixed'
    <2>1. CASE m \notin crossed
      <3>1. PICK v \in Worker \ {w} : AtWork(v, k) /\ m = k
        BY <1>3, <2>1 DEF Start
      <3>2. m \in at[v].left /\ m \in at[w].left
        BY <1>3, <3>1 DEF Start, AtWork, IsFirst
      <3> QED BY <1>1, <3>1, <3>2 DEF OrderInv, OneBatch
    <2> QED BY <1>2, <2>1
  <1>4. CASE crossed' = crossed
    BY <1>2, <1>4
  <1>5. ASSUME NEW w \in Worker, NEW k \in Message,
               \/ Skip(w, k) \/ Look(w, k) \/ Raise(w, k) \/ Flush(w, k)
               \/ Commit(w, k) \/ Reread(w, k) \/ GiveUp(w, k)
        PROVE  crossed' = crossed
    BY <1>5 DEF Skip, Look, Raise, Flush, Commit, Reread, GiveUp, marks
  <1>6. ASSUME NEW w \in Worker, Take(w) \/ Abort(w) \/ Crash(w) PROVE crossed' = crossed
    BY <1>6 DEF Take, Abort, Crash, marks
  <1>7. ASSUME NEW k \in Message, Ingest(k) PROVE crossed' = crossed
    BY <1>7 DEF Ingest
  <1>8. CASE UNCHANGED vars
    BY <1>4, <1>8 DEF vars, marks
  <1> QED BY <1>3, <1>4, <1>5, <1>6, <1>7, <1>8 DEF Next, Tick

\* The worker at work on a message of a task that is not mixed is the only one that has it,
\* and the message is pending.
LEMMA AtWorkPending ==
    ASSUME OrderInv, NEW w \in Worker, NEW m \in Message, AtWork(w, m), TaskOf[m] \notin mixed
    PROVE  row[m] = "pending" /\ m \in at[w].left
BY DEF OrderInv, OnceInv, WorkedIsPending, CrossedIsMixed, AtWork, IsFirst

LEMMA InTurnStep == OrderInv /\ [Next]_vars => InTurn'
  <1> SUFFICES ASSUME OrderInv, [Next]_vars, NEW m \in Message, NEW k \in Message,
                      m < k, TaskOf[m] = TaskOf[k], TaskOf[m] \notin mixed', row'[m] = "pending"
               PROVE  /\ row'[k] \notin {"processed", "failed"}
                      /\ \A w \in Worker : k \in at'[w].left => m \in at'[w].left
    BY DEF InTurn, Ended
  <1>1. TypeOK /\ TaskOf[m] \notin mixed /\ m # k
    BY LeftChange, MessageAssumption DEF OrderInv, OnceInv
  <1>2. CASE Ingest(m) /\ row[m] = "none"
    <2>1. row[k] = "none" /\ row'[k] = row[k] /\ at' = at
      BY <1>1, <1>2, MessageAssumption DEF Ingest, TypeOK
    <2> QED BY <2>1 DEF OrderInv, LeftIsSent
  <1>3. CASE row[m] = "pending"
    <2>1. ~Ended(k) /\ \A w \in Worker : k \in at[w].left => m \in at[w].left
      BY <1>1, <1>3 DEF OrderInv, InTurn
    <2>2. \A w \in Worker : ~AtWork(w, k)
      BY <1>1, <2>1, MessageAssumption DEF AtWork, IsFirst
    <2>3. row'[k] \notin {"processed", "failed"}
      BY <1>1, <2>1, <2>2, RowChange DEF Ended
    <2>4. ASSUME NEW u \in Worker, Take(u), NEW w \in Worker, k \in at'[w].left
          PROVE  m \in at'[w].left
      <3>1. CASE w # u
        BY <1>1, <2>1, <2>4, <3>1, TakeLeft
      <3>2. CASE w = u
        <4>1. k \in Batch(Free)
          BY <1>1, <2>4, <3>2, TakeLeft
        <4>2. ASSUME NEW v \in Worker, m \in at[v].locks PROVE FALSE
          <5>1. v # u /\ m \in at[v].left
            BY <1>1, <2>4, <4>2, TakeLeft DEF TypeOK
          <5>2. TaskOf[k] \in mixed'
            BY <1>1, <2>4, <4>1, <5>1, TakeLeft DEF Take
          <5> QED BY <5>2
        <4>3. m \in Free /\ Free \in SUBSET Message
          BY <1>3, <4>2 DEF Free, Pending, Locked
        <4> QED BY <1>1, <2>4, <3>2, <4>1, <4>3, OldestIsFirst, TakeLeft
      <3> QED BY <3>1, <3>2
    <2>5. ASSUME NEW w \in Worker, k \in at'[w].left,
                 \/ at'[w].left \in {at[w].left, {}}
                 \/ \E x \in Message : row'[x] # "pending" /\ at'[w].left = at[w].left \ {x}
          PROVE  m \in at'[w].left
      BY <2>1, <2>5
    <2> QED BY <1>1, <2>3, <2>4, <2>5, LeftChange
  <1> QED BY <1>1, <1>2, <1>3, RowChange

-----------------------------------------------------------------------------
(* What the tasks show                                                     *)

LEMMA TaskFollowsOrderStep == OrderInv /\ [Next]_vars => TaskFollowsOrder'
  <1> SUFFICES ASSUME OrderInv, [Next]_vars, NEW m \in Message,
                      row'[m] = "processed", TaskOf[m] \in Task, TaskOf[m] \notin mixed'
               PROVE  m <= task'[TaskOf[m]]
    BY DEF TaskFollowsOrder
  <1>1. TypeOK /\ TaskOf[m] \notin mixed /\ m \in Nat
    BY LeftChange, MessageAssumption DEF OrderInv, OnceInv
  <1>2. row[m] = "processed" => m <= task[TaskOf[m]]
    BY <1>1 DEF OrderInv, TaskFollowsOrder
  <1>3. ASSUME NEW w \in Worker, NEW c \in Message, Commit(w, c)
        PROVE  m <= task'[TaskOf[m]]
    <2>1. TaskOf[c] # TaskOf[m] => task'[TaskOf[m]] = task[TaskOf[m]]
      BY <1>1, <1>3, TaskAssumption DEF Commit, TypeOK
    <2>2. TaskOf[c] = TaskOf[m] => task'[TaskOf[m]] = c
      BY <1>1, <1>3, TaskAssumption DEF Commit, TypeOK
    <2>3. c # m => row[m] = "processed"
      BY <1>1, <1>3 DEF Commit, TypeOK
    <2>4. ASSUME TaskOf[c] = TaskOf[m], c # m PROVE m <= c
      <3>1. AtWork(w, c)
        BY <1>3 DEF Commit, AtWork
      <3>2. row[c] = "pending"
        BY <1>1, <2>4, <3>1, AtWorkPending
      <3>3. ~(c < m)
        BY <1>1, <2>3, <2>4, <3>2 DEF OrderInv, InTurn, Ended
      <3> QED BY <1>1, <3>3, MessageAssumption
    <2>5. CASE TaskOf[c] = TaskOf[m]
      BY <1>1, <2>2, <2>4, <2>5
    <2>6. CASE TaskOf[c] # TaskOf[m]
      BY <1>2, <2>1, <2>3, <2>6
    <2> QED BY <2>5, <2>6
  <1>4. CASE UNCHANGED task /\ ~\E w \in Worker, c \in Message : Commit(w, c)
    <2>1. row[m] = "processed"
      BY <1>1, <1>4, RowChange
    <2> QED BY <1>2, <1>4, <2>1
  <1> QED BY <1>3, <1>4, TaskChange

-----------------------------------------------------------------------------
(* Why messages are given up                                               *)

\* A step of another worker, or of the sender, leaves a worker alone.
LEMMA WorkerChange ==
    ASSUME TypeOK, [Next]_vars, NEW w \in Worker
    PROVE  at'[w] = at[w] \/ Tick(w) \/ Crash(w)
  <1>1. ASSUME NEW v \in Worker, v # w, Tick(v) PROVE at'[w] = at[w]
    <2>1. ASSUME NEW m \in Message, at' = Done(v, m) PROVE at'[w] = at[w]
      BY <1>1, <2>1, DoneType
    <2>2. ASSUME NEW p \in Phases, at' = To(v, p) \/ at' = Back(v, p) PROVE at'[w] = at[w]
      BY <1>1, <2>2, ToType, BackType
    <2>3. ASSUME NEW m \in Message, Look(v, m) PROVE at'[w] = at[w]
      BY <1>1, <2>2, <2>3 DEF Look, Phases, TypeOK
    <2>4. ASSUME NEW m \in Message,
                 \/ Skip(v, m) \/ Start(v, m) \/ Raise(v, m) \/ Flush(v, m)
                 \/ Commit(v, m) \/ Reread(v, m) \/ GiveUp(v, m)
          PROVE  at'[w] = at[w]
      BY <2>1, <2>2, <2>4 DEF Skip, Start, Raise, Flush, Commit, Reread, GiveUp, Phases
    <2>5. CASE Take(v) \/ Abort(v)
      BY <1>1, <2>2, <2>5, TakeLeft DEF Abort, Phases
    <2> QED BY <1>1, <2>3, <2>4, <2>5 DEF Tick
  <1>2. ASSUME NEW v \in Worker, v # w, Crash(v) PROVE at'[w] = at[w]
    BY <1>2 DEF Crash, TypeOK
  <1>3. ASSUME NEW m \in Message, Ingest(m) PROVE at'[w] = at[w]
    BY <1>3 DEF Ingest
  <1>4. CASE UNCHANGED vars
    BY <1>4 DEF vars
  <1> QED BY <1>1, <1>2, <1>3, <1>4 DEF Next

\* How a worker comes to write.
LEMMA ToWrite ==
    ASSUME TypeOK, NEW w \in Worker, NEW m \in Message, Tick(w) \/ Crash(w),
           at'[w].phase = "write", IsFirst(m, at'[w].left)
    PROVE  at'[w].found <=> task'[TaskOf[m]] # NoMessage
  <1>1. ASSUME NEW k \in Message, at' = Done(w, k) PROVE FALSE
    BY <1>1, DoneType
  <1>2. ASSUME NEW p \in Phases \ {"write"}, at' = To(w, p) \/ at' = Back(w, p) PROVE FALSE
    BY <1>2, ToType, BackType
  <1>3. ASSUME NEW k \in Message,
               \/ Skip(w, k) \/ Start(w, k) \/ Raise(w, k) \/ Flush(w, k)
               \/ Commit(w, k) \/ Reread(w, k) \/ GiveUp(w, k)
        PROVE  FALSE
    BY <1>1, <1>2, <1>3 DEF Skip, Start, Raise, Flush, Commit, Reread, GiveUp, Phases
  <1>4. ~Abort(w) /\ ~Take(w) /\ ~Crash(w)
    BY <1>2 DEF Abort, Take, Crash, Idle, TypeOK, Phases
  <1>5. PICK k \in Message : Look(w, k)
    BY <1>3, <1>4 DEF Tick
  <1>6. at' = [at EXCEPT ![w].phase = "write", ![w].found = task[TaskOf[k]] # NoMessage]
    BY <1>2, <1>5 DEF Look, Phases
  <1>7. /\ at'[w].left = at[w].left
        /\ at'[w].found <=> task[TaskOf[k]] # NoMessage
    BY <1>6 DEF TypeOK
  <1>8. k = m
    <2>1. IsFirst(k, at[w].left) /\ IsFirst(m, at[w].left)
      BY <1>5, <1>7 DEF Look
    <2> QED BY <2>1, MessageAssumption DEF IsFirst
  <1>9. task' = task
    BY <1>5 DEF Look, rows
  <1> QED BY <1>7, <1>8, <1>9

\* How a transaction comes to be rolled back.
LEMMA ToRollback ==
    ASSUME TypeOK, NEW w \in Worker, NEW m \in Message, Tick(w) \/ Crash(w),
           at'[w].phase \in {"failed", "giveup"}, IsFirst(m, at'[w].left)
    PROVE  /\ row' = row
           /\ \/ Raises(m)
              \/ /\ at[w].phase = "write" /\ IsFirst(m, at[w].left)
                 /\ ~at[w].found /\ task[TaskOf[m]] # NoMessage
              \/ at[w].phase = "failed" /\ IsFirst(m, at[w].left)
              \/ Deadlocked(w) /\ AtWork(w, m)
  <1>1. ASSUME NEW k \in Message, at' = Done(w, k) PROVE FALSE
    BY <1>1, DoneType
  <1>2. ASSUME NEW p \in Phases \ {"failed", "giveup"}, at' = To(w, p) PROVE FALSE
    BY <1>2, ToType
  <1>3. ASSUME NEW k \in Message, Skip(w, k) \/ Start(w, k) \/ Commit(w, k) \/ GiveUp(w, k)
        PROVE  FALSE
    BY <1>1, <1>2, <1>3 DEF Skip, Start, Commit, GiveUp, Phases
  <1>4. ASSUME NEW k \in Message, Look(w, k) PROVE FALSE
    BY <1>2, <1>4 DEF Look, Phases, TypeOK
  <1>5. ~Take(w) /\ ~Crash(w)
    BY DEF Take, Crash, Idle, TypeOK
  <1>6. ASSUME NEW k \in Message, at' = Back(w, "failed") \/ at' = To(w, "giveup"),
               IsFirst(k, at[w].left)
        PROVE  k = m
    <2>1. at'[w].left = at[w].left
      BY <1>6, BackType, ToType DEF Phases
    <2> QED BY <1>6, <2>1, MessageAssumption DEF IsFirst
  <1>7. ASSUME NEW k \in Message, Raise(w, k) PROVE row' = row /\ Raises(m)
    BY <1>6, <1>7 DEF Raise, rows
  <1>8. ASSUME NEW k \in Message, Flush(w, k)
        PROVE  /\ row' = row
               /\ at[w].phase = "write" /\ IsFirst(m, at[w].left)
               /\ ~at[w].found /\ task[TaskOf[m]] # NoMessage
    BY <1>2, <1>6, <1>8 DEF Flush, rows, Phases
  <1>9. ASSUME NEW k \in Message, Reread(w, k)
        PROVE  row' = row /\ at[w].phase = "failed" /\ IsFirst(m, at[w].left)
    BY <1>1, <1>6, <1>9 DEF Reread, rows
  <1>10. ASSUME Abort(w) PROVE row' = row /\ Deadlocked(w) /\ AtWork(w, m)
    <2>1. PICK k \in Message : AtWork(w, k)
      BY <1>10 DEF Abort, Deadlocked, WaitsFor
    <2>2. k = m
      BY <1>6, <1>10, <2>1 DEF Abort, AtWork
    <2> QED BY <1>10, <2>1, <2>2 DEF Abort, rows
  <1> QED BY <1>3, <1>4, <1>5, <1>7, <1>8, <1>9, <1>10 DEF Tick

\* A worker in a deadlock waits for one that has a message of the same task.
LEMMA DeadlockIsMixed ==
    ASSUME OrderInv, NEW w \in Worker, NEW m \in Message, AtWork(w, m), Deadlocked(w)
    PROVE  TaskOf[m] \in mixed
  <1>1. PICK v \in Worker \ {w} : WaitsFor(w, v)
    BY DEF Deadlocked
  <1>2. PICK k \in Message :
            /\ AtWork(w, k)
            /\ \/ Writes(v, TaskOf[k])
               \/ k \in at[v].locks
    BY <1>1 DEF WaitsFor
  <1>3. k = m /\ m \in at[w].left
    BY <1>2, MessageAssumption DEF AtWork, IsFirst
  <1>4. CASE Writes(v, TaskOf[m])
    <2>1. PICK n \in Message : AtWork(v, n) /\ TaskOf[n] = TaskOf[m]
      BY <1>4 DEF Writes
    <2>2. n \in at[v].left
      BY <2>1 DEF AtWork, IsFirst
    <2> QED BY <1>3, <2>1, <2>2 DEF OrderInv, OneBatch
  <1>5. CASE m \in at[v].locks
    <2>1. m \in at[v].left
      BY <1>5 DEF OrderInv, OnceInv, TypeOK
    <2> QED BY <1>3, <2>1 DEF OrderInv, OneBatch
  <1> QED BY <1>2, <1>3, <1>4, <1>5

\* A handler that raises has a cause.
LEMMA RaiseHasCause ==
    ASSUME OrderInv, NEW m \in Message, TaskOf[m] \notin mixed, Raises(m)
    PROVE  Cause(m)
  <1> SUFFICES ASSUME m \notin Bad,
                      NEW c \in Creating, c < m, TaskOf[c] = TaskOf[m], row[c] = "processed"
               PROVE  FALSE
    BY DEF Raises, Cause
  <1>1. TaskOf[c] \in Task \ mixed /\ task[TaskOf[c]] = NoMessage /\ c \in Message
    BY TaskAssumption, KindAssumption DEF Raises
  <1>2. c <= NoMessage
    BY <1>1 DEF OrderInv, TaskFollowsOrder
  <1> QED BY <1>1, <1>2, MessageAssumption DEF NoMessage

\* Nobody commits an earlier message of a task that is not mixed any more, once m is ended
\* or the first of a batch.
LEMMA CauseStays ==
    ASSUME OrderInv, [Next]_vars, NEW m \in Message, TaskOf[m] \notin mixed', Cause(m),
           \/ Ended(m)
           \/ \E w \in Worker : IsFirst(m, at[w].left)
    PROVE  Cause(m)'
  <1> SUFFICES ASSUME m \notin Bad, NEW c \in Creating, c < m, TaskOf[c] = TaskOf[m],
                      row[c] # "processed", row'[c] = "processed"
               PROVE  FALSE
    BY DEF Cause
  <1>1. TypeOK /\ TaskOf[m] \notin mixed /\ c \in Message
    BY LeftChange, KindAssumption DEF OrderInv, OnceInv
  <1>2. PICK v \in Worker : AtWork(v, c)
    BY <1>1, RowChange
  <1>3. row[c] = "pending" /\ c \in at[v].left
    BY <1>1, <1>2, AtWorkPending
  <1>4. ~Ended(m)
    BY <1>1, <1>3 DEF OrderInv, InTurn
  <1>5. ASSUME NEW w \in Worker, IsFirst(m, at[w].left) PROVE FALSE
    <2>1. m \in at[w].left /\ c \in at[w].left
      BY <1>1, <1>3, <1>5 DEF OrderInv, InTurn, IsFirst
    <2> QED BY <1>1, <1>5, <2>1, MessageAssumption DEF IsFirst
  <1> QED BY <1>4, <1>5

LEMMA FoundIsSoStep == OrderInv /\ [Next]_vars => FoundIsSo'
  <1> SUFFICES ASSUME OrderInv, [Next]_vars, NEW w \in Worker, NEW m \in Message,
                      at'[w].phase = "write", IsFirst(m, at'[w].left), TaskOf[m] \notin mixed'
               PROVE  at'[w].found <=> task'[TaskOf[m]] # NoMessage
    BY DEF FoundIsSo
  <1>1. TypeOK /\ TaskOf[m] \notin mixed
    BY LeftChange DEF OrderInv, OnceInv
  <1>2. CASE Tick(w) \/ Crash(w)
    BY <1>1, <1>2, ToWrite
  <1>3. CASE at'[w] = at[w]
    <2>1. at[w].found <=> task[TaskOf[m]] # NoMessage
      BY <1>1, <1>3 DEF OrderInv, FoundIsSo
    <2>2. ASSUME NEW v \in Worker, NEW c \in Message, Commit(v, c)
          PROVE  task'[TaskOf[m]] = task[TaskOf[m]]
      <3>1. v # w
        BY <1>1, <1>3, <2>2, DoneType DEF Commit
      <3>2. TaskOf[c] # TaskOf[m]
        BY <1>1, <1>3, <2>2, <3>1 DEF Commit, IsFirst, OrderInv, OneBatch
      <3> QED BY <1>1, <2>2, <3>2 DEF Commit, TypeOK
    <2> QED BY <1>3, <2>1, <2>2, TaskChange
  <1> QED BY <1>1, <1>2, <1>3, WorkerChange

LEMMA RollbackHasCauseStep == OrderInv /\ [Next]_vars => RollbackHasCause'
  <1> SUFFICES ASSUME OrderInv, [Next]_vars, NEW w \in Worker, NEW m \in Message,
                      at'[w].phase \in {"failed", "giveup"}, IsFirst(m, at'[w].left),
                      TaskOf[m] \notin mixed'
               PROVE  Cause(m)'
    BY DEF RollbackHasCause
  <1>1. TypeOK /\ TaskOf[m] \notin mixed
    BY LeftChange DEF OrderInv, OnceInv
  <1>2. CASE Tick(w) \/ Crash(w)
    <2>1. row' = row /\ (Cause(m) => Cause(m)')
      BY <1>1, <1>2, ToRollback DEF Cause
    <2>2. CASE Raises(m)
      BY <1>1, <2>1, <2>2, RaiseHasCause
    <2>3. CASE at[w].phase = "failed" /\ IsFirst(m, at[w].left)
      BY <1>1, <2>1, <2>3 DEF OrderInv, RollbackHasCause
    <2>4. ~(at[w].phase = "write" /\ IsFirst(m, at[w].left)
              /\ ~at[w].found /\ task[TaskOf[m]] # NoMessage)
      BY <1>1 DEF OrderInv, FoundIsSo
    <2>5. ~(Deadlocked(w) /\ AtWork(w, m))
      BY <1>1, DeadlockIsMixed
    <2> QED BY <1>1, <1>2, <2>2, <2>3, <2>4, <2>5, ToRollback
  <1>3. CASE at'[w] = at[w]
    <2>1. Cause(m) /\ IsFirst(m, at[w].left)
      BY <1>1, <1>3 DEF OrderInv, RollbackHasCause
    <2> QED BY <2>1, CauseStays
  <1> QED BY <1>1, <1>2, <1>3, WorkerChange

LEMMA FailedForCauseStep == OrderInv /\ [Next]_vars => FailedForCause'
  <1> SUFFICES ASSUME OrderInv, [Next]_vars, NEW m \in Message,
                      row'[m] = "failed", TaskOf[m] \notin mixed'
               PROVE  Cause(m)'
    BY DEF FailedForCause, Cause
  <1>1. TypeOK /\ TaskOf[m] \notin mixed
    BY LeftChange DEF OrderInv, OnceInv
  <1>2. CASE row[m] = "failed"
    <2>1. Cause(m)
      BY <1>1, <1>2 DEF OrderInv, FailedForCause, Cause
    <2> QED BY <1>2, <2>1, CauseStays DEF Ended
  <1>3. ASSUME NEW w \in Worker, GiveUp(w, m) PROVE Cause(m)'
    <2>1. Cause(m) /\ IsFirst(m, at[w].left)
      BY <1>1, <1>3 DEF GiveUp, OrderInv, RollbackHasCause
    <2> QED BY <2>1, CauseStays
  <1> QED BY <1>1, <1>2, <1>3, RowChange

-----------------------------------------------------------------------------

LEMMA OrderInit == Init => OrderInv
BY OnceInit DEF Init, OrderInv, LeftIsSent, OneBatch, CrossedIsMixed, InTurn,
                TaskFollowsOrder, FoundIsSo, RollbackHasCause, FailedForCause, Idle

LEMMA OrderStep == OrderInv /\ [Next]_vars => OrderInv'
  <1> SUFFICES ASSUME OrderInv, [Next]_vars PROVE OrderInv'
    OBVIOUS
  <1>1. OnceInv'
    BY OnceStep DEF OrderInv
  <1>2. LeftIsSent' /\ OneBatch' /\ CrossedIsMixed' /\ InTurn'
    BY LeftIsSentStep, OneBatchStep, CrossedIsMixedStep, InTurnStep
  <1>3. TaskFollowsOrder' /\ FoundIsSo' /\ RollbackHasCause' /\ FailedForCause'
    BY TaskFollowsOrderStep, FoundIsSoStep, RollbackHasCauseStep, FailedForCauseStep
  <1> QED BY <1>1, <1>2, <1>3 DEF OrderInv

\* Whatever fails, is taken up again or dies, the status of a task is that of the last
\* message applied to it, if its messages came in order and were never in the batches of two
\* workers at once.
THEOREM TaskFollowsOrderTheorem == Spec => []TaskFollowsOrder
  <1>1. OrderInv => TaskFollowsOrder
    BY DEF OrderInv
  <1>2. OrderInv /\ [Next]_vars => OrderInv'
    BY OrderStep
  <1> QED BY OrderInit, <1>1, <1>2, PTL DEF Spec

\* Under the same condition a message is given up only if its handler raises, or if its task
\* was created by none of the messages before it.
THEOREM FailedForCauseTheorem == Spec => []FailedForCause
  <1>1. OrderInv => FailedForCause
    BY DEF OrderInv
  <1>2. OrderInv /\ [Next]_vars => OrderInv'
    BY OrderStep
  <1> QED BY OrderInit, <1>1, <1>2, PTL DEF Spec

=============================================================================

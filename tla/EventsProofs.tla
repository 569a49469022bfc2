---------------------------- MODULE EventsProofs ----------------------------
(***************************************************************************)
(* Theorems about module Events: what several dispatchers, crashes and     *)
(* replays can never do to claims, deliveries and poses.                   *)
(***************************************************************************)
EXTENDS Events, TLAPS

-----------------------------------------------------------------------------
(* The inductive invariant                                                 *)

\* A row a dispatcher works on is pending, and no other transaction has it.
BatchesAreLocked ==
    /\ \A w \in Worker : Batch(w) \subseteq Pending
    /\ \A v, w \in Worker : v # w => Batch(v) \cap Batch(w) = {}
    /\ \A w \in Worker : Batch(w) \cap replay.locked = {}

\* Only a pending row has attempts to spare, and only an emitted one has any.
AttemptsLeft ==
    \A e \in Event : /\ outbox[e] = "pending" => attempts[e] < MaxAttempts
                     /\ outbox[e] = "none" => attempts[e] = 0

\* A dispatcher claims what it runs, for rows of its batch, where no claim is
\* committed; a row it will complete has all its claims.
ClaimsOfBatch(w) ==
    /\ tx[w].claims = tx[w].ran
    /\ \A p \in tx[w].ran : p[2] \in Batch(w)
    /\ tx[w].ran \cap claimed = {}
    /\ \A e \in tx[w].done, c \in Consumer : <<c, e>> \in claimed \cup tx[w].claims

\* A dispatcher writes the pose it claims, and none that a replay is deleting.
PosesOfBatch(w) ==
    /\ \A e \in Event : <<"twin_equipment_pose", e>> \in tx[w].claims =>
           \A x \in About[e] : tx[w].poses[x] # NoEvent
    /\ \A x \in replay.poses : tx[w].poses[x] = NoEvent

\* A replay names the poses.
Replays == "twin_equipment_pose" \in replay.names

\* A claim the replay has not seen is for a pose that is there and stays.
ReplayKeepsPoses ==
    replay.phase \in {"claims", "outbox"} /\ Replays =>
        \A e \in Event : <<"twin_equipment_pose", e>> \in claimed \ replay.claims =>
            About[e] \cap (replay.poses \cup wiped) = {}

IInv ==
    /\ TypeOK
    /\ BatchesAreLocked
    /\ AttemptsLeft
    /\ \A w \in Worker : ClaimsOfBatch(w) /\ PosesOfBatch(w)
    /\ ReplayKeepsPoses
    /\ ClaimIsOneRun
    /\ DoneIsDelivered
    /\ ClaimedPoseIsShown

USE DEF Consumer

LEMMA InitInv == Init => IInv
<1> SUFFICES ASSUME Init PROVE IInv
  OBVIOUS
<1>1. NoTx \in Tx /\ NoReplay \in ReplayTx
  BY DEF NoTx, Begin, Tx, NoReplay, ReplayTx
<1>2. TypeOK
  BY <1>1, LimitAssumption, BoundAssumption DEF Init, TypeOK
<1>3. \A w \in Worker : Batch(w) = {}
  BY DEF Init, Batch, NoTx, Begin
<1>4. BatchesAreLocked
  BY <1>3 DEF BatchesAreLocked
<1>5. AttemptsLeft
  BY LimitAssumption DEF Init, AttemptsLeft
<1>6. \A w \in Worker : ClaimsOfBatch(w) /\ PosesOfBatch(w)
  BY DEF Init, ClaimsOfBatch, PosesOfBatch, NoTx, Begin, NoReplay
<1>7. ReplayKeepsPoses /\ ClaimIsOneRun /\ DoneIsDelivered /\ ClaimedPoseIsShown
  BY DEF Init, ReplayKeepsPoses, NoReplay, ClaimIsOneRun, DoneIsDelivered, ClaimedPoseIsShown
<1> QED
  BY <1>2, <1>4, <1>5, <1>6, <1>7 DEF IInv

-----------------------------------------------------------------------------
(* Steps inside the transaction of one dispatcher                          *)

\* The rows of a transaction.
RowsOf(s) == s.left \cup s.done \cup s.failed

\* What the transaction s of dispatcher w has to look like.
GoodTx(s, w) ==
    /\ s \in Tx
    /\ RowsOf(s) \subseteq Pending
    /\ \A v \in Worker \ {w} : RowsOf(s) \cap Batch(v) = {}
    /\ RowsOf(s) \cap replay.locked = {}
    /\ s.claims = s.ran
    /\ \A p \in s.ran : p[2] \in RowsOf(s)
    /\ s.ran \cap claimed = {}
    /\ \A e \in s.done, c \in Consumer : <<c, e>> \in claimed \cup s.claims
    /\ \A e \in Event : <<"twin_equipment_pose", e>> \in s.claims => \A x \in About[e] : s.poses[x] # NoEvent
    /\ \A x \in replay.poses : s.poses[x] = NoEvent

LEMMA TxStep ==
  ASSUME IInv, NEW w \in Worker, NEW s, GoodTx(s, w), tx' = [tx EXCEPT ![w] = s],
         crashes' \in 0 .. MaxCrashes, UNCHANGED <<rows, replay, replays>>
  PROVE  IInv'
<1> USE DEF rows
<1>1. TypeOK'
  BY DEF IInv, TypeOK, GoodTx
<1>2. /\ \A v \in Worker : tx'[v] = IF v = w THEN s ELSE tx[v]
      /\ \A v \in Worker : Batch(v)' = IF v = w THEN RowsOf(s) ELSE Batch(v)
      /\ Pending' = Pending
  BY DEF IInv, TypeOK, Batch, RowsOf, Pending
<1>3. BatchesAreLocked'
  BY <1>2 DEF IInv, BatchesAreLocked, GoodTx
<1>4. ASSUME NEW v \in Worker PROVE ClaimsOfBatch(v)' /\ PosesOfBatch(v)'
  BY <1>2 DEF IInv, ClaimsOfBatch, PosesOfBatch, GoodTx
<1>5. (AttemptsLeft /\ ReplayKeepsPoses /\ ClaimIsOneRun /\ DoneIsDelivered /\ ClaimedPoseIsShown)'
  BY DEF IInv, AttemptsLeft, ReplayKeepsPoses, Replays, ClaimIsOneRun, DoneIsDelivered, ClaimedPoseIsShown
<1> QED
  BY <1>1, <1>3, <1>4, <1>5 DEF IInv

LEMMA NoTxIsGood == ASSUME IInv, NEW w \in Worker PROVE GoodTx(NoTx, w)
<1>1. \A x \in replay.poses : x \in Equipment
  BY DEF IInv, TypeOK, ReplayTx
<1> QED
  BY <1>1 DEF GoodTx, NoTx, Begin, Tx, RowsOf

LEMMA RollbackStep ==
  ASSUME IInv, NEW w \in Worker, Rollback(w), crashes' \in 0 .. MaxCrashes, UNCHANGED replays
  PROVE  IInv'
  BY NoTxIsGood, TxStep DEF Rollback

LEMMA TakeStep == ASSUME IInv, NEW w \in Worker, Take(w) PROVE IInv'
<1> DEFINE s == Begin(TRUE, Oldest(Pending \ Locked))
<1>1. Oldest(Pending \ Locked) \subseteq Pending \ Locked
  BY DEF Oldest
<1>2. Pending \subseteq Event
  BY DEF Pending
<1>3. /\ s.left = Oldest(Pending \ Locked) /\ s.done = {} /\ s.failed = {}
      /\ s.claims = {} /\ s.ran = {} /\ s.poses = [x \in Equipment |-> NoEvent]
  BY DEF Begin
<1>4. s \in Tx
  BY <1>1, <1>2 DEF Begin, Tx
<1>5. RowsOf(s) = Oldest(Pending \ Locked)
  BY <1>3 DEF RowsOf
<1>6. \A x \in replay.poses : x \in Equipment
  BY DEF IInv, TypeOK, ReplayTx
<1>7. \A v \in Worker : Batch(v) \subseteq Locked
  BY DEF Locked, Taken
<1>8. GoodTx(s, w)
  <2> HIDE DEF s
  <2> QED BY <1>1, <1>3, <1>4, <1>5, <1>6, <1>7 DEF GoodTx, Locked
<1>9. crashes' \in 0 .. MaxCrashes
  BY DEF Take, IInv, TypeOK
<1> QED
  BY <1>8, <1>9, TxStep DEF Take, rows

LEMMA DeliverStep == ASSUME IInv, NEW w \in Worker, Deliver(w) PROVE IInv'
<1>1. PICK e \in tx[w].left :
         /\ ~Conflicts(w, e)
         /\ \/ Rollback(w)
            \/ tx' = [tx EXCEPT ![w] = Delivered(tx[w], e)] /\ UNCHANGED <<rows, replay>>
  BY DEF Deliver
<1>2. UNCHANGED replays /\ crashes' \in 0 .. MaxCrashes
  BY DEF Deliver, IInv, TypeOK
<1>3. CASE Rollback(w)
  BY <1>2, <1>3, RollbackStep
<1>4. CASE tx' = [tx EXCEPT ![w] = Delivered(tx[w], e)] /\ UNCHANGED <<rows, replay>>
  <2> DEFINE s == Delivered(tx[w], e)
  <2>1. tx[w] \in Tx /\ e \in Event
    BY DEF IInv, TypeOK, Tx
  <2>2. Runs(e) \subseteq Unclaimed(e) /\ Unclaimed(e) \subseteq Consumer
    BY DEF Runs, Unclaimed
  <2>3. Claims(e) = Runs(e) \X {e} /\ Claims(e) \subseteq Consumer \X Event
    BY <2>1, <2>2 DEF Claims
  <2>4. Poses(e) \subseteq Equipment
    BY <2>1, EquipmentAssumption DEF Poses
  <2>5. s \in Tx
    BY <2>1, <2>3 DEF Delivered, Tx
  <2>6. RowsOf(s) = Batch(w)
    BY DEF RowsOf, Batch, Delivered
  <2>7. s.claims = s.ran
    BY <2>3 DEF Delivered, IInv, ClaimsOfBatch
  <2>8. \A p \in s.ran : p[2] \in RowsOf(s)
    BY <2>6, <2>2 DEF Delivered, IInv, ClaimsOfBatch, Batch
  <2>9. s.ran \cap claimed = {}
    BY <2>2 DEF Delivered, IInv, ClaimsOfBatch, Unclaimed
  <2>10. ASSUME NEW d \in s.done, NEW c \in Consumer PROVE <<c, d>> \in claimed \cup s.claims
    <3>1. CASE d \in tx[w].done
      BY <3>1 DEF Delivered, IInv, ClaimsOfBatch
    <3>2. CASE d = e /\ Succeeds(e)
      <4>1. Runs(e) = Unclaimed(e)
        BY <3>2 DEF Succeeds, Runs
      <4> QED
        BY <3>2, <4>1, <2>3 DEF Unclaimed, Delivered
    <3> QED
      BY <3>1, <3>2 DEF Delivered
  <2>11. ASSUME NEW d \in Event, <<"twin_equipment_pose", d>> \in s.claims, NEW x \in About[d]
         PROVE  s.poses[x] # NoEvent
    <3>1. x \in Equipment /\ s.poses[x] = IF x \in Poses(e) THEN e ELSE tx[w].poses[x]
      BY EquipmentAssumption DEF Delivered
    <3>2. e # NoEvent
      BY <2>1, EventAssumption DEF NoEvent
    <3>3. CASE <<"twin_equipment_pose", d>> \in tx[w].claims
      BY <3>1, <3>2, <3>3 DEF IInv, PosesOfBatch
    <3>4. CASE <<"twin_equipment_pose", d>> \in Claims(e)
      BY <3>1, <3>2, <3>4 DEF Claims, Poses
    <3> QED
      BY <2>11, <3>3, <3>4 DEF Delivered
  <2>12. ASSUME NEW x \in replay.poses PROVE s.poses[x] = NoEvent
    <3>1. x \in Equipment /\ x \notin Poses(e)
      BY <1>1 DEF Conflicts, IInv, TypeOK, ReplayTx
    <3> QED
      BY <3>1 DEF Delivered, IInv, PosesOfBatch
  <2>13. GoodTx(s, w)
    <3> HIDE DEF s
    <3> QED BY <2>5, <2>6, <2>7, <2>8, <2>9, <2>10, <2>11, <2>12 DEF GoodTx, IInv, BatchesAreLocked
  <2> QED
    BY <1>2, <1>4, <2>13, TxStep
<1> QED
  BY <1>1, <1>3, <1>4

-----------------------------------------------------------------------------
(* Emission and commit                                                     *)

LEMMA EmitStep == ASSUME IInv, NEW e \in Event, Emit(e) PROVE IInv'
<1> USE DEF Emit
<1>1. /\ outbox' \in [Event -> {"none", "pending", "done", "dead"}]
      /\ \A d \in Event : outbox'[d] = IF d = e THEN "pending" ELSE outbox[d]
  BY DEF IInv, TypeOK
<1>2. TypeOK'
  BY <1>1 DEF IInv, TypeOK
<1>3. Pending \subseteq Pending' /\ \A w \in Worker : Batch(w)' = Batch(w)
  BY <1>1 DEF Pending, Batch
<1>4. BatchesAreLocked'
  BY <1>3 DEF IInv, BatchesAreLocked
<1>5. AttemptsLeft'
  BY <1>1, LimitAssumption DEF IInv, AttemptsLeft
<1>6. ASSUME NEW w \in Worker PROVE ClaimsOfBatch(w)' /\ PosesOfBatch(w)'
  BY <1>3 DEF IInv, ClaimsOfBatch, PosesOfBatch
<1>7. DoneIsDelivered'
  BY <1>1 DEF IInv, DoneIsDelivered
<1>8. (ReplayKeepsPoses /\ ClaimIsOneRun /\ ClaimedPoseIsShown)'
  BY DEF IInv, ReplayKeepsPoses, Replays, ClaimIsOneRun, ClaimedPoseIsShown
<1> QED
  BY <1>2, <1>4, <1>5, <1>6, <1>7, <1>8 DEF IInv

LEMMA CommitStep == ASSUME IInv, NEW w \in Worker, Commit(w) PROVE IInv'
<1>1. tx[w] \in Tx
  BY DEF IInv, TypeOK
<1>2. tx[w].done \cup tx[w].failed \subseteq Pending
  BY DEF IInv, BatchesAreLocked, Batch
<1>3. ASSUME NEW e \in Event
      PROVE  /\ e \in tx[w].done => outbox'[e] = "done"
             /\ e \notin tx[w].done /\ e \in tx[w].failed /\ GivenUp(attempts[e]) => outbox'[e] = "dead"
             /\ e \notin tx[w].done /\ ~(e \in tx[w].failed /\ GivenUp(attempts[e])) => outbox'[e] = outbox[e]
  BY DEF Commit
<1>4. \A e \in Event : outbox'[e] \in {"none", "pending", "done", "dead"}
  BY <1>3 DEF IInv, TypeOK
<1>5. \A e \in Event : attempts'[e] = IF e \in tx[w].failed THEN attempts[e] + 1 ELSE attempts[e]
  BY DEF Commit, Counted
<1>6. \A e \in Event : e \in tx[w].failed => attempts[e] < MaxAttempts
  BY <1>2 DEF IInv, AttemptsLeft, Pending
<1>7. /\ claimed' = claimed \cup tx[w].ran
      /\ \A v \in Worker : tx'[v] = IF v = w THEN NoTx ELSE tx[v]
      /\ \A v \in Worker : Batch(v)' = IF v = w THEN {} ELSE Batch(v)
  BY DEF Commit, IInv, TypeOK, ClaimsOfBatch, Batch, NoTx, Begin
<1>17. wiped' \subseteq wiped /\ \A x \in wiped' : tx[w].poses[x] = NoEvent
  BY DEF Commit
<1>8. TypeOK'
  <2>1. outbox' \in [Event -> {"none", "pending", "done", "dead"}]
    BY <1>4 DEF Commit
  <2>2. attempts' \in [Event -> 0 .. MaxAttempts]
    BY <1>5, <1>6, LimitAssumption DEF Commit, Counted, IInv, TypeOK
  <2>3. claimed' \subseteq Consumer \X Event /\ timeline' \subseteq Event
    BY <1>1, <1>7 DEF Commit, IInv, TypeOK, Tx
  <2>4. pose' \in [Equipment -> Event \cup {NoEvent}]
    BY <1>1 DEF Commit, IInv, TypeOK, Tx
  <2>5. applied' \in [Consumer \X Event -> Nat]
    BY DEF Commit, IInv, TypeOK
  <2>6. tx' \in [Worker -> Tx]
    BY NoTxIsGood DEF Commit, IInv, TypeOK, GoodTx
  <2> QED
    BY <1>17, <2>1, <2>2, <2>3, <2>4, <2>5, <2>6 DEF Commit, IInv, TypeOK
<1>9. ASSUME NEW v \in Worker, v # w, NEW e \in Batch(v)
      PROVE  outbox'[e] = outbox[e] /\ e \in Event
  <2>1. e \notin Batch(w) /\ e \in Event
    BY <1>9 DEF IInv, BatchesAreLocked, Pending
  <2> QED
    BY <1>3, <2>1 DEF Batch
<1>10. BatchesAreLocked'
  <2>1. ASSUME NEW v \in Worker PROVE Batch(v)' \subseteq Pending'
    BY <1>7, <1>9 DEF IInv, BatchesAreLocked, Pending
  <2>2. replay' = replay
    BY DEF Commit
  <2> QED
    BY <1>7, <2>1, <2>2 DEF IInv, BatchesAreLocked
<1>11. AttemptsLeft'
  <2> SUFFICES ASSUME NEW e \in Event
               PROVE  /\ outbox'[e] = "pending" => attempts'[e] < MaxAttempts
                      /\ outbox'[e] = "none" => attempts'[e] = 0
    BY DEF AttemptsLeft
  <2>1. attempts[e] \in 0 .. MaxAttempts
    BY DEF IInv, TypeOK
  <2>2. CASE e \in tx[w].done
    BY <1>3, <2>2
  <2>3. CASE e \notin tx[w].done /\ e \in tx[w].failed
    <3>1. outbox[e] = "pending"
      BY <1>2, <2>3 DEF Pending
    <3>2. CASE GivenUp(attempts[e])
      BY <1>3, <2>3, <3>2
    <3>3. CASE ~GivenUp(attempts[e])
      BY <1>3, <1>5, <2>1, <2>3, <3>1, <3>3, LimitAssumption DEF GivenUp, Counted
    <3> QED
      BY <3>2, <3>3
  <2>4. CASE e \notin tx[w].done /\ e \notin tx[w].failed
    BY <1>3, <1>5, <2>4 DEF IInv, AttemptsLeft
  <2> QED
    BY <2>2, <2>3, <2>4
<1>12. ASSUME NEW v \in Worker PROVE ClaimsOfBatch(v)' /\ PosesOfBatch(v)'
  <2>1. CASE v = w
    <3>1. \A x \in replay.poses : x \in Equipment
      BY DEF IInv, TypeOK, ReplayTx
    <3> QED
      BY <1>7, <2>1, <3>1 DEF ClaimsOfBatch, PosesOfBatch, NoTx, Begin, Commit
  <2>2. CASE v # w
    <3>1. tx[v].ran \cap tx[w].ran = {}
      BY <2>2 DEF IInv, ClaimsOfBatch, BatchesAreLocked
    <3>2. tx'[v] = tx[v] /\ Batch(v)' = Batch(v) /\ replay' = replay
      BY <1>7, <2>2 DEF Commit
    <3> QED
      BY <1>7, <3>1, <3>2 DEF IInv, ClaimsOfBatch, PosesOfBatch
  <2> QED
    BY <2>1, <2>2
<1>13. ReplayKeepsPoses'
  <2> SUFFICES ASSUME replay.phase \in {"claims", "outbox"}, Replays, NEW e \in Event,
                      <<"twin_equipment_pose", e>> \in claimed' \ replay.claims
               PROVE  About[e] \cap (replay.poses \cup wiped') = {}
    BY DEF ReplayKeepsPoses, Replays, Commit
  <2>1. CASE <<"twin_equipment_pose", e>> \in claimed
    BY <1>17, <2>1 DEF IInv, ReplayKeepsPoses
  <2>2. CASE <<"twin_equipment_pose", e>> \in tx[w].claims
    BY <1>17, <2>2 DEF IInv, PosesOfBatch
  <2> QED
    BY <2>1, <2>2 DEF Commit
<1>14. ClaimIsOneRun'
  <2> SUFFICES ASSUME NEW p \in Consumer \X Event
               PROVE  applied'[p] = IF p \in claimed' THEN 1 ELSE 0
    BY DEF ClaimIsOneRun
  <2>1. applied'[p] = applied[p] + (IF p \in tx[w].ran THEN 1 ELSE 0)
    BY DEF Commit
  <2>2. applied[p] = IF p \in claimed THEN 1 ELSE 0
    BY DEF IInv, ClaimIsOneRun
  <2>3. p \in tx[w].ran => p \notin claimed
    BY DEF IInv, ClaimsOfBatch
  <2> QED
    BY <1>7, <2>1, <2>2, <2>3
<1>15. DoneIsDelivered'
  <2> SUFFICES ASSUME NEW e \in Event, outbox'[e] = "done" PROVE Consumer \X {e} \subseteq claimed'
    BY DEF DoneIsDelivered
  <2>1. CASE e \in tx[w].done
    <3>1. \A c \in Consumer : <<c, e>> \in claimed'
      BY <2>1 DEF IInv, ClaimsOfBatch, Commit
    <3> HIDE DEF Consumer
    <3> QED
      BY <3>1
  <2>2. CASE e \notin tx[w].done
    BY <1>3, <1>7, <2>2 DEF IInv, DoneIsDelivered
  <2> QED
    BY <2>1, <2>2
<1>16. ClaimedPoseIsShown'
  <2> SUFFICES ASSUME NEW e \in Event, <<"twin_equipment_pose", e>> \in claimed',
                      NEW x \in About[e] \ wiped'
               PROVE  pose'[x] # NoEvent
    BY DEF ClaimedPoseIsShown
  <2>1. x \in Equipment
    BY EquipmentAssumption
  <2>2. pose'[x] = IF tx[w].poses[x] # NoEvent THEN tx[w].poses[x] ELSE pose[x]
    BY <2>1 DEF Commit
  <2>3. CASE <<"twin_equipment_pose", e>> \in claimed
    <3>1. CASE tx[w].poses[x] # NoEvent
      BY <2>2, <3>1
    <3>2. CASE tx[w].poses[x] = NoEvent
      <4>1. x \notin wiped
        BY <3>2 DEF Commit
      <4> QED
        BY <2>2, <2>3, <3>2, <4>1 DEF IInv, ClaimedPoseIsShown
    <3> QED
      BY <3>1, <3>2
  <2>4. CASE <<"twin_equipment_pose", e>> \in tx[w].claims
    BY <2>2, <2>4 DEF IInv, PosesOfBatch
  <2> QED
    BY <2>3, <2>4 DEF Commit
<1> QED
  BY <1>8, <1>10, <1>11, <1>12, <1>13, <1>14, <1>15, <1>16 DEF IInv

-----------------------------------------------------------------------------
(* The replay                                                              *)

\* A step of the replay before its commit.
LEMMA ReplayStep ==
  ASSUME IInv, UNCHANGED <<rows, tx, crashes>>, replay' \in ReplayTx, replays' \in 0 .. MaxReplays,
         \A w \in Worker : Batch(w) \cap replay'.locked = {},
         \A w \in Worker, x \in replay'.poses : tx[w].poses[x] = NoEvent,
         replay'.phase \in {"claims", "outbox"} /\ Replays' =>
             \A e \in Event : <<"twin_equipment_pose", e>> \in claimed \ replay'.claims =>
                 About[e] \cap (replay'.poses \cup wiped) = {}
  PROVE  IInv'
<1> USE DEF rows
<1>1. TypeOK'
  BY DEF IInv, TypeOK
<1>2. Pending' = Pending /\ \A w \in Worker : Batch(w)' = Batch(w)
  BY DEF Pending, Batch
<1>3. BatchesAreLocked'
  BY <1>2 DEF IInv, BatchesAreLocked
<1>4. ASSUME NEW w \in Worker PROVE ClaimsOfBatch(w)' /\ PosesOfBatch(w)'
  BY <1>2 DEF IInv, ClaimsOfBatch, PosesOfBatch
<1>5. (AttemptsLeft /\ ReplayKeepsPoses /\ ClaimIsOneRun /\ DoneIsDelivered /\ ClaimedPoseIsShown)'
  BY DEF IInv, AttemptsLeft, ReplayKeepsPoses, ClaimIsOneRun, DoneIsDelivered, ClaimedPoseIsShown
<1> QED
  BY <1>1, <1>3, <1>4, <1>5 DEF IInv

LEMMA NoReplayStep ==
  ASSUME IInv, UNCHANGED <<rows, tx, replays, crashes>>, replay' = NoReplay
  PROVE  IInv'
<1>1. replay' \in ReplayTx /\ replay'.locked = {} /\ replay'.poses = {} /\ replay'.phase = "none"
  BY DEF NoReplay, ReplayTx
<1>2. replays' \in 0 .. MaxReplays
  BY DEF IInv, TypeOK
<1> QED
  BY <1>1, <1>2, ReplayStep

LEMMA StartStep ==
  ASSUME IInv, NEW names \in Named, PurgeTimeline(names) \/ KeepModels(names) PROVE IInv'
<1>0. names \in SUBSET Consumer
  BY NamedAssumption
<1>1. /\ replay' \in ReplayTx
      /\ replay'.locked = {} /\ replay'.poses = {} /\ replay'.phase \in {"timeline", "models"}
  BY <1>0 DEF PurgeTimeline, KeepModels, NoReplay, ReplayTx, IInv, TypeOK
<1>2. replays' \in 0 .. MaxReplays /\ UNCHANGED <<rows, tx, crashes>>
  BY BoundAssumption DEF PurgeTimeline, KeepModels, IInv, TypeOK
<1> QED
  BY <1>1, <1>2, ReplayStep

LEMMA PurgeStep == ASSUME IInv, PurgePoses \/ PurgeClaims \/ DeleteOutbox PROVE IInv'
<1>1. replay \in ReplayTx /\ replays' \in 0 .. MaxReplays /\ UNCHANGED <<rows, tx, crashes>>
  BY DEF PurgePoses, PurgeClaims, DeleteOutbox, IInv, TypeOK
<1>2. \A w \in Worker : Batch(w) \cap replay.locked = {}
  BY DEF IInv, BatchesAreLocked
<1>3. CASE PurgePoses
  <2>1. /\ replay' \in ReplayTx /\ replay'.locked = replay.locked /\ replay'.phase = "models"
        /\ replay'.poses = {x \in Equipment : pose[x] # NoEvent}
    BY <1>1, <1>3 DEF PurgePoses, ReplayTx
  <2>2. \A w \in Worker, x \in replay'.poses : tx[w].poses[x] = NoEvent
    BY <1>3, <2>1 DEF PurgePoses
  <2> QED
    BY <1>1, <1>2, <2>1, <2>2, ReplayStep
<1>4. CASE PurgeClaims
  <2>1. /\ replay' \in ReplayTx /\ replay'.locked = replay.locked
        /\ replay'.poses = replay.poses /\ replay'.names = replay.names
        /\ replay'.claims = {p \in claimed : p[1] \in replay.names}
    BY <1>1, <1>4 DEF PurgeClaims, ReplayTx, IInv, TypeOK
  <2>2. ASSUME Replays' PROVE \A e : <<"twin_equipment_pose", e>> \notin claimed \ replay'.claims
    BY <2>1, <2>2 DEF Replays
  <2> QED
    BY <1>1, <1>2, <2>1, <2>2, ReplayStep DEF IInv, PosesOfBatch
<1>5. CASE DeleteOutbox
  <2>1. /\ replay' \in ReplayTx /\ replay'.locked = replay.locked
        /\ replay'.poses = replay.poses /\ replay'.claims = replay.claims
        /\ replay'.names = replay.names /\ replay.phase = "claims"
    BY <1>1, <1>5 DEF DeleteOutbox, ReplayTx, Emitted
  <2> QED
    BY <1>1, <1>2, <2>1, ReplayStep DEF IInv, PosesOfBatch, ReplayKeepsPoses, Replays
<1> QED
  BY <1>3, <1>4, <1>5

LEMMA DeleteRowStep == ASSUME IInv, DeleteRow PROVE IInv'
<1>1. PICK e \in replay.rows \ replay.locked :
         e \notin Taken /\ replay' = [replay EXCEPT !.locked = replay.locked \cup {e}]
  BY DEF DeleteRow
<1>2. replay \in ReplayTx /\ replays' \in 0 .. MaxReplays /\ UNCHANGED <<rows, tx, crashes>>
  BY DEF DeleteRow, IInv, TypeOK
<1>3. /\ replay' \in ReplayTx /\ replay'.locked = replay.locked \cup {e}
      /\ replay'.poses = replay.poses /\ replay'.claims = replay.claims
      /\ replay'.phase = replay.phase /\ replay'.names = replay.names
  BY <1>1, <1>2 DEF ReplayTx
<1>4. \A w \in Worker : Batch(w) \cap replay'.locked = {}
  BY <1>1, <1>3 DEF Taken, IInv, BatchesAreLocked
<1> QED
  BY <1>2, <1>3, <1>4, ReplayStep DEF IInv, PosesOfBatch, ReplayKeepsPoses, Replays

\* When the replay commits, no dispatcher has a row: it would be one of those
\* the replay has deleted.
LEMMA EnqueueStep == ASSUME IInv, Enqueue PROVE IInv'
<1>1. replay' = NoReplay /\ UNCHANGED <<tx, replays, crashes>>
  BY DEF Enqueue
<1>2. CASE UNCHANGED rows
  BY <1>1, <1>2, NoReplayStep
<1>3. CASE Emitted = replay.rows /\ Replayed
  <2> USE <1>3 DEF Replayed
  <2>1. \A w \in Worker : Batch(w) = {} /\ Batch(w)' = {}
    BY <1>1 DEF Enqueue, IInv, BatchesAreLocked, Batch, Pending, Emitted
  <2>2. \A w \in Worker : tx[w].done = {} /\ tx[w].ran = {} /\ tx[w].claims = {}
    BY <2>1 DEF IInv, ClaimsOfBatch, Batch
  <2>3. /\ \A e \in Event : outbox'[e] \in {"none", "pending"}
        /\ \A e \in Event : attempts'[e] = 0
    BY DEF Emitted
  <2>4. NoReplay \in ReplayTx /\ NoReplay.locked = {} /\ NoReplay.poses = {} /\ NoReplay.phase = "none"
    BY DEF NoReplay, ReplayTx
  <2>5. TypeOK'
    <3>1. wiped' \subseteq Equipment
      BY DEF Wiped, IInv, TypeOK, ReplayTx
    <3> QED
      BY <1>1, <2>4, <3>1, LimitAssumption DEF IInv, TypeOK
  <2>6. BatchesAreLocked' /\ AttemptsLeft'
    BY <2>1, <2>3, LimitAssumption DEF BatchesAreLocked, AttemptsLeft
  <2>7. ASSUME NEW w \in Worker PROVE ClaimsOfBatch(w)' /\ PosesOfBatch(w)'
    BY <1>1, <2>2, <2>4 DEF ClaimsOfBatch, PosesOfBatch
  <2>8. ReplayKeepsPoses' /\ DoneIsDelivered'
    BY <1>1, <2>3, <2>4 DEF ReplayKeepsPoses, DoneIsDelivered
  <2>9. ClaimIsOneRun'
    BY DEF IInv, ClaimIsOneRun
  <2>10. ClaimedPoseIsShown'
    <3> SUFFICES ASSUME NEW e \in Event, <<"twin_equipment_pose", e>> \in claimed \ replay.claims,
                        NEW x \in About[e] \ wiped'
                 PROVE  pose'[x] # NoEvent
      BY DEF ClaimedPoseIsShown
    <3>1. x \in Equipment /\ x \notin replay.poses \cup wiped
      <4>1. CASE Replays
        BY <4>1, EquipmentAssumption DEF Enqueue, IInv, ReplayKeepsPoses
      <4>2. CASE ~Replays
        BY <4>2, EquipmentAssumption DEF Wiped, Replays
      <4> QED
        BY <4>1, <4>2
    <3> QED
      BY <3>1 DEF IInv, ClaimedPoseIsShown
  <2> QED
    BY <2>5, <2>6, <2>7, <2>8, <2>9, <2>10 DEF IInv
<1> QED
  BY <1>2, <1>3 DEF Enqueue

-----------------------------------------------------------------------------
(* The theorems                                                            *)

LEMMA InvStep == IInv /\ [Next]_vars => IInv'
<1> SUFFICES ASSUME IInv, [Next]_vars PROVE IInv'
  OBVIOUS
<1>1. ASSUME NEW e \in Event, Emit(e) PROVE IInv'
  BY <1>1, EmitStep
<1>2. ASSUME NEW w \in Worker, Dispatcher(w) \/ Crash(w) PROVE IInv'
  <2>1. CASE Take(w) \/ Deliver(w) \/ Commit(w)
    BY <2>1, TakeStep, DeliverStep, CommitStep
  <2>2. CASE AbortWaiting(w)
    <3>1. crashes' \in 0 .. MaxCrashes
      BY <2>2 DEF AbortWaiting, IInv, TypeOK
    <3> QED
      BY <2>2, <3>1, RollbackStep DEF AbortWaiting
  <2>3. CASE Crash(w)
    <3>1. crashes' \in 0 .. MaxCrashes
      BY <2>3, BoundAssumption DEF Crash, IInv, TypeOK
    <3> QED
      BY <2>3, <3>1, RollbackStep DEF Crash
  <2> QED
    BY <1>2, <2>1, <2>2, <2>3 DEF Dispatcher
<1>3. CASE Replay
  <2>1. CASE AbortReplay
    BY <2>1, NoReplayStep DEF AbortReplay
  <2> QED
    BY <1>3, <2>1, StartStep, PurgeStep, DeleteRowStep, EnqueueStep DEF Replay
<1>4. CASE UNCHANGED vars
  <2>1. /\ UNCHANGED <<rows, tx, crashes>> /\ replay' = replay
        /\ replay' \in ReplayTx /\ replays' \in 0 .. MaxReplays
    BY <1>4 DEF vars, rows, IInv, TypeOK
  <2> QED
    BY <2>1, ReplayStep DEF IInv, BatchesAreLocked, PosesOfBatch, ReplayKeepsPoses, Replays
<1> QED
  BY <1>1, <1>2, <1>3, <1>4 DEF Next

LEMMA Invariant == Spec => []IInv
  BY InitInv, InvStep, PTL DEF Spec

\* Every row of the outbox, the claims, the read models and the transactions
\* keep their types; no event is tried more often than MaxAttempts.
THEOREM TypeTheorem == Spec => []TypeOK
<1>1. IInv => TypeOK
  BY DEF IInv
<1> QED
  BY <1>1, Invariant, PTL

\* Exactly-once: with any number of dispatchers, crashes and replays, a claim of
\* try_claim_processed stands for one committed run of its handler.
THEOREM ClaimIsOneRunTheorem == Spec => []ClaimIsOneRun
<1>1. IInv => ClaimIsOneRun
  BY DEF IInv
<1> QED
  BY <1>1, Invariant, PTL

\* A row process_single_outbox completes was delivered to every consumer.
THEOREM DoneIsDeliveredTheorem == Spec => []DoneIsDelivered
<1>1. IInv => DoneIsDelivered
  BY DEF IInv
<1> QED
  BY <1>1, Invariant, PTL

\* However replays and dispatchers overlap, and whichever consumers the replays name, a
\* claimed pose is shown, unless a replay purged it without naming its consumer and neither
\* an event nor a replay of the poses has come since: the upsert of a pose locks the row the
\* purge wants.
THEOREM ClaimedPoseIsShownTheorem == Spec => []ClaimedPoseIsShown
<1>1. IInv => ClaimedPoseIsShown
  BY DEF IInv
<1> QED
  BY <1>1, Invariant, PTL

=============================================================================

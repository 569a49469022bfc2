-------------------------- MODULE TwinStreamProofs --------------------------
(***************************************************************************)
(* Proofs about TwinStream: types, and that no wake-up is lost but where a *)
(* step says so.  The invariant is inductive as it stands: what makes a    *)
(* query fresh is passed on from commit to publication, timer, queue or    *)
(* history, tags, fetch and data, and each step passes it on.              *)
(***************************************************************************)
EXTENDS TwinStream, TLAPS

-----------------------------------------------------------------------------
(* Types                                                                   *)

\* What put_drop_oldest leaves in the queue.
LEMMA PutType ==
    ASSUME NEW s \in Seq(Query), Len(s) <= MaxQueue, NEW q \in Query
    PROVE  Put(s, q) \in Seq(Query) /\ Len(Put(s, q)) <= MaxQueue
  <1>1. CASE Len(s) < MaxQueue
    BY <1>1, BoundAssumption DEF Put
  <1>2. CASE ~(Len(s) < MaxQueue)
    <2>1. s # <<>>
      BY <1>2, BoundAssumption
    <2>2. Tail(s) \in Seq(Query) /\ Len(Tail(s)) = Len(s) - 1
      BY <2>1
    <2> QED
      BY <1>2, <2>2, BoundAssumption DEF Put
  <1> QED
    BY <1>1, <1>2

\* Of a full queue only the first message goes.
LEMMA PutKeeps ==
    ASSUME NEW s \in Seq(Query), Len(s) <= MaxQueue, NEW q \in Query, NEW i \in 1 .. Len(s),
           Len(s) < MaxQueue \/ s[i] # Head(s)
    PROVE  \E j \in 1 .. Len(Put(s, q)) : Put(s, q)[j] = s[i]
  <1>1. CASE Len(s) < MaxQueue
    <2>1. Put(s, q) = Append(s, q)
      BY <1>1 DEF Put
    <2>2. i \in 1 .. Len(Append(s, q)) /\ Append(s, q)[i] = s[i]
      OBVIOUS
    <2> QED
      BY <2>1, <2>2
  <1>2. CASE ~(Len(s) < MaxQueue)
    <2>1. s # <<>> /\ i # 1
      BY <1>2, BoundAssumption
    <2>2. Put(s, q) = Append(Tail(s), q)
      BY <1>2 DEF Put
    <2>3. Tail(s) \in Seq(Query) /\ Len(Tail(s)) = Len(s) - 1 /\ Tail(s)[i - 1] = s[i]
      BY <2>1
    <2>4. i - 1 \in 1 .. Len(Append(Tail(s), q)) /\ Append(Tail(s), q)[i - 1] = s[i]
      BY <2>1, <2>3
    <2> QED
      BY <2>2, <2>4
  <1> QED
    BY <1>1, <1>2

LEMMA PutHas ==
    ASSUME NEW s \in Seq(Query), Len(s) <= MaxQueue, NEW q \in Query
    PROVE  \E j \in 1 .. Len(Put(s, q)) : Put(s, q)[j] = q
  <1>1. PICK t \in Seq(Query) : Put(s, q) = Append(t, q)
    <2>1. CASE Len(s) < MaxQueue
      BY <2>1 DEF Put
    <2>2. CASE ~(Len(s) < MaxQueue)
      <3>1. s # <<>>
        BY <2>2, BoundAssumption
      <3>2. Tail(s) \in Seq(Query)
        BY <3>1
      <3> QED
        BY <2>2, <3>2 DEF Put
    <2> QED
      BY <2>1, <2>2
  <1>2. Len(t) + 1 \in 1 .. Len(Append(t, q)) /\ Append(t, q)[Len(t) + 1] = q
    OBVIOUS
  <1> QED
    BY <1>1, <1>2

LEMMA BroadcastType ==
    ASSUME TypeOK, NEW q \in Query, Broadcast(q)
    PROVE  /\ history' \subseteq Query
           /\ queue' \in Seq(Query) /\ Len(queue') <= MaxQueue
           /\ loop' = loop /\ replay' = replay /\ connected' = connected
  BY PutType DEF TypeOK, Broadcast

LEMMA CommittedType ==
    ASSUME TypeOK, NEW q \in Query, Committed(q)
    PROVE  /\ world' \in [Query -> 0 .. MaxCommits]
           /\ \A p \in Query : world[p] <= world'[p]
           /\ world'[q] = world[q] + 1
  <1>1. "orders" \in Query /\ "tasks" \in Query /\ (q = "orders" \/ q = "tasks")
    BY DEF Query
  <1>2. world["orders"] \in 0 .. MaxCommits /\ world["tasks"] \in 0 .. MaxCommits
    BY <1>1 DEF TypeOK
  <1>3. world[q] + 1 \in 0 .. MaxCommits
    BY <1>1, <1>2, BoundAssumption DEF Committed
  <1>4. world' = [world EXCEPT ![q] = world[q] + 1]
    BY DEF Committed
  <1>5. world' \in [Query -> 0 .. MaxCommits]
    BY <1>3, <1>4 DEF TypeOK
  <1>6. ASSUME NEW p \in Query PROVE world[p] <= world'[p]
    <2>1. world[p] \in 0 .. MaxCommits /\ MaxCommits \in Nat
      BY BoundAssumption DEF TypeOK
    <2>2. world'[p] = IF p = q THEN world[q] + 1 ELSE world[p]
      BY <1>4 DEF TypeOK
    <2> QED
      BY <2>1, <2>2
  <1>7. world'[q] = world[q] + 1
    BY <1>4 DEF TypeOK
  <1> QED
    BY <1>5, <1>6, <1>7

\* The two halves of TypeOK: what the versions are, and what the stream holds.
CountsOK ==
    /\ world \in [Query -> 0 .. MaxCommits] /\ owed \in [Query -> 0 .. MaxCommits]
    /\ early \in 0 .. MaxEarly
    /\ seen \in [Query -> 0 .. MaxCommits] /\ cached \in [Query -> -1 .. MaxCommits]
    /\ \A q \in Query : owed[q] <= world[q] /\ cached[q] <= world[q] /\ seen[q] <= world[q]

StreamOK ==
    /\ loop \in BOOLEAN /\ dirty \in BOOLEAN /\ connected \in BOOLEAN
    /\ history \subseteq Query /\ replay \subseteq Query /\ tags \subseteq Query
    /\ queue \in Seq(Query) /\ Len(queue) <= MaxQueue
    /\ phase \in [Query -> {"idle", "sent", "read"}]

LEMMA Parts == TypeOK <=> CountsOK /\ StreamOK /\ missed \subseteq Query
  BY DEF TypeOK, CountsOK, StreamOK

LEMMA EmptyQueue == <<>> \in Seq(Query) /\ Len(<<>>) <= MaxQueue
  <1>1. <<>> \in Seq(Query) /\ Len(<<>>) = 0
    OBVIOUS
  <1> QED
    BY <1>1, BoundAssumption

LEMMA InitType == Init => TypeOK
  <1> SUFFICES ASSUME Init PROVE TypeOK
    OBVIOUS
  <1>1. CountsOK
    <2>1. 0 \in 0 .. MaxCommits /\ -1 \in -1 .. MaxCommits /\ 0 \in 0 .. MaxEarly
      BY BoundAssumption
    <2> QED
      BY <2>1 DEF Init, CountsOK, NoData
  <1>2. StreamOK
    BY EmptyQueue DEF Init, StreamOK
  <1>3. missed \subseteq Query
    BY DEF Init
  <1> QED
    BY <1>1, <1>2, <1>3, Parts

\* Whatever a step may miss, it is queries that are missed.
LEMMA MissedType ==
    ASSUME TypeOK, NEW S \in SUBSET Query, MayMiss(S)
    PROVE  missed' \subseteq Query
  BY DEF MayMiss, TypeOK

LEMMA DroppedType ==
    ASSUME TypeOK
    PROVE  Dropped(queue) \in SUBSET Query
  <1>1. CASE connected /\ Len(queue) >= MaxQueue
    <2>1. queue # <<>> /\ queue \in Seq(Query)
      BY <1>1, BoundAssumption DEF TypeOK
    <2>2. Head(queue) \in Query
      BY <2>1
    <2> QED
      BY <1>1, <2>2 DEF Dropped
  <1>2. CASE ~(connected /\ Len(queue) >= MaxQueue)
    BY <1>2 DEF Dropped
  <1> QED
    BY <1>1, <1>2

LEMMA CountsStep == TypeOK /\ [Next]_vars => CountsOK'
  <1> SUFFICES ASSUME TypeOK, [Next]_vars PROVE CountsOK'
    OBVIOUS
  <1>0. CountsOK
    BY Parts
  <1>b. MaxCommits \in Nat /\ MaxEarly \in Nat
    BY BoundAssumption
  <1>1. ASSUME NEW q \in Query, Commit(q) PROVE CountsOK'
    <2>1. /\ world' \in [Query -> 0 .. MaxCommits] /\ \A p \in Query : world[p] <= world'[p]
          /\ world'[q] = world[q] + 1
          /\ UNCHANGED <<early, seen, cached>>
      BY <1>1, CommittedType DEF Commit, client
    <2>2. owed' = [owed EXCEPT ![q] = owed[q] + 1]
      BY <1>1 DEF Commit
    <2>3. owed[q] \in 0 .. MaxCommits /\ owed[q] <= world[q] /\ world[q] \in 0 .. MaxCommits
      BY <1>0 DEF CountsOK
    <2>4. world'[q] \in 0 .. MaxCommits
      BY <2>1
    <2>5. owed[q] + 1 \in 0 .. MaxCommits
      BY <2>1, <2>3, <2>4, <1>b
    <2>6. owed' \in [Query -> 0 .. MaxCommits]
      BY <2>2, <2>5, <1>0 DEF CountsOK
    <2>7. ASSUME NEW p \in Query PROVE owed'[p] <= world'[p]
      <3>1. /\ owed[p] \in 0 .. MaxCommits /\ owed[p] <= world[p] /\ world[p] \in 0 .. MaxCommits
            /\ world'[p] \in 0 .. MaxCommits /\ world[p] <= world'[p]
        BY <1>0, <2>1 DEF CountsOK
      <3>2. owed'[p] = IF p = q THEN owed[q] + 1 ELSE owed[p]
        BY <2>2, <1>0 DEF CountsOK
      <3> QED
        BY <3>1, <3>2, <2>1, <2>3, <1>b
    <2> QED
      BY <2>1, <2>6, <2>7, <1>0, <1>b DEF CountsOK
  <1>2. ASSUME NEW q \in Query, SilentCommit(q) PROVE CountsOK'
    <2>1. /\ world' \in [Query -> 0 .. MaxCommits] /\ \A p \in Query : world[p] <= world'[p]
          /\ UNCHANGED <<owed, early, seen, cached>>
      BY <1>2, CommittedType DEF SilentCommit, client
    <2> QED
      BY <2>1, <1>0, <1>b DEF CountsOK
  <1>3. ASSUME NEW q \in Query, Publish(q) PROVE CountsOK'
    <2>1. owed[q] \in 0 .. MaxCommits /\ owed[q] > 0
      BY <1>3, <1>0 DEF Publish, CountsOK
    <2>2. owed[q] - 1 \in 0 .. MaxCommits
      BY <2>1, <1>b
    <2>3. owed' = [owed EXCEPT ![q] = owed[q] - 1] /\ UNCHANGED <<world, early, seen, cached>>
      BY <1>3 DEF Publish, client
    <2> QED
      BY <2>2, <2>3, <1>0 DEF CountsOK
  <1>4. ASSUME NEW q \in Query, ServerReads(q) PROVE CountsOK'
    BY <1>4, <1>0, <1>b DEF ServerReads, CountsOK, server
  <1>5. ASSUME NEW q \in Query, FetchEnds(q) PROVE CountsOK'
    BY <1>5, <1>0, <1>b DEF FetchEnds, CountsOK, server
  <1>6. CASE PublishEarly
    BY <1>6, <1>0, <1>b DEF PublishEarly, CountsOK, client
  <1>7. CASE Restart
    BY <1>7, <1>0, <1>b DEF Restart, CountsOK, client
  <1>8. CASE UNCHANGED <<server, seen, cached>>
    BY <1>8, <1>0 DEF CountsOK, server
  <1>9. ASSUME NEW q \in Query, Expire(q) \/ FetchFails(q) PROVE UNCHANGED <<server, seen, cached>>
    BY <1>9 DEF Expire, FetchFails, client
  <1>10. Fire \/ Connect \/ Break \/ Read \/ Flush \/ UNCHANGED vars
            => UNCHANGED <<server, seen, cached>>
    BY DEF Fire, Connect, Break, Read, Flush, vars, client
  <1> QED
    BY <1>1, <1>2, <1>3, <1>4, <1>5, <1>6, <1>7, <1>8, <1>9, <1>10 DEF Next

LEMMA StreamStep == TypeOK /\ [Next]_vars => StreamOK' /\ missed' \subseteq Query
  <1> SUFFICES ASSUME TypeOK, [Next]_vars PROVE StreamOK' /\ missed' \subseteq Query
    OBVIOUS
  <1>0. StreamOK
    BY Parts
  <1>b. MaxQueue \in Nat \ {0}
    BY BoundAssumption
  <1>e. {} \in SUBSET Query /\ Query \in SUBSET Query
    OBVIOUS
  <1>1. ASSUME NEW q \in Query, Commit(q) PROVE StreamOK' /\ missed' \subseteq Query
    BY <1>1, <1>0, <1>e, MissedType DEF Commit, StreamOK, hub, stream, client
  <1>2. ASSUME NEW q \in Query, SilentCommit(q) PROVE StreamOK' /\ missed' \subseteq Query
    <2>1. {q} \in SUBSET Query
      OBVIOUS
    <2> QED
      BY <1>2, <1>0, <2>1, MissedType DEF SilentCommit, StreamOK, hub, stream, client
  <1>3. ASSUME NEW q \in Query, Publish(q) PROVE StreamOK' /\ missed' \subseteq Query
    <2>1. {q} \in SUBSET Query
      OBVIOUS
    <2>2. missed' \subseteq Query
      BY <1>3, <2>1, <1>e, MissedType, DroppedType DEF Publish
    <2>3. CASE ~loop /\ UNCHANGED <<hub, stream, client>>
      BY <2>2, <2>3, <1>0 DEF StreamOK, hub, stream, client
    <2>4. CASE dirty' = TRUE /\ UNCHANGED <<loop, history, stream, client>>
      BY <2>2, <2>4, <1>0 DEF StreamOK, stream, client
    <2>5. CASE Broadcast(q) /\ UNCHANGED <<dirty, client>>
      BY <2>2, <2>5, <1>0, BroadcastType DEF StreamOK, client
    <2> QED
      BY <1>3, <2>3, <2>4, <2>5 DEF Publish
  <1>4. ASSUME NEW q \in Query, Expire(q) PROVE StreamOK' /\ missed' \subseteq Query
    <2>1. {q} \in SUBSET Query
      OBVIOUS
    <2> QED
      BY <1>4, <1>0, <2>1, MissedType DEF Expire, StreamOK, stream, client
  <1>5. ASSUME NEW q \in Query, ServerReads(q) PROVE StreamOK' /\ missed' \subseteq Query
    BY <1>5, <1>0, <1>e, MissedType DEF ServerReads, StreamOK, hub, stream
  <1>6. ASSUME NEW q \in Query, FetchEnds(q) PROVE StreamOK' /\ missed' \subseteq Query
    BY <1>6, <1>0, <1>e, MissedType DEF FetchEnds, StreamOK, hub, stream
  <1>7. ASSUME NEW q \in Query, FetchFails(q) PROVE StreamOK' /\ missed' \subseteq Query
    <2>1. {q} \in SUBSET Query
      OBVIOUS
    <2> QED
      BY <1>7, <1>0, <2>1, MissedType DEF FetchFails, StreamOK, hub, stream
  <1>8. CASE PublishEarly
    <2>1. "tasks" \in Query
      BY DEF Query
    <2>2. Broadcast("tasks") /\ UNCHANGED <<dirty, client>> /\ MayMiss(Dropped(queue))
      BY <1>8 DEF PublishEarly
    <2>3. missed' \subseteq Query
      BY <2>2, MissedType, DroppedType
    <2> QED
      BY <2>1, <2>2, <2>3, <1>0, BroadcastType DEF StreamOK, client
  <1>9. CASE Fire
    <2>1. "orders" \in Query
      BY DEF Query
    <2>2. Broadcast("orders") /\ dirty' = FALSE /\ UNCHANGED client /\ MayMiss(Dropped(queue))
      BY <1>9 DEF Fire
    <2>3. missed' \subseteq Query
      BY <2>2, MissedType, DroppedType
    <2> QED
      BY <2>1, <2>2, <2>3, <1>0, BroadcastType DEF StreamOK, client
  <1>10. CASE Restart
    BY <1>10, <1>0, <1>e, EmptyQueue, MissedType DEF Restart, StreamOK, client
  <1>11. CASE Connect
    BY <1>11, <1>0, <1>e, EmptyQueue, MissedType DEF Connect, StreamOK, client
  <1>12. CASE Break
    <2>1. Query \ history \in SUBSET Query
      OBVIOUS
    <2> QED
      BY <1>12, <1>0, <2>1, EmptyQueue, MissedType DEF Break, StreamOK, client, hub
  <1>13. CASE Read
    <2>1. missed' \subseteq Query
      BY <1>13, <1>e, MissedType DEF Read
    <2>2. UNCHANGED <<hub, connected, phase>>
      BY <1>13 DEF Read
    <2>3. CASE \E q \in replay :
                  replay' = replay \ {q} /\ queue' = queue /\ tags' = Tagged(q)
      BY <2>1, <2>2, <2>3, <1>0 DEF StreamOK, Tagged, hub
    <2>4. CASE /\ replay = {} /\ queue # <<>>
               /\ replay' = {} /\ queue' = Tail(queue) /\ tags' = Tagged(Head(queue))
      <3>1. /\ Head(queue) \in Query /\ Tail(queue) \in Seq(Query)
            /\ Len(Tail(queue)) = Len(queue) - 1 /\ Len(queue) \in Nat
        BY <2>4, <1>0 DEF StreamOK
      <3> QED
        BY <3>1, <2>1, <2>2, <2>4, <1>0, <1>b DEF StreamOK, Tagged, hub
    <2> QED
      BY <1>13, <2>3, <2>4 DEF Read
  <1>14. CASE Flush
    <2>1. {q \in tags : phase[q] # "idle" /\ cached[q] = NoData} \in SUBSET Query
      BY <1>0 DEF StreamOK
    <2>2. missed' \subseteq Query
      BY <1>14, <2>1, MissedType DEF Flush
    <2> QED
      BY <1>14, <2>2, <1>0 DEF Flush, StreamOK, hub, stream
  <1>15. CASE UNCHANGED vars
    BY <1>15, <1>0 DEF vars, StreamOK, hub, stream, client, TypeOK
  <1> QED
    BY <1>1, <1>2, <1>3, <1>4, <1>5, <1>6, <1>7, <1>8, <1>9, <1>10, <1>11, <1>12, <1>13, <1>14, <1>15
       DEF Next

LEMMA TypeStep == TypeOK /\ [Next]_vars => TypeOK'
  <1> SUFFICES ASSUME TypeOK, [Next]_vars PROVE TypeOK'
    OBVIOUS
  <1>1. CountsOK' /\ StreamOK' /\ missed' \subseteq Query
    BY CountsStep, StreamStep
  <1> QED
    BY <1>1 DEF TypeOK, CountsOK, StreamOK

\* What the hub, the stream and the client hold is well formed, for every bound: no query shows
\* what was not committed, and the queue keeps its bound.
THEOREM TypeTheorem == Spec => []TypeOK
  BY InitType, TypeStep, PTL DEF Spec

-----------------------------------------------------------------------------
(* Wake-ups                                                                *)

\* A step that may miss the queries in S has to pass on the freshness of the others.
LEMMA Passed ==
    ASSUME NEW S, MayMiss(S), WakeUpComes,
           \A q \in Query : Fresh(q) /\ q \notin S => Fresh(q)'
    PROVE  WakeUpComes'
  BY DEF MayMiss, WakeUpComes

\* What a broadcast message makes fresh, and what it takes: at most the first of a full queue.
LEMMA BroadcastFresh ==
    ASSUME TypeOK, NEW m \in Query, Broadcast(m)
    PROVE  /\ InQueue(m)' \/ (~connected' /\ m \in history')
           /\ \A q \in Query : InQueue(q) /\ q \notin Dropped(queue) =>
                 InQueue(q)' \/ ~connected
           /\ history \subseteq history'
  <1>1. CASE connected
    <2>1. queue \in Seq(Query) /\ Len(queue) <= MaxQueue /\ MaxQueue \in Nat
      BY BoundAssumption DEF TypeOK
    <2>2. queue' = Put(queue, m) /\ history' = history \cup {m}
      BY <1>1 DEF Broadcast
    <2>3. InQueue(m)'
      BY <2>1, <2>2, PutHas DEF InQueue
    <2>4. ASSUME NEW q \in Query, InQueue(q), q \notin Dropped(queue) PROVE InQueue(q)'
      <3>1. PICK i \in 1 .. Len(queue) : queue[i] = q
        BY <2>4 DEF InQueue
      <3>2. Len(queue) < MaxQueue \/ queue[i] # Head(queue)
        BY <1>1, <2>1, <2>4, <3>1 DEF Dropped
      <3>3. \E j \in 1 .. Len(Put(queue, m)) : Put(queue, m)[j] = queue[i]
        BY <2>1, <3>2, PutKeeps
      <3> QED
        BY <3>1, <3>3, <2>2 DEF InQueue
    <2> QED
      BY <2>2, <2>3, <2>4
  <1>2. CASE ~connected
    BY <1>2 DEF Broadcast
  <1> QED
    BY <1>1, <1>2

\* What the invariant needs besides: a client that is not connected has nothing to read, and
\* no query shows more than its last fetch read.
Quiet   == connected \/ (queue = <<>> /\ replay = {})
Forward == \A q \in Query : cached[q] <= seen[q]

WakeUpInv == TypeOK /\ Quiet /\ Forward /\ WakeUpComes

LEMMA QuietStep == Quiet /\ [Next]_vars => Quiet'
  <1> SUFFICES ASSUME Quiet, [Next]_vars PROVE Quiet'
    OBVIOUS
  <1>1. CASE UNCHANGED stream
    BY <1>1 DEF Quiet, stream
  <1>2. ASSUME NEW m \in Query, Broadcast(m) PROVE Quiet'
    BY <1>2 DEF Quiet, Broadcast
  <1>3. ASSUME NEW q \in Query, Publish(q) PROVE Quiet'
    BY <1>1, <1>2, <1>3 DEF Publish, stream
  <1>4. ASSUME NEW q \in Query,
               Commit(q) \/ SilentCommit(q) \/ Expire(q) \/ ServerReads(q) \/ FetchEnds(q)
                  \/ FetchFails(q)
        PROVE  Quiet'
    BY <1>1, <1>4 DEF Commit, SilentCommit, Expire, ServerReads, FetchEnds, FetchFails
  <1>5. CASE PublishEarly
    BY <1>2, <1>5 DEF PublishEarly, Query
  <1>6. CASE Fire
    BY <1>2, <1>6 DEF Fire, Query
  <1>7. CASE Restart \/ Connect \/ Break
    <2>1. connected' = TRUE \/ (queue' = <<>> /\ replay' = {})
      BY <1>7 DEF Restart, Connect, Break
    <2> QED
      BY <2>1 DEF Quiet
  <1>8. CASE Read
    <2>1. connected
      BY <1>8 DEF Read, Quiet
    <2>2. connected'
      BY <1>8, <2>1 DEF Read
    <2> QED
      BY <2>2 DEF Quiet
  <1>9. CASE Flush \/ UNCHANGED vars
    BY <1>1, <1>9 DEF Flush, vars
  <1> QED
    BY <1>3, <1>4, <1>5, <1>6, <1>7, <1>8, <1>9 DEF Next

LEMMA ForwardStep == TypeOK /\ Forward /\ [Next]_vars => Forward'
  <1> SUFFICES ASSUME TypeOK, Forward, [Next]_vars PROVE Forward'
    OBVIOUS
  <1>1. CASE UNCHANGED <<seen, cached>>
    BY <1>1 DEF Forward
  <1>2. ASSUME NEW p \in Query, ServerReads(p) PROVE Forward'
    <2> SUFFICES ASSUME NEW q \in Query PROVE cached'[q] <= seen'[q]
      BY DEF Forward
    <2>1. cached'[q] = cached[q] /\ seen'[q] = IF q = p THEN world[p] ELSE seen[q]
      BY <1>2 DEF ServerReads, TypeOK
    <2>2. cached[q] <= world[q] /\ cached[q] <= seen[q]
      BY DEF TypeOK, Forward
    <2> QED
      BY <2>1, <2>2
  <1>3. ASSUME NEW p \in Query, FetchEnds(p) PROVE Forward'
    <2> SUFFICES ASSUME NEW q \in Query PROVE cached'[q] <= seen'[q]
      BY DEF Forward
    <2>1. seen'[q] = seen[q] /\ cached'[q] = IF q = p THEN seen[p] ELSE cached[q]
      BY <1>3 DEF FetchEnds, TypeOK
    <2>2. cached[q] <= seen[q] /\ seen[q] \in 0 .. MaxCommits /\ MaxCommits \in Nat
      BY BoundAssumption DEF TypeOK, Forward
    <2> QED
      BY <2>1, <2>2
  <1>4. ASSUME NEW q \in Query,
               Commit(q) \/ SilentCommit(q) \/ Publish(q) \/ Expire(q) \/ FetchFails(q)
        PROVE  Forward'
    BY <1>1, <1>4 DEF Commit, SilentCommit, Publish, Expire, FetchFails, client
  <1>5. CASE PublishEarly \/ Fire \/ Restart \/ Connect \/ Break
    BY <1>1, <1>5 DEF PublishEarly, Fire, Restart, Connect, Break, client
  <1>6. CASE Read \/ Flush \/ UNCHANGED vars
    BY <1>1, <1>6 DEF Read, Flush, vars, client
  <1> QED
    BY <1>2, <1>3, <1>4, <1>5, <1>6 DEF Next

LEMMA WakeUpStep == WakeUpInv /\ [Next]_vars => WakeUpComes'
  <1> SUFFICES ASSUME TypeOK, Quiet, Forward, WakeUpComes, [Next]_vars PROVE WakeUpComes'
    BY DEF WakeUpInv
  <1>0. \A q \in Query : InQueue(q) => connected
    BY DEF InQueue, Quiet
  <1>1. ASSUME NEW p \in Query, Commit(p) PROVE WakeUpComes'
    <2>1. \A q \in Query : Fresh(q) /\ q \notin {} => Fresh(q)'
      BY <1>1 DEF Commit, Committed, Fresh, Coming, InQueue, TypeOK, hub, stream, client
    <2> QED
      BY <1>1, <2>1, Passed DEF Commit
  <1>2. ASSUME NEW p \in Query, SilentCommit(p) PROVE WakeUpComes'
    <2>1. \A q \in Query : Fresh(q) /\ q \notin {p} => Fresh(q)'
      BY <1>2 DEF SilentCommit, Committed, Fresh, Coming, InQueue, TypeOK, hub, stream, client
    <2> QED
      BY <1>2, <2>1, Passed DEF SilentCommit
  <1>3. ASSUME NEW p \in Query, Publish(p) PROVE WakeUpComes'
    <2>0. \A q \in Query : q # p /\ owed[q] > 0 => owed'[q] > 0
      BY <1>3 DEF Publish, TypeOK
    <2>1. CASE ~loop /\ UNCHANGED <<hub, stream>> /\ MayMiss({p})
      <3>1. \A q \in Query : Fresh(q) /\ q \notin {p} => Fresh(q)'
        BY <1>3, <2>0, <2>1 DEF Publish, Fresh, Coming, InQueue, hub, stream, client
      <3> QED
        BY <2>1, <3>1, Passed
    <2>2. CASE /\ p = "orders" /\ dirty' = TRUE /\ UNCHANGED <<loop, history, stream>>
               /\ MayMiss({})
      <3>1. \A q \in Query : Fresh(q) /\ q \notin {} => Fresh(q)'
        BY <1>3, <2>0, <2>2 DEF Publish, Fresh, Coming, InQueue, stream, client
      <3> QED
        BY <2>2, <3>1, Passed
    <2>3. CASE Broadcast(p) /\ UNCHANGED dirty /\ MayMiss(Dropped(queue))
      <3>1. /\ InQueue(p)' \/ (~connected' /\ p \in history')
            /\ \A q \in Query : InQueue(q) /\ q \notin Dropped(queue) => InQueue(q)' \/ ~connected
            /\ history \subseteq history' /\ UNCHANGED <<loop, replay, connected, dirty>>
        BY <2>3, BroadcastFresh DEF Broadcast
      <3>2. \A q \in Query : Fresh(q) /\ q \notin Dropped(queue) => Fresh(q)'
        BY <1>3, <2>0, <3>1, <1>0 DEF Publish, Fresh, Coming, client
      <3> QED
        BY <2>3, <3>2, Passed
    <2> QED
      BY <1>3, <2>1, <2>2, <2>3 DEF Publish
  <1>4. ASSUME NEW p \in Query, Expire(p) PROVE WakeUpComes'
    <2>1. \A q \in Query : Fresh(q) /\ q \notin {p} => Fresh(q)'
      BY <1>4 DEF Expire, Fresh, Coming, InQueue, server, stream, client
    <2> QED
      BY <1>4, <2>1, Passed DEF Expire
  <1>5. ASSUME NEW p \in Query, ServerReads(p) PROVE WakeUpComes'
    <2>1. \A q \in Query : Fresh(q) /\ q \notin {} => Fresh(q)'
      BY <1>5 DEF ServerReads, Fresh, Coming, InQueue, TypeOK, server, hub, stream
    <2> QED
      BY <1>5, <2>1, Passed DEF ServerReads
  <1>6. ASSUME NEW p \in Query, FetchEnds(p) PROVE WakeUpComes'
    <2>1. \A q \in Query : Fresh(q) /\ q \notin {} => Fresh(q)'
      <3> SUFFICES ASSUME NEW q \in Query, Fresh(q) PROVE Fresh(q)'
        OBVIOUS
      <3>1. CASE q = p
        <4>1. cached'[q] = seen[q] /\ UNCHANGED <<server, hub, stream, tags>>
          BY <1>6, <3>1 DEF FetchEnds, TypeOK
        <4>2. phase[q] = "read"
          BY <1>6, <3>1 DEF FetchEnds
        <4>3. cached[q] = world[q] => seen[q] = world[q]
          <5>1. /\ cached[q] <= seen[q] /\ seen[q] <= world[q]
                /\ cached[q] \in -1 .. MaxCommits /\ seen[q] \in 0 .. MaxCommits
                /\ world[q] \in 0 .. MaxCommits /\ MaxCommits \in Nat
            BY BoundAssumption DEF TypeOK, Forward
          <5> QED
            BY <5>1
        <4> QED
          BY <4>1, <4>2, <4>3 DEF Fresh, Coming, InQueue, server, hub, stream
      <3>2. CASE q # p
        <4>1. cached'[q] = cached[q] /\ phase'[q] = phase[q]
              /\ UNCHANGED <<server, hub, stream, tags, seen>>
          BY <1>6, <3>2 DEF FetchEnds, TypeOK
        <4> QED
          BY <4>1 DEF Fresh, Coming, InQueue, server, hub, stream
      <3> QED
        BY <3>1, <3>2
    <2> QED
      BY <1>6, <2>1, Passed DEF FetchEnds
  <1>7. ASSUME NEW p \in Query, FetchFails(p) PROVE WakeUpComes'
    <2>1. \A q \in Query : Fresh(q) /\ q \notin {p} => Fresh(q)'
      BY <1>7 DEF FetchFails, Fresh, Coming, InQueue, TypeOK, server, hub, stream
    <2> QED
      BY <1>7, <2>1, Passed DEF FetchFails
  <1>8. CASE PublishEarly \/ Fire
    <2>1. PICK m \in Query : Broadcast(m) /\ ((PublishEarly /\ m = "tasks") \/ (Fire /\ m = "orders"))
      <3>1. "tasks" \in Query /\ "orders" \in Query
        BY DEF Query
      <3>2. CASE PublishEarly
        <4>1. Broadcast("tasks")
          BY <3>2 DEF PublishEarly
        <4> QED
          BY <3>1, <3>2, <4>1
      <3>3. CASE Fire
        <4>1. Broadcast("orders")
          BY <3>3 DEF Fire
        <4> QED
          BY <3>1, <3>3, <4>1
      <3> QED
        BY <1>8, <3>2, <3>3
    <2>2. /\ InQueue(m)' \/ (~connected' /\ m \in history')
          /\ \A q \in Query : InQueue(q) /\ q \notin Dropped(queue) => InQueue(q)' \/ ~connected
          /\ history \subseteq history' /\ UNCHANGED <<loop, replay, connected>>
      BY <2>1, BroadcastFresh DEF Broadcast
    <2>3. m = "orders" \/ UNCHANGED dirty
      BY <2>1 DEF PublishEarly
    <2>4. UNCHANGED <<world, owed, client>> /\ MayMiss(Dropped(queue))
      BY <2>1 DEF PublishEarly, Fire, server
    <2>5. \A q \in Query : Fresh(q) /\ q \notin Dropped(queue) => Fresh(q)'
      BY <2>2, <2>3, <2>4, <1>0 DEF Fresh, Coming, client
    <2> QED
      BY <2>4, <2>5, Passed
  <1>9. CASE Restart
    BY <1>9, Passed DEF Restart
  <1>10. CASE Connect
    <2>1. \A q \in Query : Fresh(q) /\ q \notin {} => Fresh(q)'
      BY <1>10, <1>0 DEF Connect, Fresh, Coming, Quiet, server, client
    <2> QED
      BY <1>10, <2>1, Passed DEF Connect
  <1>11. CASE Break
    <2>1. \A q \in Query : Fresh(q) /\ q \notin Query \ history => Fresh(q)'
      BY <1>11 DEF Break, Fresh, Coming, hub
    <2> QED
      BY <1>11, <2>1, Passed DEF Break
  <1>12. CASE Read
    <2>1. \A q \in Query : Fresh(q) /\ q \notin {} => Fresh(q)'
      <3> SUFFICES ASSUME NEW q \in Query, Fresh(q) PROVE Fresh(q)'
        OBVIOUS
      <3>1. UNCHANGED <<world, owed, dirty, history, connected, phase, seen, cached>>
        BY <1>12 DEF Read, server, hub
      <3>2. CASE \E m \in replay :
                    replay' = replay \ {m} /\ queue' = queue /\ tags' = Tagged(m)
        BY <3>1, <3>2 DEF Tagged, Fresh, Coming, InQueue
      <3>3. CASE /\ replay = {} /\ queue # <<>>
                 /\ replay' = {} /\ queue' = Tail(queue) /\ tags' = Tagged(Head(queue))
        <4>1. InQueue(q) => InQueue(q)' \/ q \in tags'
          <5> SUFFICES ASSUME NEW i \in 1 .. Len(queue), queue[i] = q, q # Head(queue)
                       PROVE  InQueue(q)'
            BY <3>3 DEF InQueue, Tagged
          <5>1. queue \in Seq(Query) /\ i # 1
            BY DEF TypeOK
          <5>2. i - 1 \in 1 .. Len(Tail(queue)) /\ Tail(queue)[i - 1] = queue[i]
            BY <5>1, <3>3
          <5> QED
            BY <5>2, <3>3 DEF InQueue
        <4> QED
          BY <3>1, <3>3, <4>1 DEF Tagged, Fresh, Coming
      <3> QED
        BY <1>12, <3>2, <3>3 DEF Read
    <2> QED
      BY <1>12, <2>1, Passed DEF Read
  <1>13. CASE Flush
    <2>1. \A q \in Query : /\ Fresh(q)
                           /\ q \notin {r \in tags : phase[r] # "idle" /\ cached[r] = NoData}
                           => Fresh(q)'
      BY <1>13 DEF Flush, Refetched, Fresh, Coming, InQueue, TypeOK, server, hub, stream
    <2> QED
      BY <1>13, <2>1, Passed DEF Flush
  <1>14. CASE UNCHANGED vars
    BY <1>14 DEF vars, server, hub, stream, client, WakeUpComes, Fresh, Coming, InQueue
  <1> QED
    BY <1>1, <1>2, <1>3, <1>4, <1>5, <1>6, <1>7, <1>8, <1>9, <1>10, <1>11, <1>12, <1>13, <1>14 DEF Next

\* A query that does not show the last commit is going to be fetched again, unless a step lost
\* its wake-up for one of the reasons the model names: for every length of the queue and any
\* number of commits.
THEOREM WakeUpTheorem == Spec => []WakeUpComes
  <1>1. Init => WakeUpInv
    <2> SUFFICES ASSUME Init PROVE WakeUpInv
      OBVIOUS
    <2>1. Quiet /\ WakeUpComes
      BY DEF Init, Quiet, WakeUpComes, Fresh, Coming
    <2>2. Forward
      BY DEF Init, Forward, NoData
    <2> QED
      BY <2>1, <2>2, InitType DEF WakeUpInv
  <1>2. WakeUpInv /\ [Next]_vars => WakeUpInv'
    <2> SUFFICES ASSUME WakeUpInv, [Next]_vars PROVE WakeUpInv'
      OBVIOUS
    <2>1. TypeOK'
      BY TypeStep DEF WakeUpInv
    <2>2. Quiet' /\ Forward' /\ WakeUpComes'
      BY QuietStep, ForwardStep, WakeUpStep DEF WakeUpInv
    <2> QED
      BY <2>1, <2>2 DEF WakeUpInv
  <1>3. WakeUpInv => WakeUpComes
    BY DEF WakeUpInv
  <1> QED
    BY <1>1, <1>2, <1>3, PTL DEF Spec

=============================================================================

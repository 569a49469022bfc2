--------------------------- MODULE SimStreamProofs ---------------------------
(***************************************************************************)
(* What the stream of the simulator guarantees for every length of the     *)
(* queue and every number of versions, answers and restarts.               *)
(*                                                                         *)
(* That a client ends with the rows of the server is not inductive alone:  *)
(* a client that comes back with "since" is sent nothing when the server   *)
(* has no later version, so what was in step when the stream broke has to  *)
(* be in step still.                                                       *)
(***************************************************************************)
EXTENDS SimStream, TLAPS

\* Frames on their way are of the kind they wait under, and of a version that was built.
FramesKnown ==
    /\ \A k \in Kind : \A f \in pending[k] : f.kind = k /\ (f.full => f.has) /\ f.version <= version
    /\ \A k \in Kind : \A f, g \in pending[k] : f = g
    /\ \A i \in 1 .. Len(start) : start[i].version <= version
    /\ \A i \in 1 .. Len(queue) : queue[i].version <= version

\* The counter is the version of what was built last, and a client that follows this run of
\* the server has no later one.
VersionsAgree ==
    /\ Revision = version
    /\ \A k \in Kind : built[k].version <= version
    /\ own => since <= version

\* A client that is connected, or that may come back without being sent the rows again.
Following == connected \/ (own /\ version <= since)

Comes == \A k \in Kind : Following /\ k \notin lossy => ComesTo(k, built[k].value)

StreamInv == TypeOK /\ FramesKnown /\ VersionsAgree /\ Comes

-----------------------------------------------------------------------------
(* Frames and queues                                                       *)

LEMMA ConcatFacts ==
  ASSUME NEW S, NEW a \in Seq(S), NEW b \in Seq(S)
  PROVE  /\ a \o b \in Seq(S) /\ Len(a \o b) = Len(a) + Len(b)
         /\ \A i \in 1 .. Len(a) : (a \o b)[i] = a[i]
         /\ \A i \in 1 .. Len(b) : (a \o b)[Len(a) + i] = b[i]
OBVIOUS

LEMMA StampType ==
  ASSUME NEW r \in 0 .. MaxRestarts, NEW v \in 0 .. MaxVersion
  PROVE  r * (MaxVersion + 1) + v \in Values
<1> DEFINE M == MaxVersion + 1
<1>1. /\ M \in Nat /\ v < M /\ v \in Nat /\ r \in Nat
      /\ MaxRestarts \in Nat /\ MaxRestarts - r \in Nat
  BY BoundAssumption
<1> HIDE DEF M
<1>2. (MaxRestarts - r) * M >= 0 /\ r * M >= 0
  BY <1>1
<1>3. (MaxRestarts - r) * M = MaxRestarts * M - r * M
  BY <1>1
<1>4. (MaxRestarts + 1) * M = MaxRestarts * M + M
  BY <1>1
<1>5. r * M \in Nat /\ MaxRestarts * M \in Nat
  BY <1>1
<1>6. r * M + v \in 0 .. (MaxRestarts + 1) * M
  BY <1>1, <1>2, <1>3, <1>4, <1>5
<1> QED
  BY <1>6 DEF Values, M

LEMMA ZeroValue == 0 \in Values /\ MaxVersion \in Nat
<1>1. 0 * (MaxVersion + 1) + 0 \in Values
  BY StampType, BoundAssumption
<1> QED
  BY <1>1, BoundAssumption

LEMMA BuildFacts ==
  ASSUME TypeOK, NEW k \in Kind, NEW v \in 0 .. MaxVersion, NEW changed \in BOOLEAN
  PROVE  /\ Build(built[k], v, changed) \in Snapshots
         /\ Build(built[k], v, changed).version = v
<1>1. Stamp(v) \in Values
  BY StampType DEF TypeOK, Stamp
<1> QED
  BY <1>1 DEF Build, Snapshot, Snapshots, TypeOK

LEMMA FrameTypes ==
  ASSUME NEW k \in Kind, NEW s \in Snapshots
  PROVE  /\ Full(k, s) \in Frames /\ Full(k, s).version = s.version
         /\ Full(k, s).kind = k /\ Full(k, s).full /\ Full(k, s).has /\ Full(k, s).value = s.value
  BY DEF Full, Frames, Snapshots

\* The frame of a tick tells the row exactly when it changed.
LEMMA PreparedFacts ==
  ASSUME NEW k \in Kind, NEW old \in Snapshots, NEW s \in Snapshots, NEW f \in Prepared(k, old, s)
  PROVE  /\ f \in Frames /\ f.kind = k /\ f.version = s.version /\ f.value = s.value
         /\ f.has <=> old.value # s.value
         /\ f.full => f.has
<1>1. CASE f = Delta(k, old, s)
  BY <1>1 DEF Delta, Frames, Snapshots
<1>2. CASE old.value # s.value /\ f = Full(k, s)
  BY <1>2 DEF Full, Frames, Snapshots
<1> QED
  BY <1>1, <1>2 DEF Prepared

\* What put_drop_oldest keeps: all but the frame it drops, with the new one last.
LEMMA PutFacts ==
  ASSUME NEW q \in Seq(Frames), Len(q) <= MaxQueue, NEW f \in Frames
  PROVE  /\ Put(q, f) \in Seq(Frames) /\ Len(Put(q, f)) <= MaxQueue
         /\ \A i \in 1 .. Len(Put(q, f)) :
               Put(q, f)[i] = f \/ \E j \in 1 .. Len(q) : Put(q, f)[i] = q[j]
         /\ \A k : Mentions(f, k) => LastIs(Put(q, f), k, f.value)
         /\ \A k \in Kind : \A v : ~Mentions(f, k) /\ k \notin Dropped(q) /\ LastIs(q, k, v)
                                    => LastIs(Put(q, f), k, v)
         /\ \A k : ~Mentions(f, k) /\ Silent(q, k) => Silent(Put(q, f), k)
<1> DEFINE p == Put(q, f)
<1>0. MaxQueue \in Nat \ {0} /\ Len(q) \in Nat
  BY BoundAssumption
<1>1. CASE Len(q) < MaxQueue
  <2>1. /\ p \in Seq(Frames) /\ Len(p) = Len(q) + 1 /\ p[Len(q) + 1] = f
        /\ \A i \in 1 .. Len(q) : p[i] = q[i]
    BY <1>1 DEF Put
  <2> HIDE DEF p
  <2>2. ASSUME NEW k, Mentions(f, k) PROVE LastIs(p, k, f.value)
    BY <1>0, <2>1, <2>2 DEF LastIs
  <2>3. ASSUME NEW k, NEW v, ~Mentions(f, k), LastIs(q, k, v) PROVE LastIs(p, k, v)
    <3>1. PICK i \in 1 .. Len(q) : /\ Mentions(q[i], k) /\ q[i].value = v
                                   /\ \A j \in i + 1 .. Len(q) : ~Mentions(q[j], k)
      BY <2>3 DEF LastIs
    <3>2. i \in 1 .. Len(p) /\ Mentions(p[i], k) /\ p[i].value = v
      BY <1>0, <2>1, <3>1
    <3>3. ASSUME NEW j \in i + 1 .. Len(p) PROVE ~Mentions(p[j], k)
      BY <1>0, <2>1, <2>3, <3>1
    <3> QED
      BY <3>2, <3>3 DEF LastIs
  <2>4. ASSUME NEW k, ~Mentions(f, k), Silent(q, k) PROVE Silent(p, k)
    BY <1>0, <2>1, <2>4 DEF Silent
  <2>5. \A i \in 1 .. Len(p) : p[i] = f \/ \E j \in 1 .. Len(q) : p[i] = q[j]
    BY <1>0, <2>1
  <2> QED
    BY <1>0, <1>1, <2>1, <2>2, <2>3, <2>4, <2>5 DEF p
<1>2. CASE Len(q) >= MaxQueue
  <2>1. /\ Tail(q) \in Seq(Frames) /\ Len(Tail(q)) = Len(q) - 1
        /\ \A i \in 1 .. Len(q) - 1 : Tail(q)[i] = q[i + 1]
    BY <1>0, <1>2
  <2>2. /\ p \in Seq(Frames) /\ Len(p) = Len(q) /\ p[Len(q)] = f
        /\ \A i \in 1 .. Len(q) - 1 : p[i] = q[i + 1]
    <3> DEFINE r == Tail(q)
    <3>1. p = Append(r, f)
      BY <1>0, <1>2 DEF Put
    <3> HIDE DEF r, p
    <3>2. r \in Seq(Frames) /\ Len(r) = Len(q) - 1 /\ \A i \in 1 .. Len(q) - 1 : r[i] = q[i + 1]
      BY <2>1 DEF r
    <3> QED
      BY <1>0, <3>1, <3>2
  <2> HIDE DEF p
  <2>3. ASSUME NEW k, Mentions(f, k) PROVE LastIs(p, k, f.value)
    BY <1>0, <1>2, <2>2, <2>3 DEF LastIs
  <2>4. ASSUME NEW k \in Kind, NEW v, ~Mentions(f, k), k \notin Dropped(q), LastIs(q, k, v)
        PROVE  LastIs(p, k, v)
    <3>1. PICK i \in 1 .. Len(q) : /\ Mentions(q[i], k) /\ q[i].value = v
                                   /\ \A j \in i + 1 .. Len(q) : ~Mentions(q[j], k)
      BY <2>4 DEF LastIs
    <3>2. i # 1
      BY <1>2, <2>4, <3>1 DEF Dropped
    <3>3. i - 1 \in 1 .. Len(p) /\ Mentions(p[i - 1], k) /\ p[i - 1].value = v
      BY <1>0, <2>2, <3>1, <3>2
    <3>4. ASSUME NEW j \in (i - 1) + 1 .. Len(p) PROVE ~Mentions(p[j], k)
      BY <1>0, <2>2, <2>4, <3>1, <3>2
    <3> QED
      BY <3>3, <3>4 DEF LastIs
  <2>5. ASSUME NEW k, ~Mentions(f, k), Silent(q, k) PROVE Silent(p, k)
    BY <1>0, <2>2, <2>5 DEF Silent
  <2>6. \A i \in 1 .. Len(p) : p[i] = f \/ \E j \in 1 .. Len(q) : p[i] = q[j]
    BY <1>0, <2>2
  <2> QED
    BY <1>0, <1>2, <2>2, <2>3, <2>4, <2>5, <2>6 DEF p
<1> QED
  BY <1>0, <1>1, <1>2

\* What is left when the first frame is read: the last word on a row, unless it was that frame.
LEMMA TailFacts ==
  ASSUME NEW s \in Seq(Frames), s # <<>>
  PROVE  /\ Tail(s) \in Seq(Frames) /\ Len(Tail(s)) = Len(s) - 1 /\ Len(s) \in Nat \ {0}
         /\ Head(s) \in Frames /\ Head(s) = s[1]
         /\ \A i \in 1 .. Len(Tail(s)) : Tail(s)[i] = s[i + 1]
         /\ \A k, v : LastIs(s, k, v) =>
               \/ LastIs(Tail(s), k, v)
               \/ Silent(Tail(s), k) /\ Mentions(Head(s), k) /\ Head(s).value = v
         /\ \A k : Silent(s, k) => Silent(Tail(s), k) /\ ~Mentions(Head(s), k)
<1> DEFINE r == Tail(s)
<1>1. /\ r \in Seq(Frames) /\ Len(r) = Len(s) - 1 /\ Len(s) \in Nat \ {0}
      /\ Head(s) \in Frames /\ Head(s) = s[1]
      /\ \A i \in 1 .. Len(r) : r[i] = s[i + 1]
  OBVIOUS
<1> HIDE DEF r
<1>2. ASSUME NEW k, NEW v, LastIs(s, k, v)
      PROVE  LastIs(r, k, v) \/ (Silent(r, k) /\ Mentions(s[1], k) /\ s[1].value = v)
  <2>1. PICK i \in 1 .. Len(s) : /\ Mentions(s[i], k) /\ s[i].value = v
                                 /\ \A j \in i + 1 .. Len(s) : ~Mentions(s[j], k)
    BY <1>2 DEF LastIs
  <2>2. CASE i = 1
    <3>1. \A j \in 1 .. Len(r) : ~Mentions(r[j], k)
      BY <1>1, <2>1, <2>2
    <3> QED
      BY <2>1, <2>2, <3>1 DEF Silent
  <2>3. CASE i # 1
    <3>1. i - 1 \in 1 .. Len(r) /\ Mentions(r[i - 1], k) /\ r[i - 1].value = v
      BY <1>1, <2>1, <2>3
    <3>2. ASSUME NEW j \in (i - 1) + 1 .. Len(r) PROVE ~Mentions(r[j], k)
      BY <1>1, <2>1, <2>3
    <3> QED
      BY <3>1, <3>2 DEF LastIs
  <2> QED
    BY <2>2, <2>3
<1>3. ASSUME NEW k, Silent(s, k) PROVE Silent(r, k) /\ ~Mentions(s[1], k)
  BY <1>1, <1>3 DEF Silent
<1> QED
  BY <1>1, <1>2, <1>3 DEF r

\* What the row x of the client becomes when it has read s and then q.
Carried(s, q, x, k, v) ==
    \/ LastIs(q, k, v)
    \/ Silent(q, k) /\ LastIs(s, k, v)
    \/ Silent(q, k) /\ Silent(s, k) /\ x = v

LEMMA CarriedPut ==
  ASSUME NEW q \in Seq(Frames), Len(q) <= MaxQueue, NEW f \in Frames, NEW s, NEW x, NEW k \in Kind
  PROVE  /\ Mentions(f, k) => Carried(s, Put(q, f), x, k, f.value)
         /\ \A v : /\ ~Mentions(f, k) /\ k \notin Dropped(q)
                   /\ Carried(s, q, x, k, v)
                   => Carried(s, Put(q, f), x, k, v)
<1> DEFINE p == Put(q, f)
<1>1. /\ Mentions(f, k) => LastIs(p, k, f.value)
      /\ \A v : ~Mentions(f, k) /\ k \notin Dropped(q) /\ LastIs(q, k, v) => LastIs(p, k, v)
      /\ ~Mentions(f, k) /\ Silent(q, k) => Silent(p, k)
  BY PutFacts
<1> HIDE DEF p
<1>2. /\ Mentions(f, k) => Carried(s, p, x, k, f.value)
      /\ \A v : /\ ~Mentions(f, k) /\ k \notin Dropped(q)
                /\ Carried(s, q, x, k, v)
                => Carried(s, p, x, k, v)
  BY <1>1 DEF Carried
<1> QED
  BY <1>2 DEF p

\* The first frame read, of the start or of the queue, is merged into the row.
LEMMA CarriedRead ==
  ASSUME NEW s \in Seq(Frames), NEW q \in Seq(Frames), NEW x, NEW k, NEW v, Carried(s, q, x, k, v)
  PROVE  /\ s # <<>> =>
               Carried(Tail(s), q, IF k = Head(s).kind THEN Merged(Head(s), x) ELSE x, k, v)
         /\ s = <<>> /\ q # <<>> =>
               Carried(s, Tail(q), IF k = Head(q).kind THEN Merged(Head(q), x) ELSE x, k, v)
<1>1. ASSUME s # <<>>
      PROVE  Carried(Tail(s), q, IF k = Head(s).kind THEN Merged(Head(s), x) ELSE x, k, v)
  <2>1. /\ LastIs(s, k, v) => \/ LastIs(Tail(s), k, v)
                              \/ Silent(Tail(s), k) /\ Mentions(Head(s), k) /\ Head(s).value = v
        /\ Silent(s, k) => Silent(Tail(s), k) /\ ~Mentions(Head(s), k)
    BY <1>1, TailFacts
  <2> QED
    BY <2>1 DEF Carried, Merged, Mentions
<1>2. ASSUME s = <<>>, q # <<>>
      PROVE  Carried(s, Tail(q), IF k = Head(q).kind THEN Merged(Head(q), x) ELSE x, k, v)
  <2>1. /\ LastIs(q, k, v) => \/ LastIs(Tail(q), k, v)
                              \/ Silent(Tail(q), k) /\ Mentions(Head(q), k) /\ Head(q).value = v
        /\ Silent(q, k) => Silent(Tail(q), k) /\ ~Mentions(Head(q), k)
    BY <1>2, TailFacts
  <2>2. Silent(s, k) /\ ~LastIs(s, k, v)
    BY <1>2 DEF Silent, LastIs
  <2> QED
    BY <2>1, <2>2 DEF Carried, Merged, Mentions
<1> QED
  BY <1>1, <1>2

LEMMA NothingSent ==
  ASSUME NEW x, NEW k, NEW v
  PROVE  Silent(<<>>, k) /\ (Carried(<<>>, <<>>, x, k, v) <=> x = v)
BY DEF Carried, Silent, LastIs

LEMMA ComesToIs ==
  ASSUME NEW k, NEW v
  PROVE  ComesTo(k, v) <=> \/ \E f \in pending[k] : f.has /\ f.value = v
                           \/ /\ \A f \in pending[k] : ~f.has
                              /\ Carried(start, queue, view[k], k, v)
BY DEF ComesTo, Carried

-----------------------------------------------------------------------------
(* The tick                                                                *)

LEMMA StreamInit == Init => StreamInv
<1> SUFFICES ASSUME Init PROVE StreamInv
  OBVIOUS
<1>1. Snapshot(0, 0) \in Snapshots /\ Snapshot(0, 0).version = 0 /\ Snapshot(0, 0).value = 0
  BY ZeroValue DEF Snapshots, Snapshot
<1>2. TypeOK
  <2>1. /\ MaxVersion \in Nat /\ MaxQueue \in Nat /\ MaxAnswers \in Nat /\ MaxRestarts \in Nat
        /\ 0 \in Values
    BY ZeroValue, BoundAssumption
  <2>2. built \in [Kind -> Snapshots] /\ view \in [Kind -> Values] /\ pending \in [Kind -> SUBSET Frames]
    BY <1>1, <2>1 DEF Init
  <2>3. start \in Seq(Frames) /\ queue \in Seq(Frames) /\ Len(queue) <= MaxQueue
    BY <2>1 DEF Init
  <2>4. /\ version \in 0 .. MaxVersion /\ since \in 0 .. MaxVersion /\ asked \in 0 .. MaxAnswers
        /\ restarts \in 0 .. MaxRestarts
    BY <2>1 DEF Init
  <2>5. /\ connected \in BOOLEAN /\ (~connected => start = <<>> /\ queue = <<>>)
        /\ answers \subseteq Values /\ lossy \subseteq Kind /\ own \in BOOLEAN
    BY DEF Init
  <2> QED
    BY <2>2, <2>3, <2>4, <2>5 DEF TypeOK
<1>3. FramesKnown
  BY DEF Init, FramesKnown
<1>4. VersionsAgree
  BY <1>1 DEF Init, VersionsAgree, Revision, Kind
<1>5. Comes
  <2>1. \A k \in Kind : view[k] = built[k].value /\ pending[k] = {}
    BY <1>1 DEF Init
  <2>2. start = <<>> /\ queue = <<>>
    BY DEF Init
  <2> QED
    BY <2>1, <2>2, NothingSent, ComesToIs DEF Comes
<1> QED
  BY <1>2, <1>3, <1>4, <1>5 DEF StreamInv

\* What is due is built anew and waits as one frame, the rest stays as it was.
LEMMA TickFacts ==
  ASSUME StreamInv, NEW motion \in BOOLEAN, NEW data \in BOOLEAN, motion \/ data,
         Tick(motion, data)
  PROVE  /\ version' \in 0 .. MaxVersion /\ version < version' /\ Revision' = version'
         /\ built' \in [Kind -> Snapshots] /\ DOMAIN pending' = Kind
         /\ \A k \in Kind :
               /\ pending[k] = {} /\ built'[k].version <= version'
               /\ \/ built'[k] = built[k] /\ pending'[k] = {}
                  \/ \E f \in Prepared(k, built[k], built'[k]) : pending'[k] = {f}
<1> DEFINE dataVersion == version + (IF motion THEN 2 ELSE 1)
<1>0. /\ version \in 0 .. MaxVersion /\ MaxVersion \in Nat /\ Revision = version
      /\ built \in [Kind -> Snapshots] /\ \A k \in Kind : built[k].version <= version
      /\ pending \in [Kind -> SUBSET Frames]
      /\ \A k \in Kind : built[k].version \in 0 .. MaxVersion
  BY ZeroValue DEF StreamInv, TypeOK, VersionsAgree, Snapshots
<1>1. PICK changed \in [Kind -> BOOLEAN] :
        built' = [k \in Kind |->
                    IF k = "motion"
                    THEN IF motion THEN Build(built[k], version + 1, changed[k]) ELSE built[k]
                    ELSE IF data THEN Build(built[k], dataVersion, changed[k]) ELSE built[k]]
  BY DEF Tick
<1>2. /\ version' = version + (IF motion /\ data THEN 2 ELSE 1) /\ version' <= MaxVersion
      /\ \A k \in Kind : pending[k] = {}
  BY DEF Tick
<1>3. PICK m \in Prepared("motion", built["motion"], built'["motion"]),
           d \in Prepared("data", built["data"], built'["data"]) :
        pending' = [k \in Kind |-> IF k = "motion" THEN IF motion THEN {m} ELSE {}
                                   ELSE IF data THEN {d} ELSE {}]
  BY DEF Tick
<1>4. /\ version' \in 0 .. MaxVersion /\ version < version'
      /\ motion => version + 1 \in 0 .. MaxVersion /\ version + 1 <= version'
      /\ data => dataVersion \in 0 .. MaxVersion /\ dataVersion = version'
      /\ ~data => motion /\ version + 1 = version'
  BY <1>0, <1>2
<1> HIDE DEF dataVersion
<1>5. /\ "motion" \in Kind /\ "data" \in Kind /\ \A k \in Kind : k = "motion" \/ k = "data"
      /\ "motion" # "data"
  BY DEF Kind
<1>6. /\ built'["motion"] \in Snapshots
      /\ motion => built'["motion"].version = version + 1
      /\ ~motion => built'["motion"] = built["motion"]
  <2>1. built'["motion"] = IF motion THEN Build(built["motion"], version + 1, changed["motion"])
                                     ELSE built["motion"]
    BY <1>1, <1>5
  <2> QED
    BY <2>1, <1>0, <1>4, <1>5, BuildFacts DEF StreamInv
<1>7. /\ built'["data"] \in Snapshots
      /\ data => built'["data"].version = dataVersion
      /\ ~data => built'["data"] = built["data"]
  <2>1. built'["data"] = IF data THEN Build(built["data"], dataVersion, changed["data"])
                                 ELSE built["data"]
    BY <1>1, <1>5
  <2> QED
    BY <2>1, <1>0, <1>4, <1>5, BuildFacts DEF StreamInv
<1>8. /\ pending'["motion"] = IF motion THEN {m} ELSE {}
      /\ pending'["data"] = IF data THEN {d} ELSE {}
      /\ DOMAIN pending' = Kind
  BY <1>3, <1>5
<1>9. built' \in [Kind -> Snapshots]
  <2>1. \A k \in Kind : built'[k] \in Snapshots
    BY <1>5, <1>6, <1>7
  <2>2. built' = [k \in Kind |-> built'[k]]
    BY <1>1
  <2> QED
    BY <2>1, <2>2
<1>10. built'["motion"].version <= version' /\ built'["data"].version <= version'
  BY <1>0, <1>4, <1>5, <1>6, <1>7
<1>11. Revision' = version'
  BY <1>0, <1>4, <1>5, <1>6, <1>7, <1>10 DEF Revision
<1>12. ASSUME NEW k \in Kind
       PROVE  \/ built'[k] = built[k] /\ pending'[k] = {}
              \/ \E f \in Prepared(k, built[k], built'[k]) : pending'[k] = {f}
  BY <1>3, <1>5, <1>6, <1>7, <1>8
<1> QED
  BY <1>2, <1>4, <1>5, <1>8, <1>9, <1>10, <1>11, <1>12

LEMMA TickStep ==
  ASSUME StreamInv, NEW motion \in BOOLEAN, NEW data \in BOOLEAN, motion \/ data,
         Tick(motion, data)
  PROVE  StreamInv'
<1>1. /\ UNCHANGED <<restarts, start, queue, connected, view, since, answers, asked, lossy, own>>
      /\ TypeOK /\ FramesKnown /\ VersionsAgree /\ Comes
  BY DEF Tick, pipe, client, StreamInv
<1>2. /\ version' \in 0 .. MaxVersion /\ version < version' /\ Revision' = version'
      /\ built' \in [Kind -> Snapshots] /\ DOMAIN pending' = Kind
      /\ \A k \in Kind : pending[k] = {} /\ built'[k].version <= version'
  BY TickFacts
<1>3. ASSUME NEW k \in Kind
      PROVE  \/ built'[k] = built[k] /\ pending'[k] = {}
             \/ \E f \in Frames : /\ pending'[k] = {f} /\ f.kind = k /\ (f.full => f.has)
                                  /\ f.version <= version' /\ f.value = built'[k].value
                                  /\ f.has <=> built[k].value # built'[k].value
  <2>1. CASE \E f \in Prepared(k, built[k], built'[k]) : pending'[k] = {f}
    <3>1. PICK f \in Prepared(k, built[k], built'[k]) : pending'[k] = {f}
      BY <2>1
    <3>2. built[k] \in Snapshots /\ built'[k] \in Snapshots
      BY <1>1, <1>2 DEF TypeOK
    <3>3. /\ f \in Frames /\ f.kind = k /\ f.version = built'[k].version /\ f.value = built'[k].value
          /\ f.has <=> built[k].value # built'[k].value
          /\ f.full => f.has
      BY <3>2, PreparedFacts
    <3> QED
      BY <1>2, <3>1, <3>3
  <2> QED
    BY <2>1, TickFacts
<1>4. pending' \in [Kind -> SUBSET Frames] /\ \A k \in Kind : pending'[k] \subseteq Frames
  <2>1. ASSUME NEW k \in Kind PROVE pending'[k] \subseteq Frames
    <3>1. CASE pending'[k] = {}
      BY <3>1
    <3>2. CASE \E f \in Frames : pending'[k] = {f}
      BY <3>2
    <3> QED
      BY <1>3, <3>1, <3>2
  <2>2. pending' = [k \in Kind |-> pending'[k]]
    BY DEF Tick
  <2> QED
    BY <2>1, <2>2
<1>5. TypeOK'
  BY <1>1, <1>2, <1>4 DEF TypeOK
<1>6. FramesKnown'
  <2>1. /\ version \in Nat /\ version' \in Nat /\ start \in Seq(Frames) /\ queue \in Seq(Frames)
        /\ \A f \in Frames : f.version \in Nat
    BY <1>1, <1>2, ZeroValue DEF TypeOK, Frames
  <2>2. /\ \A i \in 1 .. Len(start) : start[i].version <= version'
        /\ \A i \in 1 .. Len(queue) : queue[i].version <= version'
    BY <1>1, <1>2, <2>1 DEF FramesKnown
  <2>3. ASSUME NEW k \in Kind, NEW f \in pending'[k]
        PROVE  /\ f.kind = k /\ (f.full => f.has) /\ f.version <= version'
               /\ \A g \in pending'[k] : f = g
    <3>1. PICK g \in Frames : /\ pending'[k] = {g} /\ g.kind = k /\ (g.full => g.has)
                              /\ g.version <= version'
      BY <1>3, <2>3
    <3> QED
      BY <2>3, <3>1
  <2> QED
    BY <1>1, <2>2, <2>3 DEF FramesKnown
<1>7. VersionsAgree'
  <2>1. own' => since' <= version'
    BY <1>1, <1>2, ZeroValue DEF VersionsAgree, TypeOK
  <2> QED
    BY <1>2, <2>1 DEF VersionsAgree
<1>8. Comes'
  <2>1. SUFFICES ASSUME NEW k \in Kind, Following', k \notin lossy
                 PROVE  ComesTo(k, built[k].value)'
    BY <1>1 DEF Comes
  <2>2. Following
    BY <1>1, <1>2, <2>1, ZeroValue DEF Following, VersionsAgree, TypeOK
  <2>3. Carried(start, queue, view[k], k, built[k].value)
    BY <1>1, <1>2, <2>1, <2>2, ComesToIs DEF Comes
  <2>4. \/ \E f \in pending'[k] : f.has /\ f.value = built'[k].value
        \/ (\A f \in pending'[k] : ~f.has) /\ built'[k].value = built[k].value
    <3>1. CASE built'[k] = built[k] /\ pending'[k] = {}
      BY <3>1
    <3>2. CASE \E f \in Frames : /\ pending'[k] = {f} /\ f.value = built'[k].value
                                 /\ f.has <=> built[k].value # built'[k].value
      BY <3>2
    <3> QED
      BY <1>3, <3>1, <3>2
  <2>5. \/ \E f \in pending'[k] : f.has /\ f.value = built'[k].value
        \/ /\ \A f \in pending'[k] : ~f.has
           /\ Carried(start', queue', view'[k], k, built'[k].value)
    BY <1>1, <2>3, <2>4
  <2> QED
    BY <2>5 DEF ComesTo, Carried
<1> QED
  BY <1>5, <1>6, <1>7, <1>8 DEF StreamInv

LEMMA EmitStep ==
  ASSUME StreamInv, NEW k \in Kind, Emit(k)
  PROVE  StreamInv'
<1>1. PICK f \in pending[k] :
        /\ pending' = [pending EXCEPT ![k] = {}]
        /\ queue' = IF connected THEN Put(queue, f) ELSE queue
        /\ lossy' = IF connected
                    THEN (lossy \cup Dropped(queue))
                         \ {j \in {k} : f.full /\ f.value = built[j].value}
                    ELSE lossy \cup {j \in {k} : f.has /\ f.version <= since}
        /\ UNCHANGED <<version, built, restarts, start, connected, view, since, answers, asked, own>>
  BY DEF Emit, client
<1>2. TypeOK /\ FramesKnown /\ VersionsAgree /\ Comes
  BY DEF StreamInv
<1>3. /\ f \in Frames /\ f.kind = k /\ (f.full => f.has) /\ f.version <= version
      /\ \A g \in pending[k] : g = f
      /\ f.version \in Nat /\ version \in Nat /\ since \in Nat
      /\ queue \in Seq(Frames) /\ Len(queue) <= MaxQueue
  BY <1>1, <1>2, ZeroValue DEF TypeOK, FramesKnown, Frames
<1>4. /\ pending' \in [Kind -> SUBSET Frames] /\ pending'[k] = {}
      /\ \A j \in Kind : j # k => pending'[j] = pending[j]
  BY <1>1, <1>2 DEF TypeOK
<1>5. /\ queue' \in Seq(Frames) /\ Len(queue') <= MaxQueue
      /\ \A i \in 1 .. Len(queue') : queue'[i].version <= version
      /\ ~connected => queue' = queue
  <2>1. CASE connected
    <3>1. /\ queue' \in Seq(Frames) /\ Len(queue') <= MaxQueue
          /\ \A i \in 1 .. Len(queue') : queue'[i] = f \/ \E j \in 1 .. Len(queue) : queue'[i] = queue[j]
      <4>1. queue' = Put(queue, f)
        BY <1>1, <2>1
      <4>2. /\ Put(queue, f) \in Seq(Frames) /\ Len(Put(queue, f)) <= MaxQueue
            /\ \A i \in 1 .. Len(Put(queue, f)) :
                 Put(queue, f)[i] = f \/ \E j \in 1 .. Len(queue) : Put(queue, f)[i] = queue[j]
        BY <1>3, PutFacts
      <4> QED
        BY <4>1, <4>2
    <3> QED
      BY <1>2, <1>3, <2>1, <3>1 DEF FramesKnown
  <2>2. CASE ~connected
    BY <1>1, <1>2, <1>3, <2>2 DEF FramesKnown
  <2> QED
    BY <2>1, <2>2
<1>6. TypeOK'
  <2>1. lossy' \subseteq Kind
    BY <1>1, <1>2 DEF TypeOK, Dropped
  <2> QED
    BY <1>1, <1>2, <1>4, <1>5, <2>1 DEF TypeOK
<1>7. FramesKnown'
  <2>1. \A j \in Kind : pending'[j] \subseteq pending[j]
    BY <1>4
  <2> QED
    BY <1>1, <1>2, <1>5, <2>1 DEF FramesKnown
<1>8. VersionsAgree'
  BY <1>1, <1>2 DEF VersionsAgree, Revision
<1>9. Comes'
  <2>1. SUFFICES ASSUME NEW j \in Kind, Following', j \notin lossy'
                 PROVE  ComesTo(j, built[j].value)'
    BY DEF Comes
  <2>2. Following
    BY <1>1, <2>1 DEF Following
  <2>3. j \notin lossy => \/ \E g \in pending[j] : g.has /\ g.value = built[j].value
                          \/ /\ \A g \in pending[j] : ~g.has
                             /\ Carried(start, queue, view[j], j, built[j].value)
    BY <1>2, <2>2, ComesToIs DEF Comes
  <2>4. \/ \E g \in pending'[j] : g.has /\ g.value = built[j].value
        \/ /\ \A g \in pending'[j] : ~g.has
           /\ Carried(start, queue', view[j], j, built[j].value)
    <3>1. CASE connected /\ j = k /\ f.has
      <4>1. f.value = built[j].value
        BY <1>1, <1>3, <2>1, <2>3, <3>1
      <4>2. Mentions(f, j)
        BY <1>3, <3>1 DEF Mentions
      <4> QED
        BY <1>1, <1>3, <1>4, <3>1, <4>1, <4>2, CarriedPut
    <3>2. CASE connected /\ j = k /\ ~f.has
      <4>1. j \notin lossy /\ j \notin Dropped(queue) /\ ~Mentions(f, j)
        BY <1>1, <1>3, <2>1, <3>2 DEF Mentions
      <4>2. Carried(start, queue, view[j], j, built[j].value)
        BY <1>1, <1>3, <2>3, <3>2, <4>1
      <4> QED
        BY <1>1, <1>3, <1>4, <3>2, <4>1, <4>2, CarriedPut
    <3>3. CASE connected /\ j # k
      <4>1. j \notin lossy /\ j \notin Dropped(queue) /\ ~Mentions(f, j)
        BY <1>1, <1>3, <2>1, <3>3 DEF Mentions
      <4>2. Carried(start, queue, view[j], j, built[j].value)
              => Carried(start, queue', view[j], j, built[j].value)
        BY <1>1, <1>3, <3>3, <4>1, CarriedPut
      <4> QED
        BY <1>4, <2>3, <3>3, <4>1, <4>2
    <3>4. CASE ~connected
      <4>1. j \notin lossy /\ queue' = queue /\ (j = k => ~(f.has /\ f.version <= since))
        BY <1>1, <2>1, <3>4
      <4>2. f.version <= since
        BY <1>3, <2>2, <3>4 DEF Following
      <4> QED
        BY <1>1, <1>3, <1>4, <2>3, <4>1, <4>2
    <3> QED
      BY <3>1, <3>2, <3>3, <3>4
  <2> QED
    BY <1>1, <2>4 DEF ComesTo, Carried
<1> QED
  BY <1>6, <1>7, <1>8, <1>9 DEF StreamInv

-----------------------------------------------------------------------------
(* Requests that build both snapshots, and a restart                       *)

LEMMA RefreshFacts ==
  ASSUME StreamInv, Refresh
  PROVE  /\ version' = version + 1 /\ version' \in 0 .. MaxVersion /\ Revision' = version'
         /\ built' \in [Kind -> Snapshots]
         /\ \A k \in Kind : built'[k].version = version'
         /\ UNCHANGED <<pending, restarts, view, since, answers, asked, own>>
<1>1. /\ version' = version + 1 /\ version' \in 0 .. MaxVersion /\ version + 1 \in 0 .. MaxVersion
      /\ UNCHANGED <<pending, restarts, view, since, answers, asked, own>>
  BY ZeroValue DEF Refresh, StreamInv, TypeOK, client
<1>2. PICK changed \in [Kind -> BOOLEAN] :
        built' = [k \in Kind |-> Build(built[k], version + 1, changed[k])]
  BY DEF Refresh
<1>3. \A k \in Kind : built'[k] \in Snapshots /\ built'[k].version = version'
  BY <1>1, <1>2, BuildFacts DEF StreamInv
<1>4. built' \in [Kind -> Snapshots]
  BY <1>2, <1>3
<1>5. Revision' = version'
  BY <1>3 DEF Revision, Kind
<1> QED
  BY <1>1, <1>3, <1>4, <1>5

\* What holds after a request but for the queue it leaves: only a client that is connected
\* can have the rows that are built now.
LEMMA RefreshKeeps ==
  ASSUME StreamInv, Refresh, UNCHANGED <<start, connected>>,
         queue' \in Seq(Frames), Len(queue') <= MaxQueue, ~connected => queue' = queue,
         \A i \in 1 .. Len(queue') :
             queue'[i].version = version' \/ \E j \in 1 .. Len(queue) : queue'[i] = queue[j],
         lossy' \subseteq Kind
  PROVE  TypeOK' /\ FramesKnown' /\ VersionsAgree' /\ (Following' => connected /\ Following)
<1>1. /\ version' = version + 1 /\ version' \in 0 .. MaxVersion /\ Revision' = version'
      /\ built' \in [Kind -> Snapshots]
      /\ \A k \in Kind : built'[k].version = version'
      /\ UNCHANGED <<pending, restarts, view, since, answers, asked, own>>
  BY RefreshFacts
<1>2. TypeOK /\ FramesKnown /\ VersionsAgree
  BY DEF StreamInv
<1>3. /\ version \in Nat /\ version' \in Nat /\ since \in Nat
      /\ start \in Seq(Frames) /\ queue \in Seq(Frames)
      /\ \A f \in Frames : f.version \in Nat
  BY <1>1, <1>2, ZeroValue DEF TypeOK, Frames
<1>4. TypeOK'
  BY <1>1, <1>2 DEF TypeOK
<1>5. FramesKnown'
  <2>1. ASSUME NEW k \in Kind, NEW f \in pending'[k]
        PROVE  /\ f.kind = k /\ (f.full => f.has) /\ f.version <= version'
               /\ \A g \in pending'[k] : f = g
    <3>1. f \in pending[k] /\ f \in Frames
      BY <1>1, <1>2, <2>1 DEF TypeOK
    <3>2. /\ f.kind = k /\ (f.full => f.has) /\ f.version <= version
          /\ \A g \in pending[k] : f = g
      BY <1>2, <3>1 DEF FramesKnown
    <3> QED
      BY <1>1, <1>3, <3>1, <3>2
  <2>2. \A i \in 1 .. Len(start) : start[i].version <= version'
    BY <1>1, <1>2, <1>3 DEF FramesKnown
  <2>3. ASSUME NEW i \in 1 .. Len(queue') PROVE queue'[i].version <= version'
    <3>1. CASE queue'[i].version = version'
      BY <1>3, <3>1
    <3>2. CASE \E j \in 1 .. Len(queue) : queue'[i] = queue[j]
      <4>1. PICK j \in 1 .. Len(queue) : queue'[i] = queue[j]
        BY <3>2
      <4>2. queue[j].version <= version /\ queue[j].version \in Nat
        BY <1>2, <1>3 DEF FramesKnown
      <4> QED
        BY <1>1, <1>3, <4>1, <4>2
    <3> QED
      BY <3>1, <3>2
  <2> QED
    BY <2>1, <2>2, <2>3 DEF FramesKnown
<1>6. VersionsAgree'
  BY <1>1, <1>2, <1>3 DEF VersionsAgree
<1>7. Following' => connected /\ Following
  BY <1>1, <1>2, <1>3 DEF Following, VersionsAgree
<1> QED
  BY <1>4, <1>5, <1>6, <1>7

\* A frame that the tick has still to emit and that was not overtaken carries what is built.
LEMMA NotOvertaken ==
  ASSUME NEW k \in Kind, UNCHANGED pending, k \notin Overtaken(built'),
         \/ Carried(start, queue, view[k], k, built[k].value)'
         \/ \E f \in pending[k] : f.has
  PROVE  ComesTo(k, built[k].value)'
<1>1. \A f \in pending[k] : f.has => f.value = built'[k].value
  BY DEF Overtaken
<1> QED
  BY <1>1 DEF ComesTo, Carried

LEMMA RefreshSilentlyStep ==
  ASSUME StreamInv, RefreshSilently
  PROVE  StreamInv'
<1>1. /\ Refresh /\ UNCHANGED <<start, queue, connected>>
      /\ lossy' = IF connected THEN lossy \cup Changed \cup Overtaken(built') ELSE lossy
      /\ UNCHANGED <<pending, view>>
  BY RefreshFacts DEF RefreshSilently, pipe
<1>2. TypeOK' /\ FramesKnown' /\ VersionsAgree' /\ (Following' => connected /\ Following)
  <2>1. queue \in Seq(Frames) /\ Len(queue) <= MaxQueue /\ lossy \subseteq Kind
    BY DEF StreamInv, TypeOK
  <2>2. lossy' \subseteq Kind
    BY <1>1, <2>1 DEF Changed, Overtaken
  <2> QED
    BY <1>1, <2>1, <2>2, RefreshKeeps
<1>3. Comes'
  <2>1. SUFFICES ASSUME NEW k \in Kind, Following', k \notin lossy'
                 PROVE  ComesTo(k, built[k].value)'
    BY DEF Comes
  <2>2. /\ k \notin lossy /\ k \notin Overtaken(built') /\ built'[k].value = built[k].value
        /\ Following
    BY <1>1, <1>2, <2>1 DEF Changed
  <2>3. ComesTo(k, built[k].value)
    BY <2>2 DEF StreamInv, Comes
  <2> QED
    BY <1>1, <2>2, <2>3 DEF ComesTo, LastIs, Silent
<1> QED
  BY <1>2, <1>3 DEF StreamInv

LEMMA ControlStep ==
  ASSUME StreamInv, Control
  PROVE  StreamInv'
<1> DEFINE f == Full("data", built'["data"])
<1>1. /\ Refresh /\ UNCHANGED <<start, connected, pending, view>>
      /\ queue' = IF connected THEN Put(queue, f) ELSE queue
      /\ lossy' = IF connected
                  THEN ((lossy \cup Changed \cup Dropped(queue)) \ {"data"}) \cup Overtaken(built')
                  ELSE lossy
  BY RefreshFacts DEF Control
<1>2. /\ "data" \in Kind /\ queue \in Seq(Frames) /\ Len(queue) <= MaxQueue /\ lossy \subseteq Kind
  BY DEF StreamInv, TypeOK, Kind
<1>3. /\ f \in Frames /\ f.version = version' /\ f.kind = "data" /\ f.has
      /\ f.value = built'["data"].value
  <2>1. built'["data"] \in Snapshots /\ built'["data"].version = version'
    BY <1>1, <1>2, RefreshFacts
  <2> QED
    BY <1>2, <2>1, FrameTypes
<1> HIDE DEF f
<1>4. TypeOK' /\ FramesKnown' /\ VersionsAgree' /\ (Following' => connected /\ Following)
  <2>1. lossy' \subseteq Kind
    BY <1>1, <1>2 DEF Changed, Overtaken, Dropped
  <2>2. /\ queue' \in Seq(Frames) /\ Len(queue') <= MaxQueue /\ (~connected => queue' = queue)
        /\ \A i \in 1 .. Len(queue') :
             queue'[i].version = version' \/ \E j \in 1 .. Len(queue) : queue'[i] = queue[j]
    <3>1. CASE connected
      <4>1. /\ queue' \in Seq(Frames) /\ Len(queue') <= MaxQueue
            /\ \A i \in 1 .. Len(queue') :
                 queue'[i] = f \/ \E j \in 1 .. Len(queue) : queue'[i] = queue[j]
        BY <1>1, <1>2, <1>3, <3>1, PutFacts
      <4> QED
        BY <1>3, <3>1, <4>1
    <3>2. CASE ~connected
      BY <1>1, <1>2, <3>2
    <3> QED
      BY <3>1, <3>2
  <2> QED
    BY <1>1, <2>1, <2>2, RefreshKeeps
<1>5. Comes'
  <2>1. SUFFICES ASSUME NEW k \in Kind, Following', k \notin lossy'
                 PROVE  ComesTo(k, built[k].value)'
    BY DEF Comes
  <2>2. connected /\ Following /\ k \notin Overtaken(built') /\ queue' = Put(queue, f)
    BY <1>1, <1>4, <2>1
  <2>3. CASE k = "data"
    <3>1. Mentions(f, k)
      BY <1>3, <2>3 DEF Mentions
    <3>2. Carried(start', queue', view'[k], k, built'[k].value)
      BY <1>2, <1>3, <2>2, <2>3, <3>1, CarriedPut
    <3>3. Carried(start, queue, view[k], k, built[k].value)'
      BY <3>2 DEF Carried, LastIs, Silent
    <3> QED
      BY <1>1, <2>2, <3>3, NotOvertaken
  <2>4. CASE k # "data"
    <3>1. /\ k \notin lossy /\ k \notin Dropped(queue) /\ built'[k].value = built[k].value
          /\ ~Mentions(f, k)
      BY <1>1, <1>3, <2>1, <2>2, <2>4 DEF Mentions, Changed
    <3>2. \/ \E g \in pending[k] : g.has
          \/ Carried(start, queue, view[k], k, built[k].value)
      BY <2>2, <3>1, ComesToIs DEF StreamInv, Comes
    <3>3. Carried(start, queue, view[k], k, built[k].value)
            => Carried(start', queue', view'[k], k, built'[k].value)
      BY <1>1, <1>2, <1>3, <2>2, <3>1, CarriedPut
    <3>4. \/ \E g \in pending[k] : g.has
          \/ Carried(start, queue, view[k], k, built[k].value)'
      BY <3>2, <3>3 DEF Carried, LastIs, Silent
    <3> QED
      BY <1>1, <2>2, <3>4, NotOvertaken
  <2> QED
    BY <2>3, <2>4
<1> QED
  BY <1>4, <1>5 DEF StreamInv

LEMMA RebindStep ==
  ASSUME StreamInv, Rebind
  PROVE  StreamInv'
<1> DEFINE d == Full("data", built'["data"])
           m == Full("motion", built'["motion"])
           q == Put(queue, d)
<1>1. /\ Refresh /\ UNCHANGED <<start, connected, pending, view>>
      /\ queue' = IF connected THEN Put(q, m) ELSE queue
      /\ lossy' = IF connected THEN (Dropped(q) \ {"motion"}) \cup Overtaken(built') ELSE lossy
  BY RefreshFacts DEF Rebind
<1>2. /\ "data" \in Kind /\ "motion" \in Kind /\ "data" # "motion"
      /\ \A k \in Kind : k = "data" \/ k = "motion"
      /\ queue \in Seq(Frames) /\ Len(queue) <= MaxQueue /\ lossy \subseteq Kind
  BY DEF StreamInv, TypeOK, Kind
<1>3. /\ d \in Frames /\ d.version = version' /\ d.kind = "data" /\ d.has
      /\ d.value = built'["data"].value
      /\ m \in Frames /\ m.version = version' /\ m.kind = "motion" /\ m.has
      /\ m.value = built'["motion"].value
  <2>1. /\ built'["data"] \in Snapshots /\ built'["data"].version = version'
        /\ built'["motion"] \in Snapshots /\ built'["motion"].version = version'
    BY <1>1, <1>2, RefreshFacts
  <2> QED
    BY <1>2, <2>1, FrameTypes
<1>4. /\ q \in Seq(Frames) /\ Len(q) <= MaxQueue
      /\ \A i \in 1 .. Len(q) : q[i] = d \/ \E j \in 1 .. Len(queue) : q[i] = queue[j]
      /\ Carried(start, q, view["data"], "data", d.value)
  <2>1. Mentions(d, "data")
    BY <1>3 DEF Mentions
  <2> QED
    BY <1>2, <1>3, <2>1, PutFacts, CarriedPut
<1> HIDE DEF d, m, q
<1>5. TypeOK' /\ FramesKnown' /\ VersionsAgree' /\ (Following' => connected /\ Following)
  <2>1. lossy' \subseteq Kind
    BY <1>1, <1>2 DEF Overtaken, Dropped
  <2>2. /\ queue' \in Seq(Frames) /\ Len(queue') <= MaxQueue /\ (~connected => queue' = queue)
        /\ \A i \in 1 .. Len(queue') :
             queue'[i].version = version' \/ \E j \in 1 .. Len(queue) : queue'[i] = queue[j]
    <3>1. CASE connected
      <4>1. /\ queue' \in Seq(Frames) /\ Len(queue') <= MaxQueue
            /\ \A i \in 1 .. Len(queue') :
                 queue'[i] = m \/ \E j \in 1 .. Len(q) : queue'[i] = q[j]
        BY <1>1, <1>3, <1>4, <3>1, PutFacts
      <4> QED
        BY <1>3, <1>4, <3>1, <4>1
    <3>2. CASE ~connected
      BY <1>1, <1>2, <3>2
    <3> QED
      BY <3>1, <3>2
  <2> QED
    BY <1>1, <2>1, <2>2, RefreshKeeps
<1>6. Comes'
  <2>1. SUFFICES ASSUME NEW k \in Kind, Following', k \notin lossy'
                 PROVE  ComesTo(k, built[k].value)'
    BY DEF Comes
  <2>2. connected /\ k \notin Overtaken(built') /\ queue' = Put(q, m)
    BY <1>1, <1>5, <2>1
  <2>3. Carried(start', queue', view'[k], k, built'[k].value)
    <3>1. CASE k = "motion"
      <4>1. Mentions(m, k)
        BY <1>3, <3>1 DEF Mentions
      <4> QED
        BY <1>3, <1>4, <2>2, <3>1, <4>1, CarriedPut
    <3>2. CASE k = "data"
      <4>1. k \notin Dropped(q) /\ ~Mentions(m, k)
        BY <1>1, <1>2, <1>3, <2>1, <2>2, <3>2 DEF Mentions
      <4>2. Carried(start, q, view[k], k, built'[k].value)
        BY <1>3, <1>4, <3>2
      <4>3. Carried(start, Put(q, m), view[k], k, built'[k].value)
        BY <1>3, <1>4, <4>1, <4>2, CarriedPut
      <4> QED
        BY <1>1, <2>2, <4>3
    <3> QED
      BY <1>2, <3>1, <3>2
  <2>4. Carried(start, queue, view[k], k, built[k].value)'
    BY <2>3 DEF Carried, LastIs, Silent
  <2> QED
    BY <1>1, <2>2, <2>4, NotOvertaken
<1> QED
  BY <1>5, <1>6 DEF StreamInv

\* The new run of the server is nobody's yet.
LEMMA RestartStep ==
  ASSUME StreamInv, Restart
  PROVE  StreamInv'
<1>1. /\ restarts' = restarts + 1 /\ restarts < MaxRestarts /\ version' = 0
      /\ built' = [k \in Kind |-> Snapshot(restarts' * (MaxVersion + 1), 0)]
      /\ pending' = [k \in Kind |-> {}]
      /\ start' = <<>> /\ queue' = <<>> /\ connected' = FALSE
      /\ answers' = {} /\ own' = FALSE
      /\ UNCHANGED <<view, since, asked, lossy>>
  BY DEF Restart
<1>2. TypeOK
  BY DEF StreamInv
<1>3. restarts' \in 0 .. MaxRestarts /\ MaxVersion \in Nat /\ 0 \in 0 .. MaxVersion
  BY <1>1, <1>2, BoundAssumption DEF TypeOK
<1> DEFINE s == Snapshot(restarts' * (MaxVersion + 1), 0)
<1>4. s \in Snapshots /\ s.version = 0
  <2>1. restarts' * (MaxVersion + 1) + 0 \in Values
    BY <1>3, StampType
  <2>2. restarts' \in Int /\ MaxVersion + 1 \in Int
    BY <1>3, BoundAssumption
  <2> DEFINE M == MaxVersion + 1
  <2>3. M \in Int
    BY <2>2
  <2> HIDE DEF M
  <2>4. restarts' * M + 0 = restarts' * M
    BY <2>2, <2>3
  <2>5. restarts' * (MaxVersion + 1) \in Values
    BY <2>1, <2>4 DEF M
  <2> QED
    BY <1>3, <2>5 DEF Snapshot, Snapshots
<1> HIDE DEF s
<1>5. built' = [k \in Kind |-> s]
  BY <1>1 DEF s
<1>6. TypeOK'
  <2>1. /\ built' \in [Kind -> Snapshots] /\ pending' \in [Kind -> SUBSET Frames]
        /\ start' \in Seq(Frames) /\ queue' \in Seq(Frames) /\ Len(queue') <= MaxQueue
    BY <1>1, <1>4, <1>5, BoundAssumption
  <2>2. /\ version' \in 0 .. MaxVersion /\ since' \in 0 .. MaxVersion /\ view' \in [Kind -> Values]
        /\ connected' \in BOOLEAN /\ (~connected' => start' = <<>> /\ queue' = <<>>)
        /\ answers' \subseteq Values /\ asked' \in 0 .. MaxAnswers
        /\ lossy' \subseteq Kind /\ own' \in BOOLEAN
    BY <1>1, <1>2, <1>3 DEF TypeOK
  <2> QED
    BY <1>3, <2>1, <2>2 DEF TypeOK
<1>7. FramesKnown' /\ Comes'
  BY <1>1 DEF FramesKnown, Comes, Following
<1>8. VersionsAgree'
  BY <1>1, <1>4, <1>5 DEF VersionsAgree, Revision, Kind
<1> QED
  BY <1>6, <1>7, <1>8 DEF StreamInv

-----------------------------------------------------------------------------
(* The client                                                              *)

\* A client whose revision is not that of the server is sent both kinds in full; one that
\* names the revision was in step when the stream broke.
LEMMA ConnectStep ==
  ASSUME StreamInv, Connect
  PROVE  StreamInv'
<1> DEFINE r == Ready(Revision)
           d == Full("data", built["data"])
           m == Full("motion", built["motion"])
<1>1. /\ ~connected /\ connected' = TRUE /\ queue' = <<>>
      /\ start' = <<r>> \o (IF UpToDate THEN <<>> ELSE <<d, m>>)
      /\ lossy' = IF ~UpToDate THEN Overtaken(built) ELSE IF own THEN lossy ELSE Kind
      /\ UNCHANGED <<version, built, pending, restarts, view, since, answers, asked, own>>
  BY DEF Connect, server, client
<1>2. TypeOK /\ FramesKnown /\ VersionsAgree /\ Comes
  BY DEF StreamInv
<1>3. /\ "data" \in Kind /\ "motion" \in Kind /\ "data" # "motion"
      /\ \A k \in Kind : (k = "data" \/ k = "motion") /\ k # "ready"
  BY DEF Kind
<1>4. /\ r \in Frames /\ r.version = version /\ r.kind = "ready" /\ ~r.has
  BY <1>2, ZeroValue DEF Ready, Frames, VersionsAgree, TypeOK
<1>5. /\ d \in Frames /\ d.version <= version /\ d.kind = "data" /\ d.has
      /\ d.value = built["data"].value
      /\ m \in Frames /\ m.version <= version /\ m.kind = "motion" /\ m.has
      /\ m.value = built["motion"].value
  <2>1. built["data"] \in Snapshots /\ built["motion"] \in Snapshots
    BY <1>2, <1>3 DEF TypeOK
  <2> QED
    BY <1>2, <1>3, <2>1, FrameTypes DEF VersionsAgree
<1> HIDE DEF r, d, m
<1>6. /\ start' \in Seq(Frames) /\ start'[1] = r
      /\ UpToDate => Len(start') = 1
      /\ ~UpToDate => Len(start') = 3 /\ start'[2] = d /\ start'[3] = m
  <2> DEFINE first == <<r>>
             last  == <<d, m>>
             none  == <<>>
  <2>1. /\ first \in Seq(Frames) /\ Len(first) = 1 /\ first[1] = r
        /\ last \in Seq(Frames) /\ Len(last) = 2 /\ last[1] = d /\ last[2] = m
        /\ none \in Seq(Frames) /\ Len(none) = 0
    BY <1>4, <1>5
  <2>2. start' = first \o (IF UpToDate THEN none ELSE last)
    BY <1>1
  <2> HIDE DEF first, last, none
  <2>3. CASE UpToDate
    <3>1. start' = first \o none
      BY <2>2, <2>3
    <3>2. /\ start' \in Seq(Frames) /\ Len(start') = 1 + 0
          /\ \A i \in 1 .. 1 : start'[i] = first[i]
      <4>1. /\ first \o none \in Seq(Frames) /\ Len(first \o none) = Len(first) + Len(none)
            /\ \A i \in 1 .. Len(first) : (first \o none)[i] = first[i]
        <5>1. first \in Seq(Frames) /\ none \in Seq(Frames)
          BY <2>1
        <5>2. first \o none \in Seq(Frames) /\ Len(first \o none) = Len(first) + Len(none)
          BY <5>1, ConcatFacts
        <5>3. \A i \in 1 .. Len(first) : (first \o none)[i] = first[i]
          BY <5>1, ConcatFacts
        <5> QED
          BY <5>2, <5>3
      <4>2. Len(first) = 1 /\ Len(none) = 0
        BY <2>1
      <4> QED
        BY <3>1, <4>1, <4>2, Zenon
    <3> QED
      BY <2>1, <2>3, <3>2
  <2>4. CASE ~UpToDate
    <3>1. start' = first \o last
      BY <2>2, <2>4
    <3>2. /\ start' \in Seq(Frames) /\ Len(start') = 1 + 2
          /\ \A i \in 1 .. 1 : start'[i] = first[i]
          /\ \A i \in 1 .. 2 : start'[1 + i] = last[i]
      <4>1. /\ first \o last \in Seq(Frames) /\ Len(first \o last) = Len(first) + Len(last)
            /\ \A i \in 1 .. Len(first) : (first \o last)[i] = first[i]
            /\ \A i \in 1 .. Len(last) : (first \o last)[Len(first) + i] = last[i]
        <5>1. first \in Seq(Frames) /\ last \in Seq(Frames)
          BY <2>1
        <5>2. first \o last \in Seq(Frames) /\ Len(first \o last) = Len(first) + Len(last)
          BY <5>1, ConcatFacts
        <5>3. \A i \in 1 .. Len(first) : (first \o last)[i] = first[i]
          BY <5>1, ConcatFacts
        <5>4. \A i \in 1 .. Len(last) : (first \o last)[Len(first) + i] = last[i]
          BY <5>1, ConcatFacts
        <5> QED
          BY <5>2, <5>3, <5>4
      <4>2. Len(first) = 1 /\ Len(last) = 2
        BY <2>1
      <4> QED
        BY <3>1, <4>1, <4>2, Zenon
    <3>3. start'[1] = first[1] /\ start'[2] = last[1] /\ start'[3] = last[2]
      <4>1. 1 \in 1 .. 1 /\ 1 \in 1 .. 2 /\ 2 \in 1 .. 2 /\ 1 + 1 = 2 /\ 1 + 2 = 3
        OBVIOUS
      <4> QED
        BY <3>2, <4>1
    <3> QED
      BY <2>1, <2>4, <3>2, <3>3
  <2> QED
    BY <2>3, <2>4
<1>7. /\ UpToDate => \A i \in 1 .. Len(start') : start'[i] = r
      /\ ~UpToDate => \A i \in 1 .. Len(start') : \/ i = 1 /\ start'[i] = r
                                                  \/ i = 2 /\ start'[i] = d
                                                  \/ i = 3 /\ start'[i] = m
  <2>1. (\A i \in 1 .. 1 : i = 1) /\ (\A i \in 1 .. 3 : i = 1 \/ i = 2 \/ i = 3)
    OBVIOUS
  <2> QED
    BY <1>6, <2>1
<1>8. \A i \in 1 .. Len(start') : start'[i].version <= version
  <2>1. version \in Nat
    BY <1>2, ZeroValue DEF TypeOK
  <2> QED
    BY <1>4, <1>5, <1>7, <2>1
<1>9. TypeOK'
  <2>1. lossy' \subseteq Kind
    BY <1>1, <1>2 DEF TypeOK, Overtaken
  <2>2. queue' \in Seq(Frames) /\ Len(queue') <= MaxQueue
    BY <1>1, BoundAssumption
  <2> QED
    BY <1>1, <1>2, <1>6, <2>1, <2>2 DEF TypeOK
<1>10. FramesKnown'
  <2>1. \A i \in 1 .. Len(queue') : queue'[i].version <= version
    BY <1>1
  <2> QED
    BY <1>1, <1>2, <1>8, <2>1 DEF FramesKnown
<1>11. VersionsAgree'
  BY <1>1, <1>2 DEF VersionsAgree, Revision
<1>12. Comes'
  <2>1. SUFFICES ASSUME NEW k \in Kind, k \notin lossy'
                 PROVE  ComesTo(k, built[k].value)'
    BY DEF Comes
  <2>2. Silent(queue', k)
    BY <1>1 DEF Silent
  <2>3. CASE ~UpToDate
    <3>1. k \notin Overtaken(built) /\ Len(start') = 3 /\ start'[2] = d /\ start'[3] = m
      BY <1>1, <1>6, <2>1, <2>3
    <3>2. LastIs(start', k, built[k].value)
      <4>1. CASE k = "data"
        <5>1. Mentions(d, k) /\ ~Mentions(m, k) /\ d.value = built[k].value
          BY <1>3, <1>5, <4>1 DEF Mentions
        <5> QED
          BY <3>1, <5>1 DEF LastIs
      <4>2. CASE k = "motion"
        <5>1. Mentions(m, k) /\ m.value = built[k].value
          BY <1>5, <4>2 DEF Mentions
        <5> QED
          BY <3>1, <5>1 DEF LastIs
      <4> QED
        BY <1>3, <4>1, <4>2
    <3>3. \A f \in pending[k] : f.has => f.value = built[k].value
      BY <3>1 DEF Overtaken
    <3>4. \/ \E f \in pending'[k] : f.has /\ f.value = built'[k].value
          \/ /\ \A f \in pending'[k] : ~f.has
             /\ Carried(start', queue', view'[k], k, built'[k].value)
      BY <1>1, <2>2, <3>2, <3>3 DEF Carried
    <3> QED
      BY <3>4 DEF ComesTo, Carried
  <2>4. CASE UpToDate
    <3>1. own /\ k \notin lossy
      BY <1>1, <2>1, <2>4
    <3>2. Following
      BY <1>2, <2>4, <3>1 DEF Following, UpToDate, VersionsAgree
    <3>3. \/ \E f \in pending[k] : f.has /\ f.value = built[k].value
          \/ /\ \A f \in pending[k] : ~f.has
             /\ Carried(start, queue, view[k], k, built[k].value)
      BY <1>2, <3>1, <3>2, ComesToIs DEF Comes
    <3>4. start = <<>> /\ queue = <<>>
      BY <1>1, <1>2 DEF TypeOK
    <3>5. Carried(start, queue, view[k], k, built[k].value) => view[k] = built[k].value
      BY <3>4, NothingSent
    <3>6. Silent(start', k)
      <4>1. ~Mentions(r, k)
        BY <1>4 DEF Mentions
      <4> QED
        BY <1>7, <2>4, <4>1 DEF Silent
    <3>7. \/ \E f \in pending'[k] : f.has /\ f.value = built'[k].value
          \/ /\ \A f \in pending'[k] : ~f.has
             /\ Carried(start', queue', view'[k], k, built'[k].value)
      BY <1>1, <2>2, <3>3, <3>5, <3>6 DEF Carried
    <3> QED
      BY <3>7 DEF ComesTo, Carried
  <2> QED
    BY <2>3, <2>4
<1> QED
  BY <1>9, <1>10, <1>11, <1>12 DEF StreamInv

\* A client that may come back without being sent the rows has lost nothing unread.
LEMMA BreakStep ==
  ASSUME StreamInv, Break
  PROVE  StreamInv'
<1>1. /\ connected /\ connected' = FALSE /\ start' = <<>> /\ queue' = <<>>
      /\ lossy' = lossy \cup {k \in Kind : \E i \in 1 .. Len(Unread) :
                                 Mentions(Unread[i], k) /\ Unread[i].version <= since}
      /\ UNCHANGED <<version, built, pending, restarts, view, since, answers, asked, own>>
  BY DEF Break, server, client
<1>2. TypeOK /\ FramesKnown /\ VersionsAgree /\ Comes
  BY DEF StreamInv
<1>3. TypeOK'
  <2>1. lossy' \subseteq Kind
    BY <1>1, <1>2 DEF TypeOK
  <2>2. queue' \in Seq(Frames) /\ start' \in Seq(Frames) /\ Len(queue') <= MaxQueue
    BY <1>1, BoundAssumption
  <2> QED
    BY <1>1, <1>2, <2>1, <2>2 DEF TypeOK
<1>4. FramesKnown'
  <2>1. Len(queue') = 0 /\ Len(start') = 0
    BY <1>1
  <2> QED
    BY <1>1, <1>2, <2>1 DEF FramesKnown
<1>5. VersionsAgree'
  BY <1>1, <1>2 DEF VersionsAgree, Revision
<1>6. Comes'
  <2>1. SUFFICES ASSUME NEW k \in Kind, Following', k \notin lossy'
                 PROVE  ComesTo(k, built[k].value)'
    BY DEF Comes
  <2>2. version <= since /\ k \notin lossy /\ Following
    BY <1>1, <2>1 DEF Following
  <2>3. /\ start \in Seq(Frames) /\ queue \in Seq(Frames) /\ version \in Nat /\ since \in Nat
        /\ \A f \in Frames : f.version \in Nat
    BY <1>2, ZeroValue DEF TypeOK, Frames
  <2>4. /\ Len(Unread) = Len(start) + Len(queue) /\ Len(start) \in Nat /\ Len(queue) \in Nat
        /\ \A i \in 1 .. Len(start) : i \in 1 .. Len(Unread) /\ Unread[i] = start[i]
        /\ \A i \in 1 .. Len(queue) :
              Len(start) + i \in 1 .. Len(Unread) /\ Unread[Len(start) + i] = queue[i]
    BY <2>3 DEF Unread
  <2>5. \A i \in 1 .. Len(Unread) : Mentions(Unread[i], k) => ~(Unread[i].version <= since)
    BY <1>1, <2>1
  <2>6. Silent(start, k)
    <3>1. ASSUME NEW i \in 1 .. Len(start) PROVE ~Mentions(start[i], k)
      <4>1. start[i].version <= version /\ start[i].version \in Nat
        BY <1>2, <2>3 DEF FramesKnown
      <4>2. start[i].version <= since
        BY <2>2, <2>3, <4>1
      <4>3. Mentions(start[i], k) => ~(start[i].version <= since)
        BY <2>4, <2>5
      <4> QED
        BY <4>2, <4>3
    <3> QED
      BY <3>1 DEF Silent
  <2>7. Silent(queue, k)
    <3>1. ASSUME NEW i \in 1 .. Len(queue) PROVE ~Mentions(queue[i], k)
      <4>1. queue[i].version <= version /\ queue[i].version \in Nat
        BY <1>2, <2>3 DEF FramesKnown
      <4>2. queue[i].version <= since
        BY <2>2, <2>3, <4>1
      <4>3. Mentions(queue[i], k) => ~(queue[i].version <= since)
        <5>1. Len(start) + i \in 1 .. Len(Unread) /\ Unread[Len(start) + i] = queue[i]
          BY <2>4
        <5> QED
          BY <2>5, <5>1
      <4> QED
        BY <4>2, <4>3
    <3> QED
      BY <3>1 DEF Silent
  <2>8. Carried(start, queue, view[k], k, built[k].value) => view[k] = built[k].value
    BY <2>6, <2>7 DEF Carried, LastIs, Silent
  <2>9. \/ \E f \in pending[k] : f.has /\ f.value = built[k].value
        \/ /\ \A f \in pending[k] : ~f.has
           /\ Carried(start, queue, view[k], k, built[k].value)
    BY <1>2, <2>2, ComesToIs DEF Comes
  <2>10. \/ \E f \in pending'[k] : f.has /\ f.value = built'[k].value
         \/ /\ \A f \in pending'[k] : ~f.has
            /\ Carried(start', queue', view'[k], k, built'[k].value)
    BY <1>1, <2>8, <2>9, NothingSent
  <2> QED
    BY <2>10 DEF ComesTo, Carried
<1> QED
  BY <1>3, <1>4, <1>5, <1>6 DEF StreamInv

LEMMA ReadStep ==
  ASSUME StreamInv, Read
  PROVE  StreamInv'
<1>1. TypeOK /\ FramesKnown /\ VersionsAgree /\ Comes
  BY DEF StreamInv
<1>2. /\ start \in Seq(Frames) /\ queue \in Seq(Frames) /\ Len(queue) <= MaxQueue
      /\ version \in Nat /\ since \in 0 .. MaxVersion /\ MaxVersion \in Nat
      /\ \A f \in Frames : f.version \in 0 .. MaxVersion /\ f.value \in Values /\ f.has \in BOOLEAN
      /\ view \in [Kind -> Values] /\ own \in BOOLEAN /\ MaxQueue \in Nat
  BY <1>1, ZeroValue, BoundAssumption DEF TypeOK, Frames
<1>3. PICK f \in Frames :
        /\ Apply(f) /\ f.version <= version
        /\ start' \in Seq(Frames) /\ queue' \in Seq(Frames) /\ Len(queue') <= MaxQueue
        /\ \A i \in 1 .. Len(start') : start'[i].version <= version
        /\ \A i \in 1 .. Len(queue') : queue'[i].version <= version
        /\ \A x, k, v : Carried(start, queue, x, k, v) =>
              Carried(start', queue', IF k = f.kind THEN Merged(f, x) ELSE x, k, v)
  <2>1. CASE start # <<>> /\ Apply(Head(start)) /\ start' = Tail(start) /\ queue' = queue
    <3>1. /\ start' \in Seq(Frames) /\ Len(start') = Len(start) - 1 /\ Len(start) \in Nat \ {0}
          /\ Head(start) \in Frames /\ Head(start) = start[1]
          /\ \A i \in 1 .. Len(start') : start'[i] = start[i + 1]
      BY <1>2, <2>1, TailFacts
    <3>2. /\ Head(start).version <= version
          /\ \A i \in 1 .. Len(start') : start'[i].version <= version
      BY <1>1, <3>1 DEF FramesKnown
    <3>3. \A i \in 1 .. Len(queue') : queue'[i].version <= version
      BY <1>1, <2>1 DEF FramesKnown
    <3>4. ASSUME NEW x, NEW k, NEW v, Carried(start, queue, x, k, v)
          PROVE  Carried(start', queue', IF k = Head(start).kind THEN Merged(Head(start), x) ELSE x, k, v)
      BY <1>2, <2>1, <3>4, CarriedRead
    <3> QED
      BY <1>2, <2>1, <3>1, <3>2, <3>3, <3>4
  <2>2. CASE start = <<>> /\ queue # <<>> /\ Apply(Head(queue)) /\ queue' = Tail(queue) /\ start' = start
    <3>1. /\ queue' \in Seq(Frames) /\ Len(queue') = Len(queue) - 1 /\ Len(queue) \in Nat \ {0}
          /\ Head(queue) \in Frames /\ Head(queue) = queue[1]
          /\ \A i \in 1 .. Len(queue') : queue'[i] = queue[i + 1]
      BY <1>2, <2>2, TailFacts
    <3>2. /\ Head(queue).version <= version
          /\ \A i \in 1 .. Len(queue') : queue'[i].version <= version
      BY <1>1, <3>1 DEF FramesKnown
    <3>3. \A i \in 1 .. Len(start') : start'[i].version <= version
      BY <1>1, <2>2 DEF FramesKnown
    <3>4. ASSUME NEW x, NEW k, NEW v, Carried(start, queue, x, k, v)
          PROVE  Carried(start', queue', IF k = Head(queue).kind THEN Merged(Head(queue), x) ELSE x, k, v)
      BY <1>2, <2>2, <3>4, CarriedRead
    <3>5. Len(queue') <= MaxQueue
      BY <1>2, <3>1
    <3> QED
      BY <1>2, <2>2, <3>1, <3>2, <3>3, <3>4, <3>5
  <2> QED
    BY <2>1, <2>2 DEF Read
<1>4. /\ since' = IF f.version > since THEN f.version ELSE since
      /\ own' = (own \/ f.version >= since)
      /\ view' = [k \in Kind |-> IF k = f.kind THEN Merged(f, view[k]) ELSE view[k]]
      /\ UNCHANGED <<version, built, pending, restarts, connected, answers, asked, lossy>>
  BY <1>3 DEF Apply, server
<1>5. connected
  BY <1>1 DEF Read, TypeOK
<1>6. TypeOK'
  <2>1. since' \in 0 .. MaxVersion /\ own' \in BOOLEAN
    BY <1>2, <1>3, <1>4
  <2>2. view' \in [Kind -> Values]
    BY <1>2, <1>3, <1>4 DEF Merged
  <2> QED
    BY <1>1, <1>3, <1>4, <1>5, <2>1, <2>2 DEF TypeOK
<1>7. FramesKnown'
  BY <1>1, <1>3, <1>4 DEF FramesKnown
<1>8. VersionsAgree'
  <2>1. own' => since' <= version
    BY <1>1, <1>2, <1>3, <1>4 DEF VersionsAgree
  <2> QED
    BY <1>1, <1>4, <2>1 DEF VersionsAgree, Revision
<1>9. Comes'
  <2>1. SUFFICES ASSUME NEW k \in Kind, k \notin lossy
                 PROVE  ComesTo(k, built[k].value)'
    BY <1>4 DEF Comes
  <2>2. \/ \E g \in pending[k] : g.has /\ g.value = built[k].value
        \/ /\ \A g \in pending[k] : ~g.has
           /\ Carried(start, queue, view[k], k, built[k].value)
    BY <1>1, <1>5, <2>1, ComesToIs DEF Comes, Following
  <2>3. view'[k] = IF k = f.kind THEN Merged(f, view[k]) ELSE view[k]
    BY <1>4, <2>1
  <2>4. Carried(start, queue, view[k], k, built[k].value)
          => Carried(start', queue', view'[k], k, built[k].value)
    BY <1>3, <2>3
  <2>5. \/ \E g \in pending'[k] : g.has /\ g.value = built'[k].value
        \/ /\ \A g \in pending'[k] : ~g.has
           /\ Carried(start', queue', view'[k], k, built'[k].value)
    BY <1>4, <2>2, <2>4
  <2> QED
    BY <2>5 DEF ComesTo, Carried
<1> QED
  BY <1>6, <1>7, <1>8, <1>9 DEF StreamInv

LEMMA AskStep ==
  ASSUME StreamInv, Ask
  PROVE  StreamInv'
<1>1. /\ asked < MaxAnswers /\ asked' = asked + 1 /\ answers' = answers \cup {built["data"].value}
      /\ UNCHANGED <<version, built, pending, restarts, start, queue, connected, view, since, lossy, own>>
  BY DEF Ask, server, pipe
<1>2. TypeOK'
  <2>1. built["data"].value \in Values /\ TypeOK
    BY DEF StreamInv, TypeOK, Snapshots, Kind
  <2>2. asked' \in 0 .. MaxAnswers
    BY <1>1, <2>1, BoundAssumption DEF TypeOK
  <2> QED
    BY <1>1, <2>1, <2>2 DEF TypeOK
<1>3. FramesKnown' /\ VersionsAgree' /\ Comes'
  BY <1>1 DEF StreamInv, FramesKnown, VersionsAgree, Revision, Comes, Following, ComesTo, LastIs, Silent
<1> QED
  BY <1>2, <1>3 DEF StreamInv

LEMMA AnswerStep ==
  ASSUME StreamInv, NEW a \in answers, Answer(a)
  PROVE  StreamInv'
<1>1. /\ answers' = answers \ {a} /\ view' = [view EXCEPT !["data"] = a]
      /\ lossy' = IF a # built["data"].value THEN lossy \cup {"data"} ELSE lossy
      /\ UNCHANGED <<version, built, pending, restarts, start, queue, connected, since, asked, own>>
  BY DEF Answer, server, pipe
<1>2. TypeOK /\ FramesKnown /\ VersionsAgree /\ Comes
  BY DEF StreamInv
<1>3. a \in Values /\ "data" \in Kind
  BY <1>2 DEF TypeOK, Kind
<1>4. TypeOK'
  BY <1>1, <1>2, <1>3 DEF TypeOK
<1>5. FramesKnown' /\ VersionsAgree'
  BY <1>1, <1>2 DEF FramesKnown, VersionsAgree, Revision
<1>6. Comes'
  <2>1. SUFFICES ASSUME NEW k \in Kind, Following', k \notin lossy'
                 PROVE  ComesTo(k, built[k].value)'
    BY DEF Comes
  <2>2. k \notin lossy /\ Following /\ (k = "data" => a = built[k].value)
    BY <1>1, <2>1 DEF Following
  <2>3. view'[k] = view[k] \/ view'[k] = built[k].value
    BY <1>1, <1>2, <2>2 DEF TypeOK
  <2>4. ComesTo(k, built[k].value)
    BY <1>2, <2>2 DEF Comes
  <2> QED
    BY <1>1, <2>3, <2>4 DEF ComesTo, LastIs, Silent
<1> QED
  BY <1>4, <1>5, <1>6 DEF StreamInv

LEMMA StreamStep == StreamInv /\ [Next]_vars => StreamInv'
<1> SUFFICES ASSUME StreamInv, [Next]_vars PROVE StreamInv'
  OBVIOUS
<1>1. ASSUME NEW motion \in BOOLEAN, NEW data \in BOOLEAN, motion \/ data, Tick(motion, data)
      PROVE  StreamInv'
  BY <1>1, TickStep
<1>2. ASSUME NEW k \in Kind, Emit(k) PROVE StreamInv'
  BY <1>2, EmitStep
<1>3. CASE RefreshSilently \/ Control \/ Rebind \/ Restart
  BY <1>3, RefreshSilentlyStep, ControlStep, RebindStep, RestartStep
<1>4. CASE Connect \/ Break \/ Read \/ Ask
  BY <1>4, ConnectStep, BreakStep, ReadStep, AskStep
<1>5. ASSUME NEW a \in answers, Answer(a) PROVE StreamInv'
  BY <1>5, AnswerStep
<1>6. CASE UNCHANGED vars
  <2>1. UNCHANGED <<version, built, pending, restarts, start, queue, connected, view, since,
                    answers, asked, lossy, own>>
    BY <1>6 DEF vars, server, pipe, client
  <2>2. TypeOK'
    BY <2>1 DEF StreamInv, TypeOK
  <2>3. FramesKnown' /\ VersionsAgree' /\ Comes'
    BY <2>1 DEF StreamInv, FramesKnown, VersionsAgree, Revision, Comes, Following, ComesTo, LastIs, Silent
  <2> QED
    BY <2>2, <2>3 DEF StreamInv
<1> QED
  BY <1>1, <1>2, <1>3, <1>4, <1>5, <1>6 DEF Next

\* Every state of the stream is well formed: whatever breaks, is dropped or begins anew, the
\* queue of a subscriber keeps its bound (put_drop_oldest) and nothing waits for a client that
\* is away.
THEOREM TypeTheorem == Spec => []TypeOK
<1>1. StreamInv => TypeOK
  BY DEF StreamInv
<1> QED
  BY <1>1, StreamInit, StreamStep, PTL DEF Spec

\* A client that is connected and of whose kind nothing was lost ends with the rows of the
\* server when it has read what waits: streamLoop needs no check of base_revision, neither
\* after a reconnection with "since" (sse_stream leaves the full frames out) nor when ticks,
\* requests and answers meet in any order.
THEOREM InSyncTheorem == Spec => []InSync
<1>1. StreamInv => InSync
  BY DEF StreamInv, Comes, Following, InSync
<1> QED
  BY <1>1, StreamInit, StreamStep, PTL DEF Spec

=============================================================================

------------------------------ MODULE SimStream ------------------------------
(***************************************************************************)
(* The stream of the warehouse simulator: snapshots, deltas and control    *)
(* requests of the runtime (backend/app/warehouse_sim/runtime.py and       *)
(* delta.py), the bounded queue of a subscriber (realtime/sse_common.py)   *)
(* and the client that merges them into its view                           *)
(* (frontend/src/components/deviceServer/simStore.ts).                     *)
(*                                                                         *)
(* There are two kinds of snapshot and one counter of versions.  A         *)
(* snapshot stands for one row, whose value is the stamp of its last       *)
(* change; a delta that mentions the row is an upsert or a removal, one    *)
(* that does not changes scalars only.  The tick builds snapshots under    *)
(* the lock and emits them later, after a database flush and a thread that *)
(* compares them; a control request publishes what it builds at once, as a *)
(* full frame.  What the client has not read yet is in "start" or "queue". *)
(***************************************************************************)
EXTENDS Integers, Sequences

CONSTANTS
    MaxQueue,      \* frames a subscriber's queue holds (32)
    MaxVersion,    \* bound: versions built between two restarts
    MaxAnswers,    \* bound: snapshots fetched by requests
    MaxRestarts    \* bound: restarts of the server

Kind == {"motion", "data"}

ASSUME BoundAssumption ==
    /\ MaxQueue \in Nat \ {0}
    /\ MaxVersion \in Nat
    /\ MaxAnswers \in Nat
    /\ MaxRestarts \in Nat

VARIABLES
    version,    \* WarehouseSimRuntime.version
    built,      \* _last_motion, _last_data
    pending,    \* frames of the tick not emitted yet: a set of at most one for each kind
    start,      \* frames sse_stream sends before it turns to the queue
    queue,      \* the subscriber's queue
    connected,
    view,       \* motionSnapshot, dataSnapshot: the value of the row
    since,      \* streamRevision
    answers,    \* data snapshots on their way to the client in answers to requests
    restarts, asked,
    \* history: kinds of which something was lost that no later delta repeats; whether
    \* "since" is a version of this run of the server
    lossy, own

server == <<version, built, pending, restarts>>
pipe   == <<start, queue, connected>>
client == <<view, since, answers, asked>>
vars   == <<server, pipe, client, lossy, own>>

-----------------------------------------------------------------------------
(* Snapshots and frames                                                    *)

Snapshot(value, v) == [value |-> value, version |-> v]

\* A value that no snapshot had before: v is the version it is built with.
Stamp(v) == restarts * (MaxVersion + 1) + v

\* build_motion, build_data with version v; the row changed or not.
Build(old, v, changed) == Snapshot(IF changed THEN Stamp(v) ELSE old.value, v)

\* has: the frame mentions the row.
Full(k, s) == [kind |-> k, full |-> TRUE, has |-> TRUE, value |-> s.value, version |-> s.version]

Delta(k, old, s) ==
    [kind |-> k, full |-> FALSE, has |-> old.value # s.value,
     value |-> s.value, version |-> s.version]

Ready(v) == [kind |-> "ready", full |-> FALSE, has |-> FALSE, value |-> 0, version |-> v]

\* _prepare_snapshot_envelopes: a delta, or a full frame when the delta would be nearly as
\* long (should_send_full).
Prepared(k, old, s) ==
    {Delta(k, old, s)} \cup (IF old.value # s.value THEN {Full(k, s)} ELSE {})

Mentions(f, k) == f.kind = k /\ f.has

\* Mutant: the queue has no bound.
PutUnbounded(q, f) == Append(q, f)

\* put_drop_oldest.
Put(q, f) == Append(IF Len(q) < MaxQueue THEN q ELSE Tail(q), f)

\* Kinds whose rows put_drop_oldest drops from q.
Dropped(q) == {k \in Kind : Len(q) >= MaxQueue /\ Mentions(q[1], k)}

Revision == IF built["data"].version > built["motion"].version
            THEN built["data"].version ELSE built["motion"].version

-----------------------------------------------------------------------------
(* The runtime                                                             *)

Init ==
    /\ version   = 0
    /\ built     = [k \in Kind |-> Snapshot(0, 0)]
    /\ pending   = [k \in Kind |-> {}]
    /\ start     = <<>> /\ queue = <<>> /\ connected = FALSE
    /\ view      = [k \in Kind |-> 0]
    /\ since     = 0
    /\ answers   = {} /\ asked = 0
    /\ restarts  = 0
    /\ lossy     = {} /\ own = TRUE

\* A turn of _run: the world is advanced and what is due is built, motion before data; the
\* frames made of it compare with the snapshots before.
Tick(motion, data) ==
    /\ \A k \in Kind : pending[k] = {}
    /\ \E changed \in [Kind -> BOOLEAN] :
          LET dataVersion == version + (IF motion THEN 2 ELSE 1)
          IN  built' = [k \in Kind |->
                 IF k = "motion"
                 THEN IF motion THEN Build(built[k], version + 1, changed[k]) ELSE built[k]
                 ELSE IF data THEN Build(built[k], dataVersion, changed[k]) ELSE built[k]]
    /\ version' = version + (IF motion /\ data THEN 2 ELSE 1)
    /\ version' <= MaxVersion
    /\ \E m \in Prepared("motion", built["motion"], built'["motion"]),
          d \in Prepared("data", built["data"], built'["data"]) :
          pending' = [k \in Kind |-> IF k = "motion" THEN IF motion THEN {m} ELSE {}
                                     ELSE IF data THEN {d} ELSE {}]
    /\ UNCHANGED <<restarts, pipe, client, lossy, own>>

\* Kinds of which the tick has still to emit a row that differs from what is now built.
Overtaken(now) == {k \in Kind : \E f \in pending[k] : f.has /\ f.value # now[k].value}

\* The tick emits what it prepared, motion before data.  Nobody hears a frame emitted while
\* the client is away, and the client may have been sent a later version before.
Emit(k) ==
    \E f \in pending[k] :
        /\ k = "data" => pending["motion"] = {}
        /\ pending' = [pending EXCEPT ![k] = {}]
        /\ queue' = IF connected THEN Put(queue, f) ELSE queue
        /\ lossy' = IF connected
                    THEN (lossy \cup Dropped(queue))
                         \ {j \in {k} : f.full /\ f.value = built[j].value}
                    ELSE lossy \cup {j \in {k} : f.has /\ f.version <= since}
        /\ UNCHANGED <<version, built, restarts, start, connected, client, own>>

\* _refresh: both snapshots are built anew, with one version.
Refresh ==
    /\ version < MaxVersion
    /\ version' = version + 1
    /\ \E changed \in [Kind -> BOOLEAN] :
          built' = [k \in Kind |-> Build(built[k], version + 1, changed[k])]
    /\ UNCHANGED <<pending, restarts, client, own>>

\* Kinds whose row a _refresh changed.
Changed == {k \in Kind : built'[k].value # built[k].value}

\* control_camera and all but the last part of a fast forward: what is built is published
\* to nobody, and the next delta starts from it.
RefreshSilently ==
    /\ Refresh
    /\ lossy' = IF connected THEN lossy \cup Changed \cup Overtaken(built') ELSE lossy
    /\ UNCHANGED pipe

\* start, pause, stop, reset, the demo, speed, config, commands, the end of a fast forward:
\* both snapshots are built, the data are published.
Control ==
    /\ Refresh
    /\ queue' = IF connected THEN Put(queue, Full("data", built'["data"])) ELSE queue
    /\ lossy' = IF connected
                THEN ((lossy \cup Changed \cup Dropped(queue)) \ {"data"}) \cup Overtaken(built')
                ELSE lossy
    /\ UNCHANGED <<start, connected>>

\* rebind_smart_cameras, sync_personnel_links: data and then motion are published.
Rebind ==
    /\ Refresh
    /\ LET q == Put(queue, Full("data", built'["data"]))
       IN  /\ queue' = IF connected THEN Put(q, Full("motion", built'["motion"])) ELSE queue
           /\ lossy' = IF connected THEN (Dropped(q) \ {"motion"}) \cup Overtaken(built') ELSE lossy
    /\ UNCHANGED <<start, connected>>

\* The process ends and begins again with another world, and counts versions from 0.
Restart ==
    /\ restarts < MaxRestarts
    /\ restarts' = restarts + 1
    /\ version' = 0
    /\ built' = [k \in Kind |-> Snapshot(restarts' * (MaxVersion + 1), 0)]
    /\ pending' = [k \in Kind |-> {}]
    /\ start' = <<>> /\ queue' = <<>> /\ connected' = FALSE
    /\ answers' = {}
    /\ own' = FALSE
    /\ UNCHANGED <<view, since, asked, lossy>>

-----------------------------------------------------------------------------
(* The stream as the client sees it                                        *)

\* Mutant: the client that has a revision at all is sent no full frames.
UpToDateOnce == since > 0

\* sse_stream: the full frames are left out for a client that names the revision.
UpToDate == since > 0 /\ since >= Revision

\* streamLoop opens the stream; the queue is subscribed before anything else.
Connect ==
    /\ ~connected
    /\ connected' = TRUE
    /\ queue' = <<>>
    /\ start' = <<Ready(Revision)>> \o
                (IF UpToDate THEN <<>>
                 ELSE <<Full("data", built["data"]), Full("motion", built["motion"])>>)
    /\ lossy' = IF ~UpToDate THEN Overtaken(built) ELSE IF own THEN lossy ELSE Kind
    /\ UNCHANGED <<server, client, own>>

\* What the client has been sent and has not read.
Unread == start \o queue

\* The stream breaks.  The revision may already be past a frame that is lost: "ready" comes
\* before the full frames, and frames built by one _refresh have one version.
Break ==
    /\ connected
    /\ connected' = FALSE
    /\ start' = <<>> /\ queue' = <<>>
    /\ lossy' = lossy \cup {k \in Kind : \E i \in 1 .. Len(Unread) :
                               Mentions(Unread[i], k) /\ Unread[i].version <= since}
    /\ UNCHANGED <<server, client, own>>

\* Mutant: a frame whose revision the client has is taken for a repetition.
MergedOnce(f, old) ==
    IF f.has /\ f.version > since THEN f.value ELSE old

\* applyData, applyMotion, applyDataDelta, applyMotionDelta with mergeById.
Merged(f, old) == IF f.has THEN f.value ELSE old

\* A turn of the inner loop of streamLoop.
Apply(f) ==
    /\ since' = IF f.version > since THEN f.version ELSE since
    /\ own' = (own \/ f.version >= since)
    /\ view' = [k \in Kind |-> IF k = f.kind THEN Merged(f, view[k]) ELSE view[k]]
    /\ UNCHANGED <<server, connected, answers, asked, lossy>>

Read ==
    \/ start # <<>> /\ Apply(Head(start)) /\ start' = Tail(start) /\ queue' = queue
    \/ start = <<>> /\ queue # <<>>
       /\ Apply(Head(queue)) /\ queue' = Tail(queue) /\ start' = start

\* A request of the client is answered with the data built last (data()).
Ask ==
    /\ asked < MaxAnswers
    /\ asked' = asked + 1
    /\ answers' = answers \cup {built["data"].value}
    /\ UNCHANGED <<server, pipe, view, since, lossy, own>>

\* The answer arrives, in any order with the stream and with other answers, and replaces the
\* data whatever their version is (applyData).
Answer(a) ==
    /\ a \in answers
    /\ answers' = answers \ {a}
    /\ view' = [view EXCEPT !["data"] = a]
    /\ lossy' = IF a # built["data"].value THEN lossy \cup {"data"} ELSE lossy
    /\ UNCHANGED <<server, pipe, since, asked, own>>

Next ==
    \/ \E motion, data \in BOOLEAN : (motion \/ data) /\ Tick(motion, data)
    \/ \E k \in Kind : Emit(k)
    \/ RefreshSilently \/ Control \/ Rebind \/ Restart
    \/ Connect \/ Break \/ Read \/ Ask
    \/ \E a \in answers : Answer(a)

\* The tick goes on, and the client that is connected reads.
Fairness == WF_vars(\E k \in Kind : Emit(k)) /\ WF_vars(Read)

Spec     == Init /\ [][Next]_vars
FairSpec == Spec /\ Fairness

-----------------------------------------------------------------------------
(* Properties                                                              *)

Values == 0 .. (MaxRestarts + 1) * (MaxVersion + 1)

Snapshots == [value : Values, version : 0 .. MaxVersion]

Frames == [kind : Kind \cup {"ready"}, full : BOOLEAN, has : BOOLEAN,
           value : Values, version : 0 .. MaxVersion]

\* The state is well formed; the queue keeps its bound (put_drop_oldest), and frames that
\* wait belong to a client that is connected.
TypeOK ==
    /\ version \in 0 .. MaxVersion /\ since \in 0 .. MaxVersion
    /\ built \in [Kind -> Snapshots] /\ view \in [Kind -> Values]
    /\ pending \in [Kind -> SUBSET Frames]
    /\ start \in Seq(Frames) /\ queue \in Seq(Frames)
    /\ Len(queue) <= MaxQueue
    /\ connected \in BOOLEAN
    /\ ~connected => start = <<>> /\ queue = <<>>
    /\ answers \subseteq Values /\ asked \in 0 .. MaxAnswers
    /\ restarts \in 0 .. MaxRestarts
    /\ lossy \subseteq Kind /\ own \in BOOLEAN

\* The last frame of s that mentions k carries v.
LastIs(s, k, v) ==
    \E i \in 1 .. Len(s) :
        /\ Mentions(s[i], k) /\ s[i].value = v
        /\ \A j \in i + 1 .. Len(s) : ~Mentions(s[j], k)

Silent(s, k) == \A i \in 1 .. Len(s) : ~Mentions(s[i], k)

\* The row of k will have the value v once the client has got all that was built.
ComesTo(k, v) ==
    \/ \E f \in pending[k] : f.has /\ f.value = v
    \/ /\ \A f \in pending[k] : ~f.has
       /\ \/ LastIs(queue, k, v)
          \/ Silent(queue, k) /\ LastIs(start, k, v)
          \/ Silent(queue, k) /\ Silent(start, k) /\ view[k] = v

\* A client that is connected and of whose kind nothing was lost will end with the rows of
\* the server: deltas, full frames, reconnection with "since" and answers that are not late
\* fit together without a check of base_revision (mergeById, streamLoop, sse_stream).
InSync == \A k \in Kind : connected /\ k \notin lossy => ComesTo(k, built[k].value)

\* And it does end with them, when it stays connected and nothing is lost.
CatchesUp ==
    \A k \in Kind :
        <>[](connected /\ k \notin lossy) => <>[](view[k] = built[k].value)

=============================================================================

--------------------------- MODULE ReceivingProofs ---------------------------
(***************************************************************************)
(* What holds of Receiving for every number of orders, lines, cells and    *)
(* requests: its types, that a line gets one put-away task at most, and    *)
(* that what is shown as received, or entered the stock, has it.  The      *)
(* reason is the order of two steps: a request that plans has flushed the order before, so it holds   *)
(* its row while it looks at the tasks and until they are committed.       *)
(***************************************************************************)
EXTENDS Receiving, TLAPS

TaskType == {"pending"} \cup TaskStatus

\* What a request at work with a receipt has found out: a line, a cell, an item.
Receiving1(s) ==
    /\ s.step = "loaded" => s.call = "receive"
    /\ s.call = "receive" => s.line \in Line /\ s.status = "receiving"
    /\ s.step \in {"topUp", "update", "insert"} => s.call = "receive" /\ s.slot \in Slot
    /\ s.step = "topUp" => cell[s.slot] \in Item
    /\ s.step = "update" => s.writes \in Item
    /\ s.step \in {"changed", "flushed", "ready"} /\ s.call = "receive" /\ s.received > 0
          => s.slot \in Slot /\ s.writes \in Item
    /\ s.step \in {"flushed", "ready"} /\ s.call = "receive"
          => s.lines[s.line].done /\ s.lines[s.line].received = s.received

\* Who plans or has planned holds the order, and plans for lines without a task.
Planning1(r, s) ==
    /\ s.step = "flushed" \/ s.planned # {} => lock[s.order] = r
    /\ s.planned # {} => s.step = "ready"
    /\ \A l \in s.planned : putaway[s.order][l] = <<>>

\* What a request would write as received has a task, or gets one.
Covered1(s) ==
    \A l \in Line :
        s.lines[l].done /\ s.lines[l].received > 0 =>
            \/ putaway[s.order][l] # <<>>
            \/ l \in s.planned
            \/ s.step = "flushed" /\ s.call = "receive" /\ l = s.line

\* Who has written an item holds its cell; a new item finds it empty.
Cell1(r, s) ==
    /\ s.step \in {"changed", "flushed", "ready"} /\ s.call = "receive" /\ s.received > 0
          => lock[s.slot] = r
    /\ s.inserts => /\ s.step \in {"changed", "flushed", "ready"}
                    /\ s.slot \in Slot /\ lock[s.slot] = r /\ cell[s.slot] = Empty

Good(r, s) == Receiving1(s) /\ Planning1(r, s) /\ Covered1(s) /\ Cell1(r, s)

IInv ==
    /\ TypeOK
    /\ OnePutaway
    /\ GoodsHaveTask
    /\ \A r \in Request : session[r] # Idle => Good(r, session[r])

-----------------------------------------------------------------------------
(* Steps of one request                                                    *)

LEMMA NotIdle == \A s \in Session : s # Idle /\ s.step # "idle"
BY DEF Session, Idle

\* A request is idle or in a session.
LEMMA AtSession ==
    ASSUME TypeOK, NEW r \in Request, session[r].step # "idle"
    PROVE  session[r] \in Session /\ session[r] # Idle
BY NotIdle DEF TypeOK, Idle

\* A step of one request that commits nothing keeps the invariant if its new
\* session is in order and it takes no lock away from others.
LEMMA OwnStep ==
    ASSUME IInv, NEW r \in Request, NEW s \in {Idle} \cup Session,
           session' = [session EXCEPT ![r] = s],
           UNCHANGED <<order, putaway, cell, entered>>,
           lock' \in [Order \cup Slot -> Request \cup {Nobody}],
           \A x \in Order \cup Slot : \A q \in Request \ {r} : lock[x] = q => lock'[x] = q,
           s # Idle => Good(r, s)'
    PROVE  IInv'
  <1>1. TypeOK'
    BY DEF IInv, TypeOK
  <1>2. OnePutaway' /\ GoodsHaveTask'
    BY DEF IInv, OnePutaway, GoodsHaveTask
  <1>3. ASSUME NEW q \in Request, session'[q] # Idle
        PROVE  Good(q, session[q])'
    <2>1. CASE q = r
      <3>1. session'[q] = s /\ s # Idle
        BY <1>3, <2>1 DEF IInv, TypeOK
      <3>2. Good(r, s)'
        BY <3>1
      <3>. QED BY <2>1, <3>1, <3>2 DEF Good, Receiving1, Planning1, Covered1, Cell1
    <2>2. CASE q # r
      <3>1. session'[q] = session[q] /\ session[q] \in Session
        BY <1>3, <2>2 DEF IInv, TypeOK
      <3>2. Good(q, session[q])
        BY <1>3, <3>1 DEF IInv
      <3>3. session[q].order \in Order
        BY <3>1 DEF Session
      <3>4. lock[session[q].order] = q => lock'[session[q].order] = q
        BY <2>2, <3>3
      <3>5. Cell1(q, session[q])'
        BY <2>2, <3>1, <3>2 DEF Good, Receiving1, Cell1
      <3>. QED BY <3>1, <3>2, <3>4, <3>5 DEF Good, Receiving1, Planning1, Covered1
    <2>. QED BY <2>1, <2>2
  <1>. QED BY <1>1, <1>2, <1>3 DEF IInv

\* Takes gives a free lock to r and no other away.
LEMMA TakesLock ==
    ASSUME TypeOK, NamesAssumption, NEW r \in Request, NEW x \in Order \cup Slot, Takes(r, x)
    PROVE  /\ lock' \in [Order \cup Slot -> Request \cup {Nobody}]
           /\ \A y \in Order \cup Slot : \A q \in Request \ {r} : lock[y] = q => lock'[y] = q
           /\ lock'[x] = r
           /\ \A y \in Order \cup Slot : lock[y] = r => lock'[y] = r
BY DEF TypeOK, Takes, NamesAssumption

\* Where no lock is touched.
LEMMA KeepsLock ==
    ASSUME TypeOK, NEW r \in Request, UNCHANGED lock
    PROVE  /\ lock' \in [Order \cup Slot -> Request \cup {Nobody}]
           /\ \A y \in Order \cup Slot : \A q \in Request \ {r} : lock[y] = q => lock'[y] = q
BY DEF TypeOK

\* The locks of an ended request are free, the others stay.
LEMMA EndsLock ==
    ASSUME TypeOK, NamesAssumption, NEW r \in Request, Ends(r)
    PROVE  /\ lock' \in [Order \cup Slot -> Request \cup {Nobody}]
           /\ \A y \in Order \cup Slot : \A q \in Request \ {r} : lock[y] = q => lock'[y] = q
           /\ session' = [session EXCEPT ![r] = Idle]
BY DEF TypeOK, Ends, NamesAssumption

\* A rollback leaves nothing behind.
LEMMA RollbackStep == ASSUME IInv, NEW r \in Request, Rollback(r) PROVE IInv'
  <1>1. TypeOK
    BY DEF IInv
  <1>2. Ends(r) /\ UNCHANGED <<order, putaway, cell, entered>>
    BY DEF Rollback
  <1>. QED BY <1>1, <1>2, EndsLock, OwnStep, NamesAssumption

-----------------------------------------------------------------------------
(* The start of a request                                                  *)

\* A freshly loaded order is in order: what it shows as received has its task.
LEMMA LoadedIsGood ==
    ASSUME IInv, NEW o \in Order, Exists(o),
           NEW call \in {"receive", "patch", "close", "task"}
    PROVE  /\ Loaded(o, call) \in Session
           /\ Loaded(o, call).order = o /\ Loaded(o, call).planned = {}
           /\ Loaded(o, call).call = call /\ ~Loaded(o, call).inserts
           /\ Covered1(Loaded(o, call))
  <1>1. order[o] \in [status : Status \cup {NoOrder, Gone}, lines : [Line -> LineRow]]
    BY DEF IInv, TypeOK
  <1>2. order[o].status \in Status /\ order[o].lines \in [Line -> LineRow]
    BY <1>1 DEF Exists
  <1>3. Loaded(o, call) \in Session
    BY <1>2 DEF Loaded, Session, Empty
  <1>4. Covered1(Loaded(o, call))
    BY <1>2 DEF Loaded, Covered1, IInv, OnePutaway
  <1>. QED BY <1>3, <1>4 DEF Loaded

\* A new session that has planned nothing and covers what it would write.
LEMMA StartStep ==
    ASSUME IInv, NEW r \in Request, NEW s \in Session,
           session' = [session EXCEPT ![r] = s],
           UNCHANGED <<order, putaway, cell, lock, entered>>,
           Receiving1(s), s.planned = {}, s.step # "flushed", Covered1(s),
           ~s.inserts, s.step = "loaded" \/ s.call # "receive"
    PROVE  IInv'
  <1>1. TypeOK
    BY DEF IInv
  <1>2. Good(r, s)'
    BY DEF Good, Receiving1, Planning1, Covered1, Cell1
  <1>. QED BY <1>1, <1>2, KeepsLock, OwnStep

\* WithStatus changes the status and its mark, nothing else.
LEMMA StatusWritten ==
    ASSUME NEW s \in Session, NEW status \in Status
    PROVE  LET t == WithStatus(s, status)
           IN  /\ t \in Session /\ t.status = status
               /\ t.call = s.call /\ t.order = s.order /\ t.lines = s.lines
               /\ t.planned = s.planned /\ t.line = s.line /\ t.inserts = s.inserts
  <1>1. (s.setsStatus \/ status # s.status) \in BOOLEAN
    OBVIOUS
  <1>2. PICK b \in BOOLEAN : b = (s.setsStatus \/ status # s.status)
    BY <1>1
  <1>3. WithStatus(s, status) = [s EXCEPT !.status = status, !.setsStatus = b]
    BY <1>2 DEF WithStatus
  <1>. QED BY <1>3 DEF Session

\* A handler goes on to its next statement.
LEMMA StepWritten ==
    ASSUME NEW s \in Session, NEW step \in {"loaded", "changed"}
    PROVE  LET t == [s EXCEPT !.step = step]
           IN  /\ t \in Session /\ t.step = step
               /\ t.call = s.call /\ t.order = s.order /\ t.lines = s.lines /\ t.status = s.status
               /\ t.planned = s.planned /\ t.line = s.line /\ t.inserts = s.inserts
  BY DEF Session

LEMMA StartReceiveStep ==
    ASSUME IInv, SetupAssumption, NEW r \in Request, NEW o \in Order, NEW l \in Line,
           NEW n \in Quantity, StartReceive(r, o, l, n)
    PROVE  IInv'
  <1>1. PICK s \in Session : s = Loaded(o, "receive") /\ Covered1(s)
    BY LoadedIsGood DEF StartReceive
  <1>2. PICK t : t = [[WithStatus(s, "receiving") EXCEPT !.line = l, !.received = n]
                        EXCEPT !.step = "loaded"]
    OBVIOUS
  <1>3. t \in Session /\ t.planned = {} /\ ~t.inserts /\ t.step = "loaded" /\ t.call = "receive"
        /\ t.lines = s.lines /\ t.order = s.order /\ t.line = l /\ t.status = "receiving"
    <2>1. "receiving" \in Status /\ n \in Nat
      BY SetupAssumption DEF Status, OpenStatus
    <2>2. s.planned = {} /\ ~s.inserts /\ s.call = "receive"
      BY <1>1 DEF Loaded
    <2>3. PICK u \in Session : u = WithStatus(s, "receiving") /\ u.status = "receiving"
                /\ u.call = s.call /\ u.order = s.order /\ u.lines = s.lines
                /\ u.planned = s.planned /\ u.inserts = s.inserts
      BY <2>1, StatusWritten
    <2>4. PICK v : v = [u EXCEPT !.line = l, !.received = n]
      OBVIOUS
    <2>5. /\ v \in Session /\ v.line = l
          /\ v.call = u.call /\ v.order = u.order /\ v.lines = u.lines /\ v.status = u.status
          /\ v.planned = u.planned /\ v.inserts = u.inserts
      BY <2>1, <2>4 DEF Session
    <2>6. t = [v EXCEPT !.step = "loaded"]
      BY <1>2, <2>3, <2>4
    <2>7. /\ t \in Session /\ t.step = "loaded" /\ t.line = v.line
          /\ t.call = v.call /\ t.order = v.order /\ t.lines = v.lines /\ t.status = v.status
          /\ t.planned = v.planned /\ t.inserts = v.inserts
      BY <2>5, <2>6, StepWritten
    <2>. QED BY <2>2, <2>3, <2>5, <2>7
  <1>4. Receiving1(t)
    BY <1>3 DEF Receiving1
  <1>5. s.planned = {} /\ s.step = "loaded"
    BY <1>1 DEF Loaded
  <1>6. Covered1(t)
    BY <1>1, <1>3, <1>5 DEF Covered1
  <1>7. session' = [session EXCEPT ![r] = t] /\ UNCHANGED <<order, putaway, cell, lock, entered>>
    BY <1>1, <1>2 DEF StartReceive, To
  <1>. QED BY <1>3, <1>4, <1>6, <1>7, StartStep

LEMMA StartPatchStatusStep ==
    ASSUME IInv, SetupAssumption, NEW r \in Request, NEW o \in Order,
           NEW status \in PatchedStatus, StartPatchStatus(r, o, status)
    PROVE  IInv'
  <1>1. PICK s \in Session : s = Loaded(o, "patch") /\ Covered1(s)
    BY LoadedIsGood DEF StartPatchStatus
  <1>2. PICK t : t = [WithStatus(s, status) EXCEPT !.step = "changed"]
    OBVIOUS
  <1>3. t \in Session /\ t.planned = {} /\ ~t.inserts /\ t.step = "changed" /\ t.call = "patch"
        /\ t.lines = s.lines /\ t.order = s.order
    <2>1. status \in Status
      BY SetupAssumption
    <2>2. s.planned = {} /\ ~s.inserts /\ s.call = "patch"
      BY <1>1 DEF Loaded
    <2>. QED BY <1>2, <2>1, <2>2, StatusWritten DEF Session
  <1>4. Receiving1(t)
    BY <1>3 DEF Receiving1
  <1>5. s.planned = {} /\ s.step = "loaded"
    BY <1>1 DEF Loaded
  <1>6. Covered1(t)
    BY <1>1, <1>3, <1>5 DEF Covered1
  <1>7. session' = [session EXCEPT ![r] = t] /\ UNCHANGED <<order, putaway, cell, lock, entered>>
    BY <1>1, <1>2 DEF StartPatchStatus, To
  <1>. QED BY <1>3, <1>4, <1>6, <1>7, StartStep

LEMMA StartPatchLinesStep ==
    ASSUME IInv, PatchAssumption, NEW r \in Request, NEW o \in Order,
           NEW row \in PatchedLine, StartPatchLines(r, o, row)
    PROVE  IInv'
  <1>1. PICK s \in Session : s = Loaded(o, "patch")
    BY LoadedIsGood DEF StartPatchLines
  <1>2. PICK t : t = [[s EXCEPT !.lines = [l \in Line |-> row], !.setsLines = TRUE]
                        EXCEPT !.step = "changed"]
    OBVIOUS
  <1>3. row \in LineRow /\ ~row.done
    BY PatchAssumption
  <1>4. t \in Session /\ t.planned = {} /\ ~t.inserts /\ t.step = "changed" /\ t.call = "patch"
        /\ t.lines = [l \in Line |-> row]
    BY <1>1, <1>2, <1>3 DEF Session, Loaded
  <1>5. Receiving1(t)
    BY <1>4 DEF Receiving1
  <1>6. Covered1(t)
    BY <1>3, <1>4 DEF Covered1
  <1>7. session' = [session EXCEPT ![r] = t] /\ UNCHANGED <<order, putaway, cell, lock, entered>>
    BY <1>1, <1>2 DEF StartPatchLines, To
  <1>. QED BY <1>4, <1>5, <1>6, <1>7, StartStep

LEMMA StartCloseStep ==
    ASSUME IInv, NEW r \in Request, NEW o \in Order, StartClose(r, o)
    PROVE  IInv'
  <1>1. PICK s \in Session : s = Loaded(o, "close") /\ Covered1(s)
    BY LoadedIsGood DEF StartClose
  <1>2. PICK t : t = [WithStatus(s, "received") EXCEPT !.step = "changed"]
    OBVIOUS
  <1>3. t \in Session /\ t.planned = {} /\ ~t.inserts /\ t.step = "changed" /\ t.call = "close"
        /\ t.lines = s.lines /\ t.order = s.order
    <2>1. "received" \in Status /\ s.planned = {} /\ ~s.inserts /\ s.call = "close"
      BY <1>1 DEF Status, Loaded
    <2>2. PICK u \in Session : u = WithStatus(s, "received")
                /\ u.call = s.call /\ u.order = s.order /\ u.lines = s.lines
                /\ u.planned = s.planned /\ u.inserts = s.inserts
      BY <2>1, StatusWritten
    <2>3. t = [u EXCEPT !.step = "changed"]
      BY <1>2, <2>2
    <2>. QED BY <2>1, <2>2, <2>3, StepWritten
  <1>4. Receiving1(t)
    BY <1>3 DEF Receiving1
  <1>5. s.planned = {} /\ s.step = "loaded"
    BY <1>1 DEF Loaded
  <1>6. Covered1(t)
    BY <1>1, <1>3, <1>5 DEF Covered1
  <1>7. session' = [session EXCEPT ![r] = t] /\ UNCHANGED <<order, putaway, cell, lock, entered>>
    BY <1>1, <1>2 DEF StartClose, To
  <1>. QED BY <1>3, <1>4, <1>6, <1>7, StartStep

LEMMA StartPatchTaskStep ==
    ASSUME IInv, SetupAssumption, NEW r \in Request, NEW o \in Order, NEW l \in Line,
           NEW k \in 1 .. 2, NEW status \in TaskStatus, StartPatchTask(r, o, l, k, status)
    PROVE  IInv'
  <1>1. PICK s \in Session : s = Loaded(o, "task") /\ Covered1(s)
    BY LoadedIsGood DEF StartPatchTask
  <1>2. PICK u : u = [s EXCEPT !.line = l, !.task = k, !.taskStatus = status]
    OBVIOUS
  <1>3. s.planned = {} /\ ~s.inserts /\ s.call = "task" /\ s.step = "loaded"
    BY <1>1 DEF Loaded
  <1>4. u \in Session /\ u.planned = {} /\ ~u.inserts /\ u.call = "task" /\ u.lines = s.lines /\ u.order = s.order
    <2>1. k \in Nat /\ l \in Line \cup {None} /\ status \in {"pending"} \cup TaskStatus
      OBVIOUS
    <2>. QED BY <1>2, <1>3, <2>1 DEF Session
  <1>5. PICK v \in Session : v = Closed(u) /\ v.planned = {} /\ ~v.inserts /\ v.call = "task"
                             /\ v.lines = s.lines /\ v.order = s.order
    BY <1>4, StatusWritten DEF Closed, Status, EndStatus
  <1>6. PICK t : t \in {[v EXCEPT !.step = "changed"], [u EXCEPT !.step = "ready"]}
                 /\ session' = [session EXCEPT ![r] = t]
    <2>1. To(r, Closed(u), "changed") \/ To(r, u, "ready")
      BY <1>1, <1>2 DEF StartPatchTask
    <2>. QED BY <1>5, <2>1 DEF To
  <1>7. t \in Session /\ t.planned = {} /\ ~t.inserts /\ t.step \in {"changed", "ready"} /\ t.call = "task"
        /\ t.lines = s.lines /\ t.order = s.order
    BY <1>4, <1>5, <1>6 DEF Session
  <1>8. Receiving1(t)
    BY <1>7 DEF Receiving1
  <1>9. Covered1(t)
    BY <1>1, <1>3, <1>7 DEF Covered1
  <1>10. UNCHANGED <<order, putaway, cell, lock, entered>>
    BY DEF StartPatchTask
  <1>. QED BY <1>6, <1>7, <1>8, <1>9, <1>10, StartStep

-----------------------------------------------------------------------------
(* The steps up to the flush                                               *)

\* A request that goes on without having flushed its order or planned.
LEMMA AdvanceStep ==
    ASSUME IInv, NEW r \in Request, NEW s \in Session, NEW t \in Session,
           s = session[r], s.step \notin {"flushed", "ready"},
           session' = [session EXCEPT ![r] = t],
           UNCHANGED <<order, putaway, cell, entered>>,
           lock' \in [Order \cup Slot -> Request \cup {Nobody}],
           \A x \in Order \cup Slot : \A q \in Request \ {r} : lock[x] = q => lock'[x] = q,
           t.order = s.order, t.lines = s.lines, t.planned = s.planned,
           t.step # "flushed", Receiving1(t), Cell1(r, t)'
    PROVE  IInv'
  <1>1. Good(r, s)
    BY NotIdle DEF IInv
  <1>2. t.planned = {}
    BY <1>1 DEF Good, Planning1
  <1>3. Good(r, t)'
    BY <1>1, <1>2 DEF Good, Receiving1, Planning1, Covered1
  <1>. QED BY <1>3, OwnStep

\* A suggestion to top up names a cell with an item.
LEMMA SuggestedCell ==
    ASSUME TypeOK, NEW o, NEW item \in Sku, NEW n \in Nat, NEW c \in Suggestions(o, item, n)
    PROVE  /\ c[1] \in Slot /\ c[2] \in {"insert", "topUp"}
           /\ c[2] = "topUp" => cell[c[1]] \in Item
  <1>1. \A x \in Slot : cell[x] \in Item \cup {Empty}
    BY DEF TypeOK
  <1>2. \A x \in Slot : cell[x].quantity # 0 => cell[x] \in Item
    BY <1>1 DEF Empty
  <1>. QED BY <1>2 DEF Suggestions

LEMMA SuggestStep ==
    ASSUME IInv, NamesAssumption, SetupAssumption, NEW r \in Request, Suggest(r)
    PROVE  IInv'
  <1>1. TypeOK
    BY DEF IInv
  <1>2. PICK s \in Session : s = session[r] /\ s.step = "loaded" /\ s.call = "receive"
                             /\ Good(r, s)
    BY <1>1, AtSession DEF Suggest, At, IInv
  <1>3. s.line \in Line /\ s.status = "receiving" /\ s.order \in Order /\ s.received \in Nat
    BY <1>2 DEF Good, Receiving1, Session
  <1>4. SkuOf[s.line] \in Sku
    BY <1>3, SetupAssumption
  <1>5. /\ lock' \in [Order \cup Slot -> Request \cup {Nobody}]
        /\ \A x \in Order \cup Slot : \A q \in Request \ {r} : lock[x] = q => lock'[x] = q
    BY <1>1, <1>2, <1>3, KeepsLock, TakesLock, NamesAssumption DEF Suggest
  <1>6. UNCHANGED <<order, putaway, cell, entered>>
    BY DEF Suggest
  <1>7. CASE s.received = 0 /\ session' = [session EXCEPT ![r] = [s EXCEPT !.step = "changed"]]
    <2>1. PICK t \in Session : t = [s EXCEPT !.step = "changed"]
      BY DEF Session
    <2>2. t.order = s.order /\ t.lines = s.lines /\ t.planned = s.planned
          /\ t.step = "changed" /\ t.received = 0 /\ t.line = s.line /\ t.status = s.status
          /\ t.inserts = s.inserts
      BY <1>7, <2>1 DEF Session
    <2>3. Receiving1(t)
      BY <1>3, <2>2 DEF Receiving1
    <2>4. session' = [session EXCEPT ![r] = t] /\ t.step # "flushed"
      BY <1>7, <2>1, <2>2
    <2>5. Cell1(r, t)'
      BY <1>2, <2>2 DEF Good, Cell1
    <2>. QED BY <1>2, <1>5, <1>6, <2>2, <2>3, <2>4, <2>5, AdvanceStep
  <1>8. CASE \E c \in Suggestions(s.order, SkuOf[s.line], s.received) :
                session' = [session EXCEPT ![r] = [[s EXCEPT !.slot = c[1]] EXCEPT !.step = c[2]]]
    <2>1. PICK c \in Suggestions(s.order, SkuOf[s.line], s.received) :
                session' = [session EXCEPT ![r] = [[s EXCEPT !.slot = c[1]] EXCEPT !.step = c[2]]]
      BY <1>8
    <2>2. /\ c[1] \in Slot /\ c[2] \in {"insert", "topUp"}
          /\ c[2] = "topUp" => cell[c[1]] \in Item
      BY <1>1, <1>3, <1>4, SuggestedCell
    <2>3. PICK t : t = [[s EXCEPT !.slot = c[1]] EXCEPT !.step = c[2]]
      OBVIOUS
    <2>4. t \in Session /\ t.order = s.order /\ t.lines = s.lines /\ t.planned = s.planned
          /\ t.step = c[2] /\ t.line = s.line /\ t.status = s.status /\ t.call = s.call
          /\ t.slot = c[1] /\ t.inserts = s.inserts
      BY <2>2, <2>3 DEF Session
    <2>5. Receiving1(t)
      BY <1>2, <1>3, <2>2, <2>4 DEF Receiving1
    <2>6. session' = [session EXCEPT ![r] = t] /\ t.step # "flushed"
      BY <2>1, <2>2, <2>3, <2>4
    <2>7. Cell1(r, t)'
      BY <1>2, <2>2, <2>4 DEF Good, Cell1
    <2>. QED BY <1>2, <1>5, <1>6, <2>4, <2>5, <2>6, <2>7, AdvanceStep
  <1>. QED BY <1>2, <1>7, <1>8 DEF Suggest, To

LEMMA ReadItemStep == ASSUME IInv, NEW r \in Request, ReadItem(r) PROVE IInv'
  <1>1. TypeOK
    BY DEF IInv
  <1>2. PICK s \in Session : s = session[r] /\ s.step = "topUp" /\ Good(r, s)
    BY <1>1, AtSession DEF ReadItem, At, IInv
  <1>3. s.line \in Line /\ s.status = "receiving" /\ s.call = "receive" /\ s.slot \in Slot
        /\ cell[s.slot] \in Item /\ s.received \in Nat
    BY <1>2 DEF Good, Receiving1, Session
  <1>4. PICK c : c = [cell[s.slot] EXCEPT !.quantity = cell[s.slot].quantity + s.received]
    OBVIOUS
  <1>5. c \in Item
    BY <1>3, <1>4 DEF Item
  <1>6. PICK t : t = [[s EXCEPT !.writes = c] EXCEPT !.step = "update"]
    OBVIOUS
  <1>7. t \in Session /\ t.order = s.order /\ t.lines = s.lines /\ t.planned = s.planned
        /\ t.step = "update" /\ t.line = s.line /\ t.status = s.status /\ t.call = s.call
        /\ t.slot = s.slot /\ t.writes = c /\ t.inserts = s.inserts
    BY <1>5, <1>6 DEF Session
  <1>8. Receiving1(t)
    BY <1>3, <1>5, <1>7 DEF Receiving1
  <1>9. session' = [session EXCEPT ![r] = t] /\ UNCHANGED <<order, putaway, cell, lock, entered>>
    BY <1>2, <1>4, <1>6 DEF ReadItem, To
  <1>10. Cell1(r, t)'
    BY <1>2, <1>7 DEF Good, Cell1
  <1>. QED BY <1>1, <1>2, <1>7, <1>8, <1>9, <1>10, KeepsLock, AdvanceStep

LEMMA UpdateItemStep ==
    ASSUME IInv, NamesAssumption, NEW r \in Request, UpdateItem(r) PROVE IInv'
  <1>1. TypeOK
    BY DEF IInv
  <1>2. PICK s \in Session : s = session[r] /\ s.step = "update" /\ Good(r, s)
    BY <1>1, AtSession DEF UpdateItem, At, IInv
  <1>3. s.line \in Line /\ s.status = "receiving" /\ s.call = "receive" /\ s.slot \in Slot
        /\ s.writes \in Item
    BY <1>2 DEF Good, Receiving1
  <1>4. PICK t : t = [s EXCEPT !.step = "changed"]
    OBVIOUS
  <1>5. t \in Session /\ t.order = s.order /\ t.lines = s.lines /\ t.planned = s.planned
        /\ t.step = "changed" /\ t.line = s.line /\ t.status = s.status /\ t.call = s.call
        /\ t.slot = s.slot /\ t.writes = s.writes /\ t.inserts = s.inserts
    BY <1>4 DEF Session
  <1>6. Receiving1(t)
    BY <1>3, <1>5 DEF Receiving1
  <1>7. session' = [session EXCEPT ![r] = t] /\ UNCHANGED <<order, putaway, cell, entered>>
        /\ Takes(r, s.slot)
    BY <1>2, <1>4 DEF UpdateItem, To
  <1>8. /\ lock' \in [Order \cup Slot -> Request \cup {Nobody}]
        /\ \A x \in Order \cup Slot : \A q \in Request \ {r} : lock[x] = q => lock'[x] = q
        /\ lock'[s.slot] = r
    BY <1>1, <1>3, <1>7, TakesLock, NamesAssumption
  <1>9. Cell1(r, t)'
    BY <1>2, <1>5, <1>8 DEF Good, Cell1
  <1>. QED BY <1>2, <1>5, <1>6, <1>7, <1>8, <1>9, AdvanceStep

LEMMA InsertItemStep ==
    ASSUME IInv, NamesAssumption, SetupAssumption, NEW r \in Request, InsertItem(r) PROVE IInv'
  <1>1. TypeOK
    BY DEF IInv
  <1>2. PICK s \in Session : s = session[r] /\ s.step = "insert" /\ Good(r, s)
    BY <1>1, AtSession DEF InsertItem, At, IInv
  <1>3. s.line \in Line /\ s.status = "receiving" /\ s.call = "receive" /\ s.slot \in Slot
        /\ s.received \in Nat
    BY <1>2 DEF Good, Receiving1, Session
  <1>4. PICK c : c = [sku |-> SkuOf[s.line], quantity |-> s.received]
    OBVIOUS
  <1>5. c \in Item
    BY <1>3, <1>4, SetupAssumption DEF Item
  <1>6. PICK t : t = [[s EXCEPT !.writes = c, !.inserts = TRUE] EXCEPT !.step = "changed"]
    OBVIOUS
  <1>7. t \in Session /\ t.order = s.order /\ t.lines = s.lines /\ t.planned = s.planned
        /\ t.step = "changed" /\ t.line = s.line /\ t.status = s.status /\ t.call = s.call
        /\ t.slot = s.slot /\ t.writes = c
    BY <1>5, <1>6 DEF Session
  <1>8. Receiving1(t)
    BY <1>3, <1>5, <1>7 DEF Receiving1
  <1>9. session' = [session EXCEPT ![r] = t] /\ UNCHANGED <<order, putaway, cell, entered>>
        /\ Takes(r, s.slot)
    BY <1>2, <1>4, <1>6 DEF InsertItem, To
  <1>10. /\ lock' \in [Order \cup Slot -> Request \cup {Nobody}]
         /\ \A x \in Order \cup Slot : \A q \in Request \ {r} : lock[x] = q => lock'[x] = q
         /\ lock'[s.slot] = r
    BY <1>1, <1>3, <1>9, TakesLock, NamesAssumption
  <1>11. cell[s.slot] = Empty
    BY <1>2 DEF InsertItem
  <1>12. Cell1(r, t)'
    BY <1>3, <1>7, <1>9, <1>10, <1>11 DEF Cell1
  <1>. QED BY <1>2, <1>7, <1>8, <1>9, <1>10, <1>12, AdvanceStep

-----------------------------------------------------------------------------
(* The flush, the planning and the commit                                  *)

\* What the flush writes: a receipt marks its line, others write what they read.
LEMMA ChangedLines ==
    ASSUME NEW s \in Session, s.call = "receive" => s.line \in Line
    PROVE  LET t == Changed(s)
           IN  /\ t \in Session
               /\ t.call = s.call /\ t.order = s.order /\ t.line = s.line /\ t.status = s.status
               /\ t.received = s.received /\ t.slot = s.slot /\ t.writes = s.writes
               /\ t.planned = s.planned /\ t.inserts = s.inserts
               /\ \A l \in Line : (s.call = "receive" /\ l = s.line) \/ t.lines[l] = s.lines[l]
               /\ s.call = "receive" =>
                     t.lines[s.line].done /\ t.lines[s.line].received = s.received
  <1>1. CASE s.call # "receive"
    BY <1>1 DEF Changed
  <1>2. CASE s.call = "receive"
    <2>1. PICK row : row = [done |-> TRUE, received |-> s.received]
      OBVIOUS
    <2>2. row \in LineRow /\ row.done /\ row.received = s.received
      BY <2>1 DEF LineRow, Session
    <2>3. PICK ls : ls = [s.lines EXCEPT ![s.line] = row]
      OBVIOUS
    <2>4. ls \in [Line -> LineRow] /\ ls[s.line] = row
          /\ \A l \in Line : l = s.line \/ ls[l] = s.lines[l]
      BY <1>2, <2>2, <2>3 DEF Session
    <2>5. Changed(s) = [s EXCEPT !.lines = ls, !.setsLines = TRUE]
      BY <1>2, <2>1, <2>3 DEF Changed
    <2>6. PICK u : u = [s EXCEPT !.lines = ls, !.setsLines = TRUE]
      OBVIOUS
    <2>7. /\ u \in Session /\ u.lines = ls
          /\ u.call = s.call /\ u.order = s.order /\ u.line = s.line /\ u.status = s.status
          /\ u.received = s.received /\ u.slot = s.slot /\ u.writes = s.writes
          /\ u.planned = s.planned /\ u.inserts = s.inserts
      BY <2>4, <2>6 DEF Session
    <2>. QED BY <1>2, <2>2, <2>4, <2>5, <2>6, <2>7
  <1>. QED BY <1>1, <1>2

LEMMA FlushStep ==
    ASSUME IInv, NamesAssumption, NEW r \in Request, Flush(r) PROVE IInv'
  <1>1. TypeOK
    BY DEF IInv
  <1>2. PICK s \in Session : s = session[r] /\ s.step = "changed" /\ Good(r, s)
    BY <1>1, AtSession DEF Flush, At, IInv
  <1>3. s.order \in Order /\ s.planned = {}
    BY <1>2 DEF Session, Good, Planning1
  <1>4. s.call = "receive" => s.line \in Line
    BY <1>2 DEF Good, Receiving1
  <1>5. PICK u \in Session :
            /\ u = Changed(s)
            /\ u.call = s.call /\ u.order = s.order /\ u.line = s.line /\ u.status = s.status
            /\ u.received = s.received /\ u.slot = s.slot /\ u.writes = s.writes
            /\ u.planned = {} /\ u.inserts = s.inserts
            /\ \A l \in Line : (s.call = "receive" /\ l = s.line) \/ u.lines[l] = s.lines[l]
            /\ s.call = "receive" =>
                  u.lines[s.line].done /\ u.lines[s.line].received = s.received
    BY <1>3, <1>4, ChangedLines
  <1>6. PICK next \in {"flushed", "ready"} :
            next = (IF Plans(s) THEN "flushed" ELSE "ready")
    OBVIOUS
  <1>7. PICK t : t = [u EXCEPT !.step = next]
    OBVIOUS
  <1>8. /\ t \in Session /\ t.step = next
        /\ t.call = s.call /\ t.order = s.order /\ t.line = s.line /\ t.status = s.status
        /\ t.received = s.received /\ t.slot = s.slot /\ t.writes = s.writes
        /\ t.planned = {} /\ t.lines = u.lines /\ t.inserts = s.inserts
    BY <1>5, <1>7 DEF Session
  <1>9. session' = [session EXCEPT ![r] = t] /\ UNCHANGED <<order, putaway, cell, entered>>
        /\ Takes(r, s.order)
    BY <1>2, <1>5, <1>6, <1>7 DEF Flush, To
  <1>10. /\ lock' \in [Order \cup Slot -> Request \cup {Nobody}]
         /\ \A x \in Order \cup Slot : \A q \in Request \ {r} : lock[x] = q => lock'[x] = q
         /\ lock'[s.order] = r
         /\ \A x \in Order \cup Slot : lock[x] = r => lock'[x] = r
    BY <1>1, <1>3, <1>9, TakesLock, NamesAssumption
  <1>11. Receiving1(t)'
    BY <1>2, <1>5, <1>8, <1>9 DEF Good, Receiving1
  <1>12. Planning1(r, t)'
    BY <1>8, <1>10 DEF Planning1
  <1>13. Covered1(t)'
    <2>1. SUFFICES ASSUME NEW l \in Line, t.lines[l].done /\ t.lines[l].received > 0,
                          putaway[s.order][l] = <<>>
                   PROVE  next = "flushed" /\ s.call = "receive" /\ l = s.line
      BY <1>8, <1>9 DEF Covered1
    <2>2. s.call = "receive" /\ l = s.line
      BY <1>2, <1>3, <1>5, <1>8, <2>1 DEF Good, Covered1
    <2>3. s.received > 0
      BY <1>5, <1>8, <2>1, <2>2
    <2>. QED BY <1>6, <2>2, <2>3 DEF Plans
  <1>14. Cell1(r, t)'
    BY <1>2, <1>8, <1>9, <1>10 DEF Good, Cell1, Receiving1
  <1>. QED BY <1>8, <1>9, <1>10, <1>11, <1>12, <1>13, <1>14, OwnStep DEF Good

LEMMA PlanStep == ASSUME IInv, NEW r \in Request, Plan(r) PROVE IInv'
  <1>1. TypeOK
    BY DEF IInv
  <1>2. PICK s \in Session : s = session[r] /\ s.step = "flushed" /\ Good(r, s)
    BY <1>1, AtSession DEF Plan, At, IInv
  <1>3. s.planned = {} /\ lock[s.order] = r
    BY <1>2 DEF Good, Planning1
  <1>4. PICK p \in SUBSET Line : p = ToPlan(s)
    BY DEF ToPlan
  <1>5. PICK t : t = [[s EXCEPT !.planned = p] EXCEPT !.step = "ready"]
    OBVIOUS
  <1>6. /\ t \in Session /\ t.step = "ready" /\ t.planned = p
        /\ t.call = s.call /\ t.order = s.order /\ t.line = s.line /\ t.status = s.status
        /\ t.received = s.received /\ t.slot = s.slot /\ t.writes = s.writes
        /\ t.lines = s.lines /\ t.inserts = s.inserts
    BY <1>5 DEF Session
  <1>7. session' = [session EXCEPT ![r] = t] /\ UNCHANGED <<order, putaway, cell, lock, entered>>
    BY <1>2, <1>4, <1>5 DEF Plan, To
  <1>8. Receiving1(t)'
    BY <1>2, <1>6, <1>7 DEF Good, Receiving1
  <1>9. Planning1(r, t)'
    BY <1>3, <1>4, <1>6, <1>7 DEF Planning1, ToPlan
  <1>10. Covered1(t)'
    <2>1. SUFFICES ASSUME NEW l \in Line, s.lines[l].done /\ s.lines[l].received > 0,
                          putaway[s.order][l] = <<>>
                   PROVE  l \in p
      BY <1>6, <1>7 DEF Covered1
    <2>2. s.call = "receive"
      BY <1>2, <1>3, <2>1 DEF Good, Covered1
    <2>3. s.status \in PlanStatus
      BY <1>2, <2>2 DEF Good, Receiving1, PlanStatus
    <2>. QED BY <1>4, <2>1, <2>3 DEF ToPlan
  <1>11. Cell1(r, t)'
    BY <1>2, <1>6, <1>7 DEF Good, Cell1
  <1>. QED BY <1>1, <1>6, <1>7, <1>8, <1>9, <1>10, <1>11, KeepsLock, OwnStep DEF Good

\* A changed task leaves the number of tasks.
LEMMA TaskChanged ==
    ASSUME NEW S, NEW ts \in Seq(S), NEW k \in Nat, NEW e \in S
    PROVE  \E us \in Seq(S) :
               us = [ts EXCEPT ![k] = e] /\ Len(us) = Len(ts) /\ (us = <<>> <=> ts = <<>>)
  <1>1. ts \in [1 .. Len(ts) -> S] /\ Len(ts) \in Nat
    OBVIOUS
  <1>2. PICK us : us = [ts EXCEPT ![k] = e]
    OBVIOUS
  <1>3. us \in [1 .. Len(ts) -> S]
    BY <1>1, <1>2
  <1>4. us \in Seq(S) /\ Len(us) = Len(ts)
    BY <1>1, <1>3
  <1>5. us = <<>> <=> ts = <<>>
    BY <1>4
  <1>. QED BY <1>2, <1>4, <1>5

\* What a commit does to the tasks of a line.
LEMMA CommittedTasks ==
    ASSUME IInv, NEW r \in Request, Commit(r), NEW s \in Session, s = session[r], Good(r, s),
           NEW x \in Order, NEW l \in Line
    PROVE  /\ putaway' \in [Order -> [Line -> Seq(TaskType)]]
           /\ Len(putaway'[x][l]) <= 1
           /\ putaway[x][l] # <<>> \/ (x = s.order /\ l \in s.planned) <=> putaway'[x][l] # <<>>
  <1>1. putaway \in [Order -> [Line -> Seq(TaskType)]] /\ s.order \in Order
    BY DEF IInv, TypeOK, TaskType, Session
  <1>2. PICK tasks : tasks = [m \in Line |->
                  IF m \in s.planned THEN Append(putaway[s.order][m], "pending")
                  ELSE IF s.call = "task" /\ m = s.line
                       THEN [putaway[s.order][m] EXCEPT ![s.task] = s.taskStatus]
                  ELSE putaway[s.order][m]]
    OBVIOUS
  <1>3. putaway' = [putaway EXCEPT ![s.order] = tasks]
    BY <1>2 DEF Commit
  <1>4. ASSUME NEW m \in Line
        PROVE  /\ tasks[m] \in Seq(TaskType) /\ Len(tasks[m]) <= 1
               /\ putaway[s.order][m] # <<>> \/ m \in s.planned <=> tasks[m] # <<>>
    <2>1. PICK ts \in Seq(TaskType) : ts = putaway[s.order][m] /\ Len(ts) <= 1
      BY <1>1 DEF IInv, OnePutaway
    <2>2. CASE m \in s.planned
      <3>1. tasks[m] = Append(ts, "pending") /\ ts = <<>>
        BY <1>2, <2>1, <2>2 DEF Good, Planning1
      <3>2. "pending" \in TaskType
        BY DEF TaskType
      <3>. QED BY <2>1, <2>2, <3>1, <3>2
    <2>3. CASE m \notin s.planned /\ s.call = "task" /\ m = s.line
      <3>1. tasks[m] = [ts EXCEPT ![s.task] = s.taskStatus]
        BY <1>2, <2>1, <2>3
      <3>2. PICK e \in TaskType, k \in Nat : e = s.taskStatus /\ k = s.task
        BY DEF Session, TaskType
      <3>3. PICK us \in Seq(TaskType) :
                us = [ts EXCEPT ![k] = e] /\ Len(us) = Len(ts) /\ (us = <<>> <=> ts = <<>>)
        BY TaskChanged
      <3>4. us = tasks[m]
        BY <3>1, <3>2, <3>3
      <3>. QED BY <2>1, <2>3, <3>3, <3>4
    <2>4. CASE m \notin s.planned /\ ~(s.call = "task" /\ m = s.line)
      <3>1. tasks[m] = ts
        BY <1>2, <2>1, <2>4
      <3>. QED BY <2>1, <2>4, <3>1
    <2>. QED BY <2>2, <2>3, <2>4
  <1>5. tasks \in [Line -> Seq(TaskType)]
    BY <1>2, <1>4
  <1>6. putaway' \in [Order -> [Line -> Seq(TaskType)]]
    BY <1>1, <1>3, <1>5
  <1>7. CASE x = s.order
    <2>1. putaway'[x] = tasks
      BY <1>1, <1>3, <1>7
    <2>2. putaway'[x][l] = tasks[l]
      BY <2>1
    <2>3. Len(tasks[l]) <= 1 /\ (putaway[x][l] # <<>> \/ l \in s.planned <=> tasks[l] # <<>>)
      BY <1>4, <1>7
    <2>. QED BY <1>6, <1>7, <2>2, <2>3
  <1>8. CASE x # s.order
    <2>1. putaway'[x] = putaway[x]
      BY <1>1, <1>3, <1>8
    <2>. QED BY <1>6, <1>8, <2>1 DEF IInv, OnePutaway
  <1>. QED BY <1>6, <1>7, <1>8

LEMMA CommitStep ==
    ASSUME IInv, NamesAssumption, NEW r \in Request, Commit(r) PROVE IInv'
  <1>1. TypeOK
    BY DEF IInv
  <1>2. PICK s \in Session : s = session[r] /\ s.step = "ready" /\ Good(r, s)
    BY <1>1, AtSession DEF Commit, At, IInv
  <1>3. s.order \in Order
    BY <1>2 DEF Session
  <1>4. \A x \in Order, l \in Line :
            /\ Len(putaway'[x][l]) <= 1
            /\ putaway[x][l] # <<>> \/ (x = s.order /\ l \in s.planned) <=> putaway'[x][l] # <<>>
    BY <1>2, CommittedTasks
  <1>5. Ends(r)
    BY DEF Commit
  <1>6. /\ lock' \in [Order \cup Slot -> Request \cup {Nobody}]
        /\ \A x \in Order \cup Slot : \A q \in Request \ {r} : lock[x] = q => lock'[x] = q
        /\ session' = [session EXCEPT ![r] = Idle]
    BY <1>1, <1>5, EndsLock, NamesAssumption
  <1>7. PICK row : row = [status |-> IF s.setsStatus THEN s.status ELSE order[s.order].status,
                          lines  |-> IF s.setsLines  THEN s.lines  ELSE order[s.order].lines]
    OBVIOUS
  <1>8. order' = [order EXCEPT ![s.order] = row]
    BY <1>2, <1>7 DEF Commit
  <1>9. row \in [status : Status \cup {NoOrder, Gone}, lines : [Line -> LineRow]]
        /\ row.lines \in {s.lines, order[s.order].lines}
    BY <1>1, <1>3, <1>7 DEF TypeOK, Session
  <1>10. s.call = "receive" /\ s.received > 0 => s.slot \in Slot /\ s.writes \in Item /\ s.line \in Line
    BY <1>2 DEF Good, Receiving1
  <1>11. cell' = cell \/ (s.slot \in Slot /\ s.writes \in Item /\ cell' = [cell EXCEPT ![s.slot] = s.writes])
    BY <1>2, <1>10 DEF Commit
  <1>12. TypeOK'
    <2>1. order' \in [Order -> [status : Status \cup {NoOrder, Gone}, lines : [Line -> LineRow]]]
      BY <1>1, <1>8, <1>9 DEF TypeOK
    <2>2. putaway' \in [Order -> [Line -> Seq({"pending"} \cup TaskStatus)]]
      <3>1. CASE Line = {}
        <4>1. putaway \in [Order -> [Line -> Seq({"pending"} \cup TaskStatus)]]
          BY <1>1 DEF TypeOK
        <4>. QED BY <1>2, <1>3, <3>1, <4>1 DEF Commit
      <3>2. CASE Line # {}
        <4>1. PICK l \in Line : TRUE
          BY <3>2
        <4>. QED BY <1>2, <1>3, CommittedTasks DEF TaskType
      <3>. QED BY <3>1, <3>2
    <2>3. cell' \in [Slot -> Item \cup {Empty}]
      BY <1>1, <1>11 DEF TypeOK
    <2>4. session' \in [Request -> {Idle} \cup Session]
      BY <1>1, <1>6 DEF TypeOK
    <2>5. entered' \in [Order -> [Line -> Nat]]
      <3>1. CASE entered' = entered
        BY <1>1, <3>1 DEF TypeOK
      <3>2. CASE s.line \in Line /\ entered' = [entered EXCEPT ![s.order][s.line] = @ + 1]
        BY <1>1, <1>3, <3>2 DEF TypeOK
      <3>. QED BY <1>2, <1>10, <3>1, <3>2 DEF Commit
    <2>. QED BY <1>6, <2>1, <2>2, <2>3, <2>4, <2>5 DEF TypeOK
  <1>13. OnePutaway'
    <2>1. SUFFICES ASSUME NEW x \in Order, NEW l \in Line,
                          order'[x].lines[l].done /\ order'[x].lines[l].received > 0
                   PROVE  putaway'[x][l] # <<>>
      BY <1>4 DEF OnePutaway
    <2>2. CASE x = s.order /\ row.lines = s.lines
      <3>1. s.lines[l].done /\ s.lines[l].received > 0
        BY <1>1, <1>8, <2>1, <2>2 DEF TypeOK
      <3>2. putaway[s.order][l] # <<>> \/ l \in s.planned
        BY <1>2, <3>1 DEF Good, Covered1
      <3>. QED BY <1>4, <2>2, <3>2
    <2>3. CASE x = s.order => row.lines = order[s.order].lines
      <3>1. order[x].lines[l].done /\ order[x].lines[l].received > 0
        BY <1>1, <1>8, <2>1, <2>3 DEF TypeOK
      <3>. QED BY <1>4, <3>1 DEF IInv, OnePutaway
    <2>. QED BY <1>9, <2>2, <2>3
  <1>14. GoodsHaveTask'
    <2>1. SUFFICES ASSUME NEW x \in Order, NEW l \in Line, entered'[x][l] > 0
                   PROVE  putaway'[x][l] # <<>>
      BY DEF GoodsHaveTask
    <2>2. CASE entered[x][l] > 0
      BY <1>4, <2>2 DEF IInv, GoodsHaveTask
    <2>3. CASE ~(entered[x][l] > 0)
      <3>1. entered' # entered
        BY <2>1, <2>3
      <3>2. /\ s.call = "receive" /\ s.received > 0
            /\ entered' = [entered EXCEPT ![s.order][s.line] = @ + 1]
        BY <1>2, <3>1 DEF Commit
      <3>3. x = s.order /\ l = s.line
        BY <1>1, <1>3, <1>10, <2>1, <2>3, <3>2 DEF TypeOK
      <3>4. s.lines[l].done /\ s.lines[l].received > 0
        BY <1>2, <3>2, <3>3 DEF Good, Receiving1
      <3>5. putaway[s.order][l] # <<>> \/ l \in s.planned
        BY <1>2, <3>4 DEF Good, Covered1
      <3>. QED BY <1>4, <3>3, <3>5
    <2>. QED BY <2>2, <2>3
  <1>15. ASSUME NEW q \in Request, session'[q] # Idle
         PROVE  Good(q, session[q])'
    <2>1. q # r /\ session'[q] = session[q]
      BY <1>1, <1>6, <1>15 DEF TypeOK
    <2>2. PICK t \in Session : t = session[q] /\ Good(q, t)
      BY <1>1, <1>15, <2>1 DEF IInv, TypeOK
    <2>3. t.order \in Order
      BY <2>2 DEF Session
    <2>4. lock[t.order] = q => lock'[t.order] = q
      BY <1>6, <2>1, <2>3
    <2>5. Receiving1(t)'
      BY <1>1, <1>11, <2>2 DEF Good, Receiving1, TypeOK
    <2>6. Planning1(q, t)'
      <3>1. ASSUME NEW l \in t.planned
            PROVE  putaway'[t.order][l] = <<>>
        <4>1. lock[t.order] = q /\ putaway[t.order][l] = <<>> /\ l \in Line
          BY <2>2, <3>1 DEF Good, Planning1, Session
        <4>2. ~(t.order = s.order /\ l \in s.planned)
          BY <1>2, <2>1, <4>1 DEF Good, Planning1
        <4>. QED BY <1>4, <2>3, <4>1, <4>2
      <3>. QED BY <2>2, <2>4, <3>1 DEF Good, Planning1
    <2>7. Covered1(t)'
      <3>1. SUFFICES ASSUME NEW l \in Line, t.lines[l].done /\ t.lines[l].received > 0
                     PROVE  \/ putaway'[t.order][l] # <<>>
                            \/ l \in t.planned
                            \/ t.step = "flushed" /\ t.call = "receive" /\ l = t.line
        BY DEF Covered1
      <3>2. \/ putaway[t.order][l] # <<>>
            \/ l \in t.planned
            \/ t.step = "flushed" /\ t.call = "receive" /\ l = t.line
        BY <2>2, <3>1 DEF Good, Covered1
      <3>. QED BY <1>4, <2>3, <3>2
    <2>8. Cell1(q, t)'
      <3>1. \A x \in Slot : lock[x] = q => lock'[x] = q
        BY <1>6, <2>1
      <3>2. ASSUME t.inserts
            PROVE  t.slot \in Slot /\ lock[t.slot] = q /\ cell'[t.slot] = Empty
        <4>1. t.slot \in Slot /\ lock[t.slot] = q /\ cell[t.slot] = Empty
          BY <2>2, <3>2 DEF Good, Cell1
        <4>2. CASE cell' = cell
          BY <4>1, <4>2
        <4>3. CASE cell' # cell
          <5>1. s.call = "receive" /\ s.received > 0
            BY <1>2, <4>3 DEF Commit
          <5>2. lock[s.slot] = r
            BY <1>2, <5>1 DEF Good, Cell1
          <5>. QED BY <1>1, <1>11, <2>1, <4>1, <4>3, <5>2 DEF TypeOK
        <4>. QED BY <4>1, <4>2, <4>3
      <3>. QED BY <2>2, <3>1, <3>2 DEF Good, Receiving1, Cell1
    <2>. QED BY <2>1, <2>2, <2>5, <2>6, <2>7, <2>8 DEF Good, Receiving1, Planning1, Covered1, Cell1
  <1>. QED BY <1>12, <1>13, <1>14, <1>15 DEF IInv

-----------------------------------------------------------------------------
(* The other steps and the theorems                                        *)

\* A step that touches no session: it keeps the lines of orders and the items
\* in cells.
LEMMA WorldStep ==
    ASSUME IInv, UNCHANGED <<putaway, lock, session, entered>>,
           order' \in [Order -> [status : Status \cup {NoOrder, Gone}, lines : [Line -> LineRow]]],
           \A o \in Order : order'[o].lines = order[o].lines,
           cell' \in [Slot -> Item \cup {Empty}],
           \A s \in Slot : cell[s] \in Item => cell'[s] \in Item,
           \A s \in Slot : cell[s] = Empty => cell'[s] = Empty
    PROVE  IInv'
  <1>1. TypeOK'
    BY DEF IInv, TypeOK
  <1>2. OnePutaway' /\ GoodsHaveTask'
    BY DEF IInv, OnePutaway, GoodsHaveTask
  <1>3. ASSUME NEW q \in Request, session'[q] # Idle
        PROVE  Good(q, session[q])'
    <2>1. Good(q, session[q])
      BY <1>3 DEF IInv
    <2>. QED BY <2>1 DEF Good, Receiving1, Planning1, Covered1, Cell1
  <1>. QED BY <1>1, <1>2, <1>3 DEF IInv

LEMMA CreateOrderStep == ASSUME IInv, NEW o \in Order, CreateOrder(o) PROVE IInv'
  <1>1. order' \in [Order -> [status : Status \cup {NoOrder, Gone}, lines : [Line -> LineRow]]]
    <2>1. PICK status : status = "open" /\ status \in Status \cup {NoOrder, Gone}
      BY DEF Status, OpenStatus
    <2>2. order' = [order EXCEPT ![o].status = status]
      BY <2>1 DEF CreateOrder
    <2>. QED BY <2>1, <2>2 DEF IInv, TypeOK
  <1>2. \A x \in Order : order'[x].lines = order[x].lines
    BY DEF IInv, TypeOK, CreateOrder
  <1>. QED BY <1>1, <1>2, WorldStep DEF IInv, TypeOK, CreateOrder

LEMMA DeleteOrderStep == ASSUME IInv, NEW o \in Order, DeleteOrder(o) PROVE IInv'
  <1>1. order' \in [Order -> [status : Status \cup {NoOrder, Gone}, lines : [Line -> LineRow]]]
    BY DEF IInv, TypeOK, DeleteOrder
  <1>2. \A x \in Order : order'[x].lines = order[x].lines
    BY DEF IInv, TypeOK, DeleteOrder
  <1>. QED BY <1>1, <1>2, WorldStep DEF IInv, TypeOK, DeleteOrder

LEMMA PickStep == ASSUME IInv, NEW s \in Slot, Pick(s) PROVE IInv'
  <1>1. cell[s] \in Item /\ cell[s].quantity > 0
    BY DEF IInv, TypeOK, Pick, Empty
  <1>2. PICK n \in Nat : n = cell[s].quantity - 1
    BY <1>1 DEF Item
  <1>3. PICK c \in Item : c = [cell[s] EXCEPT !.quantity = n]
    BY <1>1 DEF Item
  <1>4. cell' = [cell EXCEPT ![s] = c] /\ UNCHANGED <<order, putaway, lock, session, entered>>
    BY <1>2, <1>3 DEF Pick
  <1>5. \A x \in Slot : cell[x] = Empty => cell'[x] = Empty
    BY <1>1, <1>4 DEF IInv, TypeOK, Empty
  <1>. QED BY <1>3, <1>4, <1>5, WorldStep DEF IInv, TypeOK

LEMMA InitIInv == ASSUME NamesAssumption, SetupAssumption, Init PROVE IInv
  <1>1. TypeOK
    BY SetupAssumption DEF Init, TypeOK, NoLine, LineRow
  <1>2. OnePutaway /\ GoodsHaveTask
    BY DEF Init, OnePutaway, GoodsHaveTask, NoLine
  <1>. QED BY <1>1, <1>2 DEF Init, IInv

LEMMA NextIInv ==
    ASSUME NamesAssumption, SetupAssumption, PatchAssumption, IInv, [Next]_vars PROVE IInv'
  <1>1. ASSUME NEW r \in Request, Receive(r)
        PROVE  IInv'
    BY <1>1, SetupAssumption, NamesAssumption, StartReceiveStep, SuggestStep, ReadItemStep,
       UpdateItemStep, InsertItemStep DEF Receive
  <1>2. ASSUME NEW r \in Request, Change(r)
        PROVE  IInv'
    BY <1>2, SetupAssumption, PatchAssumption, StartPatchStatusStep, StartPatchLinesStep,
       StartCloseStep, StartPatchTaskStep DEF Change
  <1>3. ASSUME NEW r \in Request, Flush(r) \/ Plan(r) \/ Commit(r)
        PROVE  IInv'
    BY <1>3, NamesAssumption, FlushStep, PlanStep, CommitStep
  <1>4. ASSUME NEW r \in Request, Fail(r)
        PROVE  IInv'
    BY <1>4, RollbackStep DEF Fail
  <1>5. ASSUME NEW o \in Order, CreateOrder(o) \/ DeleteOrder(o)
        PROVE  IInv'
    BY <1>5, CreateOrderStep, DeleteOrderStep
  <1>6. ASSUME NEW s \in Slot, Pick(s)
        PROVE  IInv'
    BY <1>6, PickStep
  <1>7. CASE UNCHANGED vars
    BY <1>7, WorldStep DEF vars, IInv, TypeOK
  <1>. QED BY <1>1, <1>2, <1>3, <1>4, <1>5, <1>6, <1>7 DEF Next

\* The invariant holds in every behaviour.
THEOREM Invariant == Spec => []IInv
  <1>1. Init => IInv
    BY InitIInv, NamesAssumption, SetupAssumption
  <1>2. IInv /\ [Next]_vars => IInv'
    BY NextIInv, NamesAssumption, SetupAssumption, PatchAssumption
  <1>. QED BY <1>1, <1>2, PTL DEF Spec

\* Orders, tasks, cells, locks and sessions keep their types, for every number of
\* requests, lines and cells.
THEOREM TypeTheorem == Spec => []TypeOK
  <1>1. IInv => TypeOK
    BY DEF IInv
  <1>. QED BY <1>1, Invariant, PTL

\* However receipts, edits and closings of an order overlap, a line gets one
\* put-away task at most, and what an order shows as received has its task.
THEOREM OnePutawayTheorem == Spec => []OnePutaway
  <1>1. IInv => OnePutaway
    BY DEF IInv
  <1>. QED BY <1>1, Invariant, PTL

\* Goods that entered the stock have a put-away task, whatever happened to the
\* mark of their receipt.
THEOREM GoodsHaveTaskTheorem == Spec => []GoodsHaveTask
  <1>1. IInv => GoodsHaveTask
    BY DEF IInv
  <1>. QED BY <1>1, Invariant, PTL

\* A new item does not share its cell with another one, in the cell or on its way.
THEOREM NewItemIsAloneTheorem == Spec => []NewItemIsAlone
  <1>1. IInv => NewItemIsAlone
    <2>1. SUFFICES ASSUME IInv, NEW r \in Request, Inserts(r)
                   PROVE  /\ cell[session[r].slot] = Empty
                          /\ \A q \in Request \ {r} : Inserts(q) => session[q].slot # session[r].slot
      BY DEF NewItemIsAlone
    <2>2. \A q \in Request : Inserts(q) =>
              lock[session[q].slot] = q /\ cell[session[q].slot] = Empty
      BY <2>1 DEF IInv, Good, Cell1, Inserts
    <2>. QED BY <2>1, <2>2
  <1>. QED BY <1>1, Invariant, PTL

=============================================================================

---------------------------- MODULE CountingProofs ----------------------------
(***************************************************************************)
(* What the events of a posting tell, for any number of acts, items and    *)
(* requests: a session that is past an item holds its row until it ends,   *)
(* so the quantity it will replace is the one it computed from.            *)
(***************************************************************************)
EXTENDS Counting, TLAPS

LineRow == [on : BOOLEAN, system : Nat, fact : Fact \cup {NoFact}, variance : Int]

\* Known(s) of a session that posts: the facts it writes are there; what it is past it has
\* locked, and the difference it tells is against the quantity that is still stored.
On(s) == {i \in Item : s.loaded[i].on}

Past(s) == On(s) \ s.todo

Posting(r, s) ==
    /\ s.todo \subseteq On(s)
    /\ \A i \in On(s) : s.loaded[i].fact \in Fact
    /\ \A i \in Past(s) :
          /\ lock[i] = r
          /\ s.written[i] \in Nat
          /\ s.delta[i] = s.written[i] - quantity[i]
    /\ \A i \in Item \ On(s) : s.delta[i] = 0
    /\ s.step \in {"act", "ready"} => s.todo = {}

\* The session of a request.
SessionType ==
    [step : {"loaded", "line", "act", "ready"}, call : {"facts", "post"}, act : Act,
     loaded : [Item -> LineRow], lines : [Item -> LineRow], todo : SUBSET Item,
     item : Item \cup {None}, written : [Item -> Nat], delta : [Item -> Int]]

CountOK(r) ==
    LET s == session[r]
    IN  \/ s = Idle
        \/ /\ s \in SessionType
           /\ s.step = "loaded" => s.call = "post"
           /\ s.call = "post" => Posting(r, s)

CountInv ==
    /\ quantity \in [Item -> Nat]
    /\ line \in [Act -> [Item -> LineRow]]
    /\ lock \in [Row -> Request \cup {Nobody}]
    /\ DOMAIN session = Request
    /\ \A r \in Request : CountOK(r)

-----------------------------------------------------------------------------
(* Sessions and rows *)

LEMMA ItemRows ==
  /\ Item \subseteq Row /\ Act \subseteq Row /\ Act \X Item \subseteq Row
  /\ \A a \in Act, i \in Item : <<a, i>> \notin Item
BY NamesAssumption DEF Row

\* A step of r leaves the other sessions as they are, their locks, and the items they hold.
LEMMA StepOf ==
  ASSUME CountInv, NEW r \in Request,
         DOMAIN session' = Request, CountOK(r)',
         \A q \in Request \ {r} : session'[q] = session[q],
         quantity' \in [Item -> Nat],
         line' \in [Act -> [Item -> LineRow]],
         lock' \in [Row -> Request \cup {Nobody}],
         \A q \in Request \ {r}, i \in Item :
            lock[i] = q => lock'[i] = q /\ quantity'[i] = quantity[i]
  PROVE  CountInv'
<1>1. ASSUME NEW q \in Request, q # r PROVE CountOK(q)'
  <2>1. CountOK(q) /\ session'[q] = session[q]
    BY <1>1 DEF CountInv
  <2>2. PICK s : s = session[q]
    OBVIOUS
  <2>3. ASSUME Posting(q, s) PROVE Posting(q, s)'
    <3>1. \A i \in Past(s) : i \in Item
      BY DEF Past, On
    <3> QED
      BY <1>1, <2>3, <3>1 DEF Posting
  <2> QED
    BY <2>1, <2>2, <2>3 DEF CountOK
<1> QED
  BY <1>1 DEF CountInv

\* A step that takes one lock.
LEMMA TakesRow ==
  ASSUME CountInv, NEW r \in Request, NEW x, Takes(r, x)
  PROVE  /\ lock' \in [Row -> Request \cup {Nobody}]
         /\ \A q \in Request, i \in Item : lock[i] = q => lock'[i] = q
         /\ x \in Item => lock'[x] = r
BY NamesAssumption, ItemRows DEF CountInv, Takes

LEMMA IdleStep ==
  ASSUME CountInv, NEW r \in Request, Ends(r)
  PROVE  /\ DOMAIN session' = Request /\ session'[r] = Idle /\ CountOK(r)'
         /\ \A q \in Request \ {r} : session'[q] = session[q]
         /\ lock' \in [Row -> Request \cup {Nobody}]
         /\ \A q \in Request \ {r}, i \in Item : lock[i] = q => lock'[i] = q
<1>1. session'[r] = Idle /\ DOMAIN session' = Request
  BY DEF Ends, CountInv
<1> QED
  BY <1>1, NamesAssumption, ItemRows DEF Ends, CountInv, CountOK

\* A session at work has its type.
LEMMA AtWork ==
  ASSUME CountInv, NEW r \in Request, ~At(r, "idle")
  PROVE  /\ session[r] \in SessionType
         /\ session[r].step = "loaded" => session[r].call = "post"
         /\ session[r].call = "post" => Posting(r, session[r])
BY DEF CountInv, CountOK, At, Idle

\* A line with attributes changed is a line.
LEMMA LineWith ==
  ASSUME NEW l \in LineRow, NEW v \in Int
  PROVE  /\ \A n \in Fact : [l EXCEPT !.fact = n, !.variance = v] \in LineRow
         /\ \A q \in Nat : [l EXCEPT !.system = q, !.variance = v] \in LineRow
BY DEF LineRow

LEMMA LineCreated ==
  ASSUME NEW l \in LineRow, NEW q \in Nat
  PROVE  [l EXCEPT !.on = TRUE, !.system = q] \in LineRow
BY DEF LineRow

-----------------------------------------------------------------------------
(* The steps *)

LEMMA CountInit == Init => CountInv
<1> SUFFICES ASSUME Init PROVE CountInv
  OBVIOUS
<1>1. NoLine \in LineRow
  BY DEF NoLine, LineRow
<1> QED
  BY <1>1, StockAssumption DEF Init, CountInv, CountOK

LEMMA FailStep ==
  ASSUME CountInv, NEW r \in Request, Fail(r)
  PROVE  CountInv'
<1>1. quantity' = quantity /\ line' = line /\ Ends(r)
  BY DEF Fail
<1> QED
  BY <1>1, IdleStep, StepOf DEF CountInv

LEMMA CreateStep ==
  ASSUME CountInv, NEW a \in Act, NEW items \in SUBSET Item, CreateCount(a, items)
  PROVE  CountInv'
<1>1. ASSUME NEW i \in Item
      PROVE  [NoLine EXCEPT !.on = TRUE, !.system = quantity[i]] \in LineRow /\ NoLine \in LineRow
  <2>1. quantity[i] \in Nat
    BY DEF CountInv
  <2>2. NoLine \in LineRow
    BY DEF NoLine, LineRow
  <2> QED
    BY <2>1, <2>2, LineCreated
<1>2. line' \in [Act -> [Item -> LineRow]]
  BY <1>1 DEF CreateCount, CountInv
<1>3. UNCHANGED <<quantity, lock, session>>
  BY DEF CreateCount
<1> QED
  BY <1>2, <1>3 DEF CountInv, CountOK, Posting, Past, On

LEMMA MoveStep ==
  ASSUME CountInv, NEW i \in Item, NEW n \in Moved, Move(i, n)
  PROVE  CountInv'
<1>1. quantity' \in [Item -> Nat] /\ \A j \in Item : j # i => quantity'[j] = quantity[j]
  BY StockAssumption DEF Move, CountInv
<1>2. UNCHANGED <<line, lock, session>>
  BY DEF Move
<1>3. \A r \in Request, j \in Item : lock[j] = r => j # i
  BY NamesAssumption DEF Move
<1>4. ASSUME NEW r \in Request PROVE CountOK(r)'
  <2>1. PICK s : s = session[r]
    OBVIOUS
  <2>2. ASSUME Posting(r, s) PROVE Posting(r, s)'
    <3>1. \A j \in Past(s) : j \in Item
      BY DEF Past, On
    <3> QED
      BY <1>1, <1>2, <1>3, <2>2, <3>1 DEF Posting
  <2> QED
    BY <1>2, <2>1, <2>2 DEF CountInv, CountOK
<1> QED
  BY <1>1, <1>2, <1>4 DEF CountInv

\* What a request loads.
LEMMA LoadedType ==
  ASSUME CountInv, NEW a \in Act, NEW call \in {"facts", "post"}
  PROVE  LET s == Loaded(a, call)
         IN  /\ s \in SessionType /\ s.step = "loaded" /\ s.call = call /\ s.todo = ItemsOf(a)
             /\ On(s) = ItemsOf(a) /\ \A i \in Item : s.delta[i] = 0 /\ s.loaded[i] = line[a][i]
BY DEF Loaded, SessionType, On, ItemsOf, CountInv

LEMMA StartPostStep ==
  ASSUME CountInv, NEW r \in Request, NEW a \in Act, StartPost(r, a)
  PROVE  CountInv'
<1>1. session'[r] = [Loaded(a, "post") EXCEPT !.step = "loaded"]
  BY DEF StartPost, To, CountInv
<1>2. PICK s : s = session'[r]
  OBVIOUS
<1>3. /\ s \in SessionType /\ s.step = "loaded" /\ s.call = "post" /\ s.todo = ItemsOf(a)
      /\ On(s) = ItemsOf(a) /\ \A i \in Item : s.delta[i] = 0 /\ s.loaded[i] = line[a][i]
  BY <1>1, <1>2, LoadedType DEF SessionType, On
<1>4. \A i \in ItemsOf(a) : i \in Item /\ line[a][i].fact \in Fact
  BY DEF StartPost, CountInv, LineRow, ItemsOf
<1>5. Posting(r, s)'
  BY <1>3, <1>4 DEF Posting, Past
<1>6. CountOK(r)'
  BY <1>2, <1>3, <1>5 DEF CountOK
<1>7. UNCHANGED <<quantity, line, lock>>
  BY DEF StartPost
<1> QED
  BY <1>6, <1>7, StepOf DEF StartPost, To, CountInv

LEMMA StartFactsStep ==
  ASSUME CountInv, NEW r \in Request, NEW a \in Act, NEW i \in Item, NEW n \in Fact,
         StartFacts(r, a, i, n)
  PROVE  CountInv'
<1>1. PICK s : s = Loaded(a, "facts")
  OBVIOUS
<1>2. s \in SessionType /\ s.call = "facts"
  BY <1>1, LoadedType
<1>3. n \in Nat
  BY StockAssumption
<1>4. PICK new : new = [s EXCEPT !.lines[i].fact = n, !.lines[i].variance = n - s.lines[i].system, !.item = i]
  OBVIOUS
<1>5. new \in SessionType /\ new.call = "facts"
  <2>1. s.lines[i] \in LineRow
    BY <1>2 DEF SessionType
  <2>2. PICK l : l = [s.lines[i] EXCEPT !.fact = n, !.variance = n - s.lines[i].system]
    OBVIOUS
  <2>3. l \in LineRow
    <3>1. n - s.lines[i].system \in Int
      BY <1>3, <2>1 DEF LineRow
    <3> QED
      BY <2>1, <2>2, <3>1, LineWith
  <2>4. new = [s EXCEPT !.lines = [@ EXCEPT ![i] = l], !.item = i]
    BY <1>2, <1>4, <2>2 DEF SessionType
  <2> QED
    BY <1>2, <2>3, <2>4 DEF SessionType
<1>6. session'[r] = [new EXCEPT !.step = "act"]
  BY <1>1, <1>4 DEF StartFacts, To, CountInv
<1>7. session'[r] \in SessionType /\ session'[r].call = "facts" /\ session'[r].step = "act"
  BY <1>5, <1>6 DEF SessionType
<1>8. CountOK(r)'
  BY <1>7 DEF CountOK
<1>9. UNCHANGED <<quantity, line, lock>>
  BY DEF StartFacts
<1> QED
  BY <1>8, <1>9, StepOf DEF StartFacts, To, CountInv

LEMMA PostItemStep ==
  ASSUME CountInv, NEW r \in Request, NEW i \in Item, PostItem(r, i)
  PROVE  CountInv'
<1>1. PICK s : s = session[r]
  OBVIOUS
<1>2. s \in SessionType /\ s.call = "post" /\ Posting(r, s) /\ i \in s.todo
  BY <1>1, AtWork DEF PostItem, At
<1>3. i \in On(s) /\ s.loaded[i].fact \in Nat /\ quantity[i] \in Nat
  BY <1>2, StockAssumption DEF Posting, CountInv
<1>4. PICK q, counted, delta :
         q = quantity[i] /\ counted = s.loaded[i].fact /\ delta = counted - quantity[i]
  OBVIOUS
<1>5. PICK went, system, lines, written, new :
         /\ went    = [s EXCEPT !.item = i, !.todo = @ \ {i}]
         /\ system  = [went EXCEPT !.lines[i].system = q]
         /\ lines   = [system EXCEPT !.lines[i].variance = delta]
         /\ written = [lines EXCEPT !.written[i] = counted]
         /\ new     = [written EXCEPT !.delta[i] = delta]
  OBVIOUS
<1>6. PICK l : l = [s.lines[i] EXCEPT !.system = q, !.variance = delta]
  OBVIOUS
<1>7. l \in LineRow /\ counted \in Nat /\ delta \in Int
  <2>1. s.lines[i] \in LineRow
    BY <1>2 DEF SessionType
  <2>2. counted \in Nat /\ delta \in Int /\ q \in Nat
    BY <1>3, <1>4
  <2> QED
    BY <1>6, <2>1, <2>2, LineWith
<1>8. new = [s EXCEPT !.item = i, !.todo = s.todo \ {i},
                      !.lines = [s.lines EXCEPT ![i] = l],
                      !.written = [s.written EXCEPT ![i] = counted],
                      !.delta = [s.delta EXCEPT ![i] = delta]]
  <2>1. went = [s EXCEPT !.item = i, !.todo = s.todo \ {i}]
    BY <1>5
  <2>2. went.lines = s.lines /\ DOMAIN s.lines = Item
    BY <1>2, <2>1 DEF SessionType
  <2>3. system = [went EXCEPT !.lines = [s.lines EXCEPT ![i] = [s.lines[i] EXCEPT !.system = q]]]
    BY <1>5, <2>2
  <2>4. system.lines = [s.lines EXCEPT ![i] = [s.lines[i] EXCEPT !.system = q]]
    BY <1>2, <2>1, <2>3 DEF SessionType
  <2>5. system.lines[i] = [s.lines[i] EXCEPT !.system = q]
    BY <2>2, <2>4
  <2>6. [system.lines[i] EXCEPT !.variance = delta] = l
    BY <1>6, <2>5
  <2>7. lines = [system EXCEPT !.lines = [system.lines EXCEPT ![i] = l]]
    BY <1>5, <2>6
  <2>8. [system.lines EXCEPT ![i] = l] = [s.lines EXCEPT ![i] = l]
    BY <2>2, <2>4
  <2>9. lines = [went EXCEPT !.lines = [s.lines EXCEPT ![i] = l]]
    BY <1>2, <2>1, <2>3, <2>7, <2>8 DEF SessionType
  <2>10. written = [lines EXCEPT !.written = [s.written EXCEPT ![i] = counted]]
    BY <1>2, <1>5, <2>1, <2>9 DEF SessionType
  <2>11. new = [written EXCEPT !.delta = [s.delta EXCEPT ![i] = delta]]
    BY <1>2, <1>5, <2>1, <2>9, <2>10 DEF SessionType
  <2> QED
    BY <1>2, <2>1, <2>9, <2>10, <2>11 DEF SessionType
<1>9. PICK last : last = [new EXCEPT !.step = "line"]
  OBVIOUS
<1>10. /\ last \in SessionType /\ last.step = "line" /\ last.call = "post"
       /\ last.todo = s.todo \ {i} /\ last.loaded = s.loaded
       /\ last.written = [s.written EXCEPT ![i] = counted]
       /\ last.delta = [s.delta EXCEPT ![i] = delta]
  BY <1>2, <1>7, <1>8, <1>9 DEF SessionType
<1>11. session'[r] = last
  BY <1>1, <1>4, <1>5, <1>9 DEF PostItem, To, CountInv
<1>12. UNCHANGED <<quantity, line>> /\ Takes(r, i)
  BY DEF PostItem, LockItem
<1>13. Posting(r, last)'
  <2>1. On(last) = On(s) /\ Past(last) = Past(s) \cup {i}
    BY <1>3, <1>10 DEF On, Past
  <2>2. s.written \in [Item -> Nat] /\ s.delta \in [Item -> Int]
    BY <1>2 DEF SessionType
  <2>3. ASSUME NEW j \in Past(last)
        PROVE  lock'[j] = r /\ last.written[j] \in Nat /\ last.delta[j] = last.written[j] - quantity'[j]
    <3>1. CASE j = i
      BY <1>3, <1>4, <1>7, <1>10, <1>12, <2>2, <3>1, TakesRow
    <3>2. CASE j # i
      <4>1. j \in Past(s) /\ j \in Item
        BY <2>1, <2>3, <3>2 DEF Past, On
      <4> QED
        BY <1>2, <1>10, <1>12, <2>2, <3>2, <4>1, TakesRow DEF Posting
    <3> QED
      BY <3>1, <3>2
  <2>4. \A j \in Item \ On(last) : last.delta[j] = 0
    BY <1>2, <1>3, <1>10, <2>1, <2>2 DEF Posting
  <2> QED
    BY <1>2, <1>10, <2>1, <2>3, <2>4 DEF Posting
<1>14. CountOK(r)'
  BY <1>10, <1>11, <1>13 DEF CountOK
<1> QED
  BY <1>12, <1>14, StepOf, TakesRow DEF PostItem, To, CountInv

\* A flush takes the lock of its row and goes on.
LEMMA FlushStep ==
  ASSUME CountInv, NEW r \in Request, ~At(r, "idle"), NEW x, Takes(r, x),
         NEW step \in {"loaded", "line", "act", "ready"}, To(r, session[r], step),
         UNCHANGED <<quantity, line>>,
         step = "loaded" => session[r].call = "post",
         session[r].call = "post" /\ step \in {"act", "ready"} => session[r].todo = {}
  PROVE  CountInv'
<1>1. PICK s : s = session[r]
  OBVIOUS
<1>2. s \in SessionType /\ (s.call = "post" => Posting(r, s))
  BY <1>1, AtWork
<1>3. PICK new : new = [s EXCEPT !.step = step]
  OBVIOUS
<1>4. /\ new \in SessionType /\ new.step = step /\ new.call = s.call /\ new.todo = s.todo
      /\ new.loaded = s.loaded /\ new.written = s.written /\ new.delta = s.delta
  BY <1>2, <1>3 DEF SessionType
<1>5. session'[r] = new
  BY <1>1, <1>3 DEF To, CountInv
<1>6. ASSUME s.call = "post" PROVE Posting(r, new)'
  <2>1. On(new) = On(s) /\ Past(new) = Past(s)
    BY <1>4 DEF On, Past
  <2>2. \A j \in Past(s) : j \in Item
    BY DEF Past, On
  <2> QED
    BY <1>1, <1>2, <1>4, <1>6, <2>1, <2>2, TakesRow DEF Posting
<1>7. CountOK(r)'
  BY <1>1, <1>4, <1>5, <1>6 DEF CountOK
<1> QED
  BY <1>7, StepOf, TakesRow DEF To, CountInv

LEMMA FlushLineStep ==
  ASSUME CountInv, NEW r \in Request, FlushLine(r)
  PROVE  CountInv'
<1>1. PICK step :
        /\ step = IF session[r].call = "facts" THEN "ready" ELSE IF session[r].todo = {} THEN "act" ELSE "loaded"
        /\ To(r, session[r], step)
  BY DEF FlushLine
<1>2. ~At(r, "idle") /\ session[r].call \in {"facts", "post"}
  BY AtWork DEF FlushLine, At, SessionType
<1>3. PICK x : Takes(r, x)
  BY DEF FlushLine
<1>4. /\ step \in {"loaded", "line", "act", "ready"}
      /\ step = "loaded" => session[r].call = "post"
      /\ session[r].call = "post" /\ step \in {"act", "ready"} => session[r].todo = {}
  BY <1>1, <1>2
<1>5. UNCHANGED <<quantity, line>>
  BY DEF FlushLine
<1> QED
  BY <1>1, <1>2, <1>3, <1>4, <1>5, FlushStep

LEMMA FlushActStep ==
  ASSUME CountInv, NEW r \in Request, FlushAct(r)
  PROVE  CountInv'
<1>1. PICK step : step = (IF session[r].call = "facts" THEN "line" ELSE "ready") /\ To(r, session[r], step)
  BY DEF FlushAct
<1>2. ~At(r, "idle") /\ session[r].call = "post" => session[r].todo = {}
  BY AtWork DEF FlushAct, At, Posting
<1>3. ~At(r, "idle")
  BY DEF FlushAct, At
<1>4. PICK x : Takes(r, x)
  BY DEF FlushAct
<1>5. UNCHANGED <<quantity, line>>
  BY DEF FlushAct
<1>6. step \in {"line", "ready"}
  BY <1>1
<1> QED
  BY <1>1, <1>2, <1>3, <1>4, <1>5, <1>6, FlushStep

\* The items of the act it posts, which it has all locked, change by what it tells.
LEMMA CommitChange ==
  ASSUME CountInv, NEW r \in Request, Commit(r)
  PROVE  /\ quantity' \in [Item -> Nat]
         /\ \A i \in Item : quantity'[i] # quantity[i] => lock[i] = r
         /\ session[r].call = "post" =>
               \A i \in Item : quantity'[i] - quantity[i] = session[r].delta[i]
<1>1. PICK s : s = session[r]
  OBVIOUS
<1>2. s \in SessionType /\ (s.call = "post" => Posting(r, s)) /\ s.step = "ready"
  BY <1>1, AtWork DEF Commit, At
<1>3. quantity \in [Item -> Nat]
  BY DEF CountInv
<1>4. CASE s.call # "post"
  BY <1>1, <1>3, <1>4 DEF Commit
<1>5. CASE s.call = "post"
  <2>1. quantity' = [i \in Item |-> IF i \in On(s) THEN s.written[i] ELSE quantity[i]]
    BY <1>1, <1>5 DEF Commit, On
  <2>2. \A i \in On(s) : lock[i] = r /\ s.written[i] \in Nat /\ s.delta[i] = s.written[i] - quantity[i]
    BY <1>2, <1>5 DEF Posting, Past
  <2>3. \A i \in Item \ On(s) : s.delta[i] = 0
    BY <1>2, <1>5 DEF Posting
  <2> QED
    BY <1>1, <1>3, <2>1, <2>2, <2>3
<1> QED
  BY <1>4, <1>5

LEMMA CommitStep ==
  ASSUME CountInv, NEW r \in Request, Commit(r)
  PROVE  CountInv'
<1>1. session[r] \in SessionType
  BY AtWork DEF Commit, At
<1>2. line' \in [Act -> [Item -> LineRow]]
  <2>1. ASSUME NEW stored \in LineRow, NEW loaded \in LineRow, NEW new \in LineRow
        PROVE  Merged(stored, loaded, new) \in LineRow
    BY DEF Merged, LineRow
  <2>2. PICK a : a = session[r].act /\ a \in Act
    BY <1>1 DEF SessionType
  <2>3. PICK loaded, lines : /\ loaded = session[r].loaded /\ lines = session[r].lines
                             /\ loaded \in [Item -> LineRow] /\ lines \in [Item -> LineRow]
    BY <1>1 DEF SessionType
  <2>4. line' = [line EXCEPT ![a] = [i \in Item |-> Merged(line[a][i], loaded[i], lines[i])]]
    BY <2>2, <2>3 DEF Commit, CountInv
  <2>5. [i \in Item |-> Merged(line[a][i], loaded[i], lines[i])] \in [Item -> LineRow]
    BY <2>1, <2>2, <2>3 DEF CountInv
  <2> QED
    BY <2>2, <2>4, <2>5 DEF CountInv
<1>3. Ends(r)
  BY DEF Commit
<1> QED
  BY <1>2, <1>3, CommitChange, IdleStep, StepOf

LEMMA CountStep == CountInv /\ [Next]_vars => CountInv'
<1> SUFFICES ASSUME CountInv, [Next]_vars PROVE CountInv'
  OBVIOUS
<1>1. CASE UNCHANGED vars
  BY <1>1 DEF vars, CountInv, CountOK, Posting, Past, On
<1>2. ASSUME NEW r \in Request, NEW a \in Act, NEW i \in Item, NEW n \in Fact, StartFacts(r, a, i, n)
      PROVE  CountInv'
  BY <1>2, StartFactsStep
<1>3. ASSUME NEW r \in Request, NEW a \in Act, StartPost(r, a) PROVE CountInv'
  BY <1>3, StartPostStep
<1>4. ASSUME NEW r \in Request, NEW i \in Item, PostItem(r, i) PROVE CountInv'
  BY <1>4, PostItemStep
<1>5. ASSUME NEW r \in Request, FlushLine(r) \/ FlushAct(r) \/ Commit(r) \/ Fail(r) PROVE CountInv'
  BY <1>5, FlushLineStep, FlushActStep, CommitStep, FailStep
<1>6. ASSUME NEW a \in Act, NEW items \in SUBSET Item, CreateCount(a, items) PROVE CountInv'
  BY <1>6, CreateStep
<1>7. ASSUME NEW i \in Item, NEW n \in Moved, Move(i, n) PROVE CountInv'
  BY <1>7, MoveStep
<1> QED
  BY <1>1, <1>2, <1>3, <1>4, <1>5, <1>6, <1>7 DEF Next

\* No step but its commit ends a posting with an effect.
LEMMA PostsByCommit ==
  ASSUME CountInv, Next, NEW r \in Request, NEW a \in Act, Posts(r, a)
  PROVE  Commit(r)
<1>1. At(r, "ready") /\ session'[r] # session[r] /\ ~UNCHANGED <<quantity, act, line>>
  BY DEF Posts, At, Idle
<1>2. ASSUME NEW q \in Request, NEW s, NEW step, To(q, s, step), ~At(q, "ready") PROVE FALSE
  <2>1. q # r
    BY <1>1, <1>2
  <2> QED
    BY <1>1, <1>2, <2>1 DEF To, CountInv
<1>3. ASSUME NEW q \in Request, q # r, Ends(q) PROVE FALSE
  BY <1>1, <1>3 DEF Ends, CountInv
<1>4. ASSUME NEW q \in Request,
             \/ \E b \in Act, i \in Item, n \in Fact : StartFacts(q, b, i, n)
             \/ \E b \in Act : StartPost(q, b)
             \/ \E i \in Item : PostItem(q, i)
             \/ FlushLine(q) \/ FlushAct(q)
      PROVE  FALSE
  <2>1. ~At(q, "ready")
    BY <1>4 DEF StartFacts, StartPost, PostItem, FlushLine, FlushAct, At
  <2>2. PICK s, step : To(q, s, step)
    BY <1>4 DEF StartFacts, StartPost, PostItem, FlushLine, FlushAct
  <2> QED
    BY <1>2, <2>1, <2>2
<1>5. ASSUME NEW q \in Request, Commit(q) PROVE q = r
  BY <1>3, <1>5 DEF Commit
<1>6. ASSUME NEW q \in Request, Fail(q) PROVE FALSE
  BY <1>1, <1>3, <1>6 DEF Fail
<1>7. ASSUME UNCHANGED session PROVE FALSE
  BY <1>1, <1>7
<1> QED
  BY <1>4, <1>5, <1>6, <1>7 DEF Next, CreateCount, Move

\* The events of a posting tell exactly what it changes, whoever else counts or moves the
\* items meanwhile.
THEOREM EventsTellChangeTheorem == Spec => EventsTellChange
<1>1. CountInv /\ [Next]_vars =>
        [\A r \in Request, a \in Act : Posts(r, a) =>
           \A i \in Item : quantity'[i] - quantity[i] = session[r].delta[i]]_vars
  <2> SUFFICES ASSUME CountInv, Next, NEW r \in Request, NEW a \in Act, Posts(r, a)
               PROVE  \A i \in Item : quantity'[i] - quantity[i] = session[r].delta[i]
    OBVIOUS
  <2>1. Commit(r) /\ session[r].call = "post"
    BY PostsByCommit DEF Posts
  <2> QED
    BY <2>1, CommitChange
<1> QED
  BY <1>1, CountInit, CountStep, PTL DEF Spec, EventsTellChange

=============================================================================

------------------------------ MODULE Counting -------------------------------
(***************************************************************************)
(* Inventory counts (services/inventory_counting.py and the routes of      *)
(* api/routes/inventory_counts.py): an act is created over the stock of    *)
(* the moment, facts are entered, the act is posted and what was counted   *)
(* replaces the stored quantities.                                         *)
(*                                                                         *)
(* A request is a session with one READ COMMITTED transaction.  It loads   *)
(* the act and its lines without a lock and works on its copies; a flush   *)
(* locks the rows it writes until the transaction ends, and writes only    *)
(* attributes that differ from what was loaded.  Posting locks each item   *)
(* FOR UPDATE and reads it then.  The count task, history and the slot     *)
(* projection are written along and left out; what posting does to         *)
(* reservations is in ItemReservation.                                     *)
(***************************************************************************)
EXTENDS Integers

CONSTANTS
    Act, Item, Request,
    Nobody,         \* holder of a free lock
    None,           \* no line at work
    NoFact,         \* counted_qty is null
    Shelf,          \* the first quantity of each item
    Fact,           \* quantities that people count
    Moved           \* quantities other handlers leave behind

ASSUME NamesAssumption ==
    /\ Nobody \notin Request /\ None \notin Item /\ NoFact \notin Fact
    /\ Act \cap Item = {} /\ (Act \cup Item) \cap (Act \X Item) = {}
ASSUME StockAssumption ==
    Fact \subseteq Nat /\ Moved \subseteq Nat /\ Shelf \in [Item -> Nat]

VARIABLES
    quantity,   \* item rows
    act,        \* status of the act rows
    line,       \* by act and item the line, if there is one
    lock,       \* who holds the row of an item, an act or a line
    session     \* what each request knows, changed and does next

vars == <<quantity, act, line, lock, session>>

\* A line: what the system had, the fact and the variance.
NoLine  == [on |-> FALSE, system |-> 0, fact |-> NoFact, variance |-> 0]

Row == Item \cup Act \cup (Act \X Item)

Idle == [step |-> "idle"]

Init ==
    /\ quantity = Shelf
    /\ act = [a \in Act |-> "none"]
    /\ line = [a \in Act |-> [i \in Item |-> NoLine]]
    /\ lock = [x \in Row |-> Nobody]
    /\ session = [r \in Request |-> Idle]

-----------------------------------------------------------------------------
(* Sessions *)

At(r, step) == session[r].step = step

\* load_lines
ItemsOf(a) == {i \in Item : line[a][i].on}

\* A session that has loaded act a and its lines.
Loaded(a, call) ==
    [step |-> "loaded", call |-> call, act |-> a,
     loaded |-> line[a], lines |-> line[a],
     todo |-> ItemsOf(a),               \* lines to post
     item |-> None,                     \* the line at work
     written |-> [i \in Item |-> 0],    \* quantities written
     delta |-> [i \in Item |-> 0]]      \* what the events tell of them

To(r, s, step) == session' = [session EXCEPT ![r] = [s EXCEPT !.step = step]]

Takes(r, x) ==
    /\ lock[x] \in {Nobody, r}
    /\ lock' = [lock EXCEPT ![x] = r]

Ends(r) ==
    /\ session' = [session EXCEPT ![r] = Idle]
    /\ lock' = [x \in Row |-> IF lock[x] = r THEN Nobody ELSE lock[x]]

\* An error, a deadlock or a lost connection: session.rollback.
Fail(r) == ~At(r, "idle") /\ Ends(r) /\ UNCHANGED <<quantity, act, line>>

\* What a session leaves of a line: the attributes it changed.
Merged(stored, loaded, new) ==
    [on       |-> stored.on,
     system   |-> IF new.system   # loaded.system   THEN new.system   ELSE stored.system,
     fact     |-> IF new.fact     # loaded.fact     THEN new.fact     ELSE stored.fact,
     variance |-> IF new.variance # loaded.variance THEN new.variance ELSE stored.variance]

-----------------------------------------------------------------------------
(* Requests *)

\* create_count: a draft over the quantities of the moment.
CreateCount(a, items) ==
    /\ act[a] = "none" /\ items # {}
    /\ act' = [act EXCEPT ![a] = "draft"]
    /\ line' = [line EXCEPT ![a] =
          [i \in Item |-> IF i \in items
                          THEN [NoLine EXCEPT !.on = TRUE, !.system = quantity[i]]
                          ELSE NoLine]]
    /\ UNCHANGED <<quantity, lock, session>>

\* enter_facts refuses a posted act; the variance is against the quantity at the
\* creation of the act.
StartFacts(r, a, i, n) ==
    LET s == Loaded(a, "facts")
    IN  /\ At(r, "idle") /\ act[a] = "draft" /\ i \in ItemsOf(a)
        /\ To(r, [s EXCEPT !.lines[i].fact = n,
                           !.lines[i].variance = n - s.lines[i].system,
                           !.item = i], "act")
        /\ UNCHANGED <<quantity, act, line, lock>>

\* post_act answers "idempotent" for a posted act and 409 where a fact is missing.
StartPost(r, a) ==
    /\ At(r, "idle") /\ act[a] = "draft"
    /\ \A i \in ItemsOf(a) : line[a][i].fact # NoFact
    /\ To(r, Loaded(a, "post"), "loaded")
    /\ UNCHANGED <<quantity, act, line, lock>>

\* Mutant: the item is read without FOR UPDATE.
ItemFreeAlways(r, i) == UNCHANGED lock

\* The row lock of SELECT ... FOR UPDATE.
LockItem(r, i) == Takes(r, i)

\* post_act takes the next item, writes the fact over its quantity and keeps the
\* difference in the line and in the events.
PostItem(r, i) ==
    LET s       == session[r]
        counted == s.loaded[i].fact
        delta   == counted - quantity[i]
    IN  /\ At(r, "loaded") /\ i \in s.todo
        /\ LockItem(r, i)
        /\ To(r, [s EXCEPT !.item = i, !.todo = @ \ {i},
                           !.lines[i].system = quantity[i], !.lines[i].variance = delta,
                           !.written[i] = counted, !.delta[i] = delta], "line")
        /\ UNCHANGED <<quantity, act, line>>

\* The flush of a line; facts are the last of their session.
FlushLine(r) ==
    LET s == session[r]
    IN  /\ At(r, "line")
        /\ Takes(r, <<s.act, s.item>>)
        /\ To(r, s, IF s.call = "facts" THEN "ready" ELSE IF s.todo = {} THEN "act" ELSE "loaded")
        /\ UNCHANGED <<quantity, act, line>>

\* The flush of the act: before the line where facts are entered, after all of
\* them where the act is posted.
FlushAct(r) ==
    LET s == session[r]
    IN  /\ At(r, "act")
        /\ Takes(r, s.act)
        /\ To(r, s, IF s.call = "facts" THEN "line" ELSE "ready")
        /\ UNCHANGED <<quantity, act, line>>

\* session.commit
Commit(r) ==
    LET s     == session[r]
        posts == s.call = "post"
        items == {i \in Item : s.loaded[i].on}
    IN  /\ At(r, "ready")
        /\ line' = [line EXCEPT ![s.act] =
              [i \in Item |-> Merged(@[i], s.loaded[i], s.lines[i])]]
        /\ act' = IF posts THEN [act EXCEPT ![s.act] = "posted"] ELSE act
        /\ quantity' = IF posts THEN [i \in Item |-> IF i \in items THEN s.written[i] ELSE quantity[i]]
                                ELSE quantity
        /\ Ends(r)

\* Picks, receipts and edits of an item.
Move(i, n) ==
    /\ lock[i] = Nobody
    /\ quantity' = [quantity EXCEPT ![i] = n]
    /\ UNCHANGED <<act, line, lock, session>>

Next ==
    \/ \E r \in Request :
          \/ \E a \in Act, i \in Item, n \in Fact : StartFacts(r, a, i, n)
          \/ \E a \in Act : StartPost(r, a)
          \/ \E i \in Item : PostItem(r, i)
          \/ FlushLine(r) \/ FlushAct(r) \/ Commit(r) \/ Fail(r)
    \/ \E a \in Act, items \in SUBSET Item : CreateCount(a, items)
    \/ \E i \in Item, n \in Moved : Move(i, n)

Spec == Init /\ [][Next]_vars

-----------------------------------------------------------------------------
(* Properties *)

\* A session that posts act a ends now, and not without effect.
Posts(r, a) ==
    /\ At(r, "ready") /\ session[r].call = "post" /\ session[r].act = a
    /\ session'[r] = Idle /\ ~UNCHANGED <<quantity, act, line>>

\* The events of a posting tell exactly what it changes: whoever else moves or
\* counts the items meanwhile, no movement falls between the quantity they are
\* computed from and the one they replace.
EventsTellChange ==
    [][\A r \in Request, a \in Act : Posts(r, a) =>
          \A i \in Item : quantity'[i] - quantity[i] = session[r].delta[i]]_vars

\* What post_act says of itself: posting a posted act again changes nothing.
RepostIsIdempotent ==
    [][\A r \in Request, a \in Act : Posts(r, a) => act[a] # "posted"]_vars

\* What enter_facts says when it refuses: the facts of a posted act stay.
PostedFactsFrozen ==
    [][\A a \in Act : act[a] = "posted" =>
          \A i \in Item : line'[a][i].fact = line[a][i].fact]_vars

=============================================================================

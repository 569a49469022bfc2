-------------------------- MODULE OperatorTerminal --------------------------
(***************************************************************************)
(* The picking terminal of an operator (frontend/src): the scan dialog     *)
(* (components/warehouse/OperatorTaskScanDialog.tsx), the list it opens    *)
(* from (OperatorMyTasksList.tsx) and the queue of confirmations that      *)
(* could not be sent, kept in localStorage (lib/operatorPickQueue.ts,      *)
(* hooks/useOperatorPickQueue.ts).                                         *)
(*                                                                         *)
(* A pick waits in the queue under the number it was enqueued with.  The   *)
(* array is always sorted by it, so a set of numbers stands for it; what a *)
(* pick says, no step of the queue looks at.  The server may accept or     *)
(* refuse any request (confirm_pick, see Outbound), the network may fail.  *)
(* Nothing keeps two flushes from running at once (the "online" event, the *)
(* button, the page opened again), nor a call of the dialog from outliving *)
(* the dialog that made it.                                                *)
(***************************************************************************)
EXTENDS Integers

CONSTANTS
    Flusher,    \* runs of flushOperatorPickQueue that may overlap
    Call,       \* runs of submitPick that may overlap
    MaxPicks    \* bound: picks put in the queue

ASSUME BoundAssumption == MaxPicks \in Nat

Number == 1 .. MaxPicks

VARIABLES
    online,    \* navigator.onLine
    screen,    \* the dialog: its step, whether the slot was scanned, loading
    call,      \* runs of submitPick that wait for an answer
    queue,     \* localStorage: the picks not sent yet
    flush,     \* the picks each flush has still to send, {} when it does not run
    picks,
    \* history: picks enqueued while no flush ran, and picks accepted and refused in a flush
    quiet, acked, refused

page  == <<screen, call>>
marks == <<quiet, acked, refused>>
vars  == <<online, page, queue, flush, picks, marks>>

-----------------------------------------------------------------------------
(* The queue                                                               *)

\* The head of a queue is the pick enqueued first.
IsHead(n, S) == n \in S /\ \A k \in S : n <= k

NoFlush == \A f \in Flusher : flush[f] = {}

\* enqueueOperatorPick: the pick goes behind what localStorage holds now.
Enqueue ==
    /\ picks < MaxPicks
    /\ picks' = picks + 1
    /\ queue' = queue \cup {picks + 1}
    /\ quiet' = IF NoFlush THEN quiet \cup {picks + 1} ELSE quiet

\* Mutant: the pick that failed is dropped like those that were sent.
WriteBackTail(left, n) == left \ {n}

\* What a flush writes back when it stops at n: n and the picks behind it.
WriteBack(left, n) == left

\* Mutant: the flush skips a pick.
RestSkipping(left, n) == {k \in left : k > n + 1}

\* What a flush has to send once n was accepted.
Rest(left, n) == left \ {n}

-----------------------------------------------------------------------------
(* The dialog                                                              *)

Closed == [step |-> "closed", slot |-> "no", loading |-> FALSE]

\* Mutant: reset() forgets the flag of the request that is on its way.
OpenedLoading == [step |-> "slot", slot |-> "no", loading |-> screen.loading]

\* reset() when a task is opened.
Opened == [step |-> "slot", slot |-> "no", loading |-> FALSE]

NoCall == [outcome |-> "none", own |-> FALSE]

\* Calls of a dialog that is closed, or opened for another task, are not the screen's own.
Disowned == [c \in Call |-> [call[c] EXCEPT !.own = FALSE]]

Init ==
    /\ online \in BOOLEAN
    /\ screen = Closed
    /\ call   = [c \in Call |-> NoCall]
    /\ queue  = {}
    /\ flush  = [f \in Flusher |-> {}]
    /\ picks  = 0
    /\ quiet  = {} /\ acked = {} /\ refused = {}

Show(s) ==
    /\ screen' = s
    /\ UNCHANGED <<online, call, queue, flush, picks, marks>>

\* "Отсканировать", or the jump to the next task 120 ms after a confirmed one, which takes
\* an open dialog away from its task.  The dialog is reset.
OpenScan ==
    /\ screen' = Opened
    /\ call' = Disowned
    /\ UNCHANGED <<online, queue, flush, picks, marks>>

\* Escape or a click beside the dialog, whether a request is on its way or not.
CloseScan ==
    /\ screen # Closed
    /\ screen' = Closed
    /\ call' = Disowned
    /\ UNCHANGED <<online, queue, flush, picks, marks>>

\* Mutant: a slot that does not match is let through.
GoItemUnscanned ==
    /\ screen.step = "slot" /\ ~screen.loading
    /\ Show([screen EXCEPT !.step = "item"])

GoItemFromSlot ==
    /\ screen.step = "slot" /\ ~screen.loading
    /\ Show([screen EXCEPT !.step = "item", !.slot = "scanned"])

GoQtyFromItem ==
    /\ screen.step = "item" /\ ~screen.loading
    /\ Show([screen EXCEPT !.step = "qty"])

GoConfirmFromQty ==
    /\ screen.step = "qty" /\ ~screen.loading
    /\ Show([screen EXCEPT !.step = "confirm"])

GoBack ==
    /\ ~screen.loading
    /\ \/ screen.step \in {"item", "incident"} /\ Show([screen EXCEPT !.step = "slot"])
       \/ screen.step = "qty"     /\ Show([screen EXCEPT !.step = "item"])
       \/ screen.step = "confirm" /\ Show([screen EXCEPT !.step = "qty"])

\* From the first step, or below the message of a mismatch at any step.
GoIncident ==
    /\ screen.step \notin {"closed", "incident"}
    /\ Show([screen EXCEPT !.step = "incident"])

Submitting == screen.step \in {"confirm", "incident"} /\ ~screen.loading

\* confirmOk or confirmNoStock: offline, submitPick keeps the pick and is done.
SubmitOffline ==
    /\ Submitting
    /\ ~online
    /\ Enqueue
    /\ screen' = Closed
    /\ call' = Disowned
    /\ UNCHANGED <<online, flush, acked, refused>>

Submit(c) ==
    /\ Submitting
    /\ online
    /\ call[c] = NoCall
    /\ call' = [call EXCEPT ![c] =
                   [outcome |-> IF screen.step = "confirm" THEN "ok" ELSE "no_stock", own |-> TRUE]]
    /\ screen' = [screen EXCEPT !.loading = TRUE]
    /\ UNCHANGED <<online, queue, flush, picks, marks>>

\* The pick was accepted: the dialog on the screen is closed, whichever it is.
CallAccepted(c) ==
    /\ call[c] # NoCall
    /\ screen' = Closed
    /\ call' = [Disowned EXCEPT ![c] = NoCall]
    /\ UNCHANGED <<online, queue, flush, picks, marks>>

\* The step confirmOk sets when the scan is refused (404, 409): back to the item.  On the
\* screen there may be another dialog by now, whose slot was not scanned.
Returned ==
    [screen EXCEPT !.loading = FALSE, !.step = "item",
                   !.slot = IF @ = "no" THEN "skipped" ELSE @]

\* A 4xx: the message is shown in the dialog on the screen.
CallRefused(c) ==
    /\ call[c] # NoCall
    /\ call' = [call EXCEPT ![c] = NoCall]
    /\ \/ screen' = [screen EXCEPT !.loading = FALSE]
       \/ call[c].outcome = "ok" /\ screen # Closed /\ screen' = Returned
    /\ UNCHANGED <<online, queue, flush, picks, marks>>

\* The network fails or a 5xx comes: submitPick keeps the pick, confirmed or not.
CallFails(c) ==
    /\ call[c] # NoCall
    /\ Enqueue
    /\ screen' = Closed
    /\ call' = [Disowned EXCEPT ![c] = NoCall]
    /\ UNCHANGED <<online, flush, acked, refused>>

-----------------------------------------------------------------------------
(* Flushes                                                                 *)

\* Mutant: the flush takes the queue out of localStorage while it sends it.
StartFlushEmptying(f) ==
    /\ online
    /\ flush[f] = {}
    /\ queue # {}
    /\ flush' = [flush EXCEPT ![f] = queue]
    /\ queue' = {}
    /\ UNCHANGED <<online, page, picks, marks>>

\* The page opens, the "online" event fires or the button is pressed: the flush reads the
\* queue and sends its head.
StartFlush(f) ==
    /\ online
    /\ flush[f] = {}
    /\ queue # {}
    /\ flush' = [flush EXCEPT ![f] = queue]
    /\ UNCHANGED <<online, page, queue, picks, marks>>

\* The head was accepted: the next pick is sent, or an empty queue is written.
FlushAccepted(f, n) ==
    /\ IsHead(n, flush[f])
    /\ acked' = acked \cup {n}
    /\ flush' = [flush EXCEPT ![f] = Rest(@, n)]
    /\ queue' = IF Rest(flush[f], n) = {} THEN {} ELSE queue
    /\ UNCHANGED <<online, page, picks, quiet, refused>>

\* The first error stops the flush: what it has not sent is written back.
FlushStops(f, n) ==
    /\ IsHead(n, flush[f])
    /\ queue' = WriteBack(flush[f], n)
    /\ flush' = [flush EXCEPT ![f] = {}]
    /\ UNCHANGED <<online, page, picks, quiet, acked>>

FlushRefused(f, n) == FlushStops(f, n) /\ refused' = refused \cup {n}
FlushFails(f, n)   == FlushStops(f, n) /\ refused' = refused

-----------------------------------------------------------------------------
(* The page and the network                                                *)

GoOnline ==
    /\ ~online
    /\ online' = TRUE
    /\ UNCHANGED <<page, queue, flush, picks, marks>>

GoOffline ==
    /\ online
    /\ online' = FALSE
    /\ UNCHANGED <<page, queue, flush, picks, marks>>

\* The page is closed or reloaded: localStorage stays.
Reload ==
    /\ screen' = Closed
    /\ call' = [c \in Call |-> NoCall]
    /\ flush' = [f \in Flusher |-> {}]
    /\ UNCHANGED <<online, queue, picks, marks>>

Next ==
    \/ OpenScan \/ CloseScan \/ GoItemFromSlot \/ GoQtyFromItem \/ GoConfirmFromQty
    \/ GoBack \/ GoIncident \/ SubmitOffline
    \/ \E c \in Call : Submit(c) \/ CallAccepted(c) \/ CallRefused(c) \/ CallFails(c)
    \/ \E f \in Flusher : StartFlush(f)
    \/ \E f \in Flusher, n \in Number :
          FlushAccepted(f, n) \/ FlushRefused(f, n) \/ FlushFails(f, n)
    \/ GoOnline \/ GoOffline \/ Reload

\* The operator comes back into coverage; while the list shows picks not sent, the page is
\* opened again or the button pressed; and a pick sent again and again gets an answer.
Fairness ==
    /\ WF_vars(GoOnline)
    /\ \A f \in Flusher : SF_vars(StartFlush(f))
    /\ \A f \in Flusher, n \in Number : SF_vars(FlushAccepted(f, n) \/ FlushRefused(f, n))

Spec     == Init /\ [][Next]_vars
FairSpec == Spec /\ Fairness

-----------------------------------------------------------------------------
(* Properties                                                              *)

\* What the page and localStorage hold is well formed: the types the code declares, and a
\* dialog that waits only where it submits, so that nobody is locked out of a scan by the
\* request of another task.
TypeOK ==
    /\ online \in BOOLEAN
    /\ screen \in [step : {"closed", "slot", "item", "qty", "confirm", "incident"},
                   slot : {"no", "scanned", "skipped"}, loading : BOOLEAN]
    /\ screen.loading => screen.step \in {"confirm", "incident"}
    /\ call \in [Call -> [outcome : {"none", "ok", "no_stock"}, own : BOOLEAN]]
    /\ picks \in 0 .. MaxPicks
    /\ queue \subseteq 1 .. picks
    /\ flush \in [Flusher -> SUBSET (1 .. picks)]
    /\ quiet \subseteq 1 .. picks /\ acked \subseteq 1 .. picks /\ refused \subseteq 1 .. picks

\* A pick enqueued while no flush was running stays in localStorage until a flush has got it
\* accepted, through failures, overlapping flushes, reloads and late answers: what a flush
\* writes at its end goes back to the queue it read at its start (flushOperatorPickQueue).
KeptUntilSent == quiet \subseteq queue \cup acked

\* "Sends the queue in order; on an error it stops (keeps the order)": a flush sends a pick
\* only when every pick that was enqueued before it, with no flush running, was accepted.
SentInOrder ==
    \A f \in Flusher, n \in Number :
        IsHead(n, flush[f]) => {k \in quiet : k < n} \subseteq acked

\* A step of the dialog's own call, or of no call at all, never brings it past the slot
\* before the slot was scanned; only a late refusal of another dialog's call does.
SlotIsScanned ==
    [][(screen'.slot = "skipped" /\ screen.slot # "skipped")
         => \E c \in Call : call[c] # NoCall /\ ~call[c].own /\ call'[c] = NoCall]_vars

\* A pick enqueued while no flush was running is accepted in the end, unless it or a pick
\* before it is refused: a refused pick stays at the head and stops every flush.
QueuedIsSent ==
    \A n \in Number : n \in quiet ~> n \in acked \/ \E r \in refused : r <= n

\* Not true of the code: every pick put in the queue is kept until it is sent.  The operator
\* is told "saved, will be sent later" (OperatorMyTasksList.tsx:116) for a pick that a flush
\* in progress then overwrites.
EveryPickKept == 1 .. picks \subseteq queue \cup acked

=============================================================================

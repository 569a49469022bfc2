----------------------- MODULE OperatorTerminalProofs -----------------------
(***************************************************************************)
(* Proofs about OperatorTerminal, for any number of picks, of overlapping  *)
(* flushes and of overlapping calls of the dialog.                         *)
(***************************************************************************)
EXTENDS OperatorTerminal, TLAPS

\* What a running flush read contains every quiet pick that is not accepted yet: a pick is
\* quiet only if no flush was running when it was enqueued.
FlushHoldsQuiet == \A f \in Flusher : flush[f] # {} => quiet \subseteq flush[f] \cup acked

\* The dialog is past the slot only with a scanned slot, or one a late refusal skipped.
ConfirmIsScanned == screen.step \in {"item", "qty", "confirm"} => screen.slot # "no"

\* A call of the dialog on the screen was made after its slot was scanned.
OwnIsScanned == \A c \in Call : call[c].own /\ call[c].outcome = "ok" => screen.slot # "no"

QueueInv  == TypeOK /\ KeptUntilSent /\ FlushHoldsQuiet
ScreenInv == TypeOK /\ ConfirmIsScanned /\ OwnIsScanned

-----------------------------------------------------------------------------
(* Types                                                                   *)

LEMMA TypeInit == Init => TypeOK
BY BoundAssumption DEF Init, TypeOK, Closed, NoCall

LEMMA OpenedType ==
    /\ Opened \in [step : {"closed", "slot", "item", "qty", "confirm", "incident"},
                   slot : {"no", "scanned", "skipped"}, loading : BOOLEAN]
    /\ Closed \in [step : {"closed", "slot", "item", "qty", "confirm", "incident"},
                   slot : {"no", "scanned", "skipped"}, loading : BOOLEAN]
    /\ ~Opened.loading /\ ~Closed.loading
BY DEF Opened, Closed

LEMMA DisownedType ==
    ASSUME TypeOK
    PROVE  /\ Disowned \in [Call -> [outcome : {"none", "ok", "no_stock"}, own : BOOLEAN]]
           /\ \A c \in Call : Disowned[c].own = FALSE /\ Disowned[c].outcome = call[c].outcome
BY DEF TypeOK, Disowned

LEMMA EnqueueType ==
    ASSUME TypeOK, Enqueue
    PROVE  /\ picks' \in 0 .. MaxPicks /\ picks < picks'
           /\ queue' \subseteq 1 .. picks' /\ quiet' \subseteq 1 .. picks'
           /\ 1 .. picks \subseteq 1 .. picks'
BY BoundAssumption DEF TypeOK, Enqueue

LEMMA TypeStep == TypeOK /\ [Next]_vars => TypeOK'
<1> SUFFICES ASSUME TypeOK, [Next]_vars PROVE TypeOK'
    OBVIOUS
<1> USE OpenedType, DisownedType
<1>1. CASE OpenScan
    BY <1>1 DEF OpenScan, TypeOK, marks
<1>2. CASE CloseScan
    BY <1>2 DEF CloseScan, TypeOK, marks
<1>3. CASE GoItemFromSlot \/ GoQtyFromItem \/ GoConfirmFromQty \/ GoBack \/ GoIncident
    BY <1>3 DEF GoItemFromSlot, GoQtyFromItem, GoConfirmFromQty, GoBack, GoIncident, Show,
                TypeOK, marks
<1>4. CASE SubmitOffline
    BY <1>4, EnqueueType DEF SubmitOffline, TypeOK
<1>5. ASSUME NEW c \in Call, Submit(c) PROVE TypeOK'
    BY <1>5 DEF Submit, Submitting, TypeOK, marks
<1>6. ASSUME NEW c \in Call, CallAccepted(c) PROVE TypeOK'
    BY <1>6 DEF CallAccepted, TypeOK, marks, NoCall
<1>7. ASSUME NEW c \in Call, CallRefused(c) PROVE TypeOK'
    BY <1>7 DEF CallRefused, Returned, TypeOK, marks, NoCall
<1>8. ASSUME NEW c \in Call, CallFails(c) PROVE TypeOK'
    BY <1>8, EnqueueType DEF CallFails, TypeOK, NoCall
<1>9. ASSUME NEW f \in Flusher, StartFlush(f) PROVE TypeOK'
    BY <1>9 DEF StartFlush, TypeOK, marks, page
<1>10. ASSUME NEW f \in Flusher, NEW n \in Number, FlushAccepted(f, n) PROVE TypeOK'
    BY <1>10 DEF FlushAccepted, Rest, IsHead, TypeOK, page
<1>11. ASSUME NEW f \in Flusher, NEW n \in Number, FlushRefused(f, n) \/ FlushFails(f, n)
       PROVE  TypeOK'
    BY <1>11 DEF FlushRefused, FlushFails, FlushStops, WriteBack, IsHead, TypeOK, page
<1>12. CASE GoOnline \/ GoOffline
    BY <1>12 DEF GoOnline, GoOffline, TypeOK, marks, page
<1>13. CASE Reload
    BY <1>13 DEF Reload, TypeOK, marks, NoCall
<1>14. CASE UNCHANGED vars
    BY <1>14 DEF vars, TypeOK, marks, page
<1> QED
    BY <1>1, <1>2, <1>3, <1>4, <1>5, <1>6, <1>7, <1>8, <1>9, <1>10, <1>11, <1>12, <1>13, <1>14
    DEF Next

\* The page, localStorage and the flushes stay well formed.
THEOREM TypeTheorem == Spec => []TypeOK
BY TypeInit, TypeStep, PTL DEF Spec

-----------------------------------------------------------------------------
(* The queue                                                               *)

LEMMA QueueInit == Init => QueueInv
BY TypeInit DEF Init, QueueInv, KeptUntilSent, FlushHoldsQuiet

\* A pick is enqueued behind what localStorage holds, and is quiet only without flushes.
LEMMA EnqueueKeeps ==
    ASSUME QueueInv, Enqueue, flush' = flush, acked' = acked
    PROVE  (KeptUntilSent /\ FlushHoldsQuiet)'
BY DEF QueueInv, TypeOK, Enqueue, KeptUntilSent, FlushHoldsQuiet, NoFlush

LEMMA QueueStep == QueueInv /\ [Next]_vars => QueueInv'
<1> SUFFICES ASSUME QueueInv, [Next]_vars PROVE (KeptUntilSent /\ FlushHoldsQuiet)'
    BY TypeStep DEF QueueInv
<1>1. CASE UNCHANGED <<queue, flush, quiet, acked>>
    BY <1>1 DEF QueueInv, KeptUntilSent, FlushHoldsQuiet
<1>2. CASE SubmitOffline \/ \E c \in Call : CallFails(c)
    BY <1>2, EnqueueKeeps DEF SubmitOffline, CallFails
<1>3. ASSUME NEW f \in Flusher, StartFlush(f) PROVE (KeptUntilSent /\ FlushHoldsQuiet)'
    BY <1>3 DEF StartFlush, QueueInv, TypeOK, KeptUntilSent, FlushHoldsQuiet, marks
<1>4. ASSUME NEW f \in Flusher, NEW n \in Number, FlushAccepted(f, n)
      PROVE  (KeptUntilSent /\ FlushHoldsQuiet)'
    <2> USE <1>4 DEF FlushAccepted, IsHead, Rest, QueueInv, TypeOK
    <2>1. FlushHoldsQuiet'
        BY DEF FlushHoldsQuiet
    <2>2. CASE flush[f] \ {n} = {}
        <3>1. quiet \subseteq {n} \cup acked
            BY <2>2 DEF FlushHoldsQuiet
        <3> QED
            BY <2>1, <3>1 DEF KeptUntilSent
    <2>3. CASE flush[f] \ {n} # {}
        BY <2>1, <2>3 DEF KeptUntilSent
    <2> QED
        BY <2>2, <2>3
<1>5. ASSUME NEW f \in Flusher, NEW n \in Number, FlushRefused(f, n) \/ FlushFails(f, n)
      PROVE  (KeptUntilSent /\ FlushHoldsQuiet)'
    BY <1>5 DEF FlushRefused, FlushFails, FlushStops, WriteBack, IsHead, QueueInv, TypeOK,
                KeptUntilSent, FlushHoldsQuiet
<1>6. CASE Reload
    BY <1>6 DEF Reload, QueueInv, KeptUntilSent, FlushHoldsQuiet, marks
<1> QED
    BY <1>1, <1>2, <1>3, <1>4, <1>5, <1>6
    DEF Next, OpenScan, CloseScan, GoItemFromSlot, GoQtyFromItem, GoConfirmFromQty, GoBack,
        GoIncident, Show, Submit, CallAccepted, CallRefused, GoOnline, GoOffline, vars, page, marks

\* A quiet pick stays in localStorage until it was accepted, whatever flushes overlap.
THEOREM KeptTheorem == Spec => []KeptUntilSent
<1>1. QueueInv => KeptUntilSent
    BY DEF QueueInv
<1> QED
    BY <1>1, QueueInit, QueueStep, PTL DEF Spec

LEMMA QueueInOrder == QueueInv => SentInOrder
<1> SUFFICES ASSUME QueueInv, NEW f \in Flusher, NEW n \in Number, IsHead(n, flush[f]),
                    NEW k \in quiet, k < n, k \notin acked
             PROVE  FALSE
    BY DEF SentInOrder
<1>1. k \in flush[f]
    BY DEF QueueInv, FlushHoldsQuiet, IsHead
<1>2. n <= k /\ n \in Int /\ k \in Int
    BY <1>1 DEF IsHead, Number, QueueInv, TypeOK
<1> QED
    BY <1>2

\* A flush sends a pick only after the quiet picks in front of it were accepted.
THEOREM OrderTheorem == Spec => []SentInOrder
BY QueueInit, QueueStep, QueueInOrder, PTL DEF Spec

-----------------------------------------------------------------------------
(* The dialog                                                              *)

LEMMA ScreenInit == Init => ScreenInv
BY TypeInit DEF Init, ScreenInv, ConfirmIsScanned, OwnIsScanned, Closed, NoCall

LEMMA ScreenStep == ScreenInv /\ [Next]_vars => ScreenInv'
<1> SUFFICES ASSUME ScreenInv, [Next]_vars PROVE (ConfirmIsScanned /\ OwnIsScanned)'
    BY TypeStep DEF ScreenInv
<1>0. \A c \in Call : Disowned[c].own = FALSE /\ c \in DOMAIN Disowned
    BY DisownedType DEF ScreenInv
<1> USE DEF ScreenInv, ConfirmIsScanned, OwnIsScanned
<1>1. CASE UNCHANGED page
    BY <1>1 DEF page
<1>2. CASE OpenScan \/ CloseScan \/ SubmitOffline
    <2>1. call' = Disowned /\ (screen' = Opened \/ screen' = Closed)
        BY <1>2 DEF OpenScan, CloseScan, SubmitOffline
    <2>2. OwnIsScanned'
        BY <1>0, <2>1
    <2> QED
        BY <2>1, <2>2 DEF Opened, Closed
<1>3. CASE GoItemFromSlot \/ GoQtyFromItem \/ GoConfirmFromQty \/ GoBack \/ GoIncident
    BY <1>3 DEF GoItemFromSlot, GoQtyFromItem, GoConfirmFromQty, GoBack, GoIncident, Show, TypeOK
<1>4. ASSUME NEW c \in Call, Submit(c) PROVE (ConfirmIsScanned /\ OwnIsScanned)'
    BY <1>4 DEF Submit, Submitting, TypeOK
<1>5. ASSUME NEW c \in Call, CallAccepted(c) \/ CallFails(c)
      PROVE  (ConfirmIsScanned /\ OwnIsScanned)'
    <2>1. screen' = Closed /\ call' = [Disowned EXCEPT ![c] = NoCall]
        BY <1>5 DEF CallAccepted, CallFails
    <2>2. \A d \in Call : call'[d].own = FALSE
        BY <1>0, <2>1 DEF NoCall
    <2> QED
        BY <2>1, <2>2 DEF Closed
<1>6. ASSUME NEW c \in Call, CallRefused(c) PROVE (ConfirmIsScanned /\ OwnIsScanned)'
    BY <1>6 DEF CallRefused, Returned, TypeOK, NoCall
<1>7. CASE Reload
    BY <1>7 DEF Reload, Closed, NoCall
<1> QED
    BY <1>1, <1>2, <1>3, <1>4, <1>5, <1>6, <1>7
    DEF Next, StartFlush, FlushAccepted, FlushRefused, FlushFails, FlushStops, GoOnline, GoOffline,
        vars, page

LEMMA SkipStep ==
    ASSUME ScreenInv, [Next]_vars, screen'.slot = "skipped", screen.slot # "skipped"
    PROVE  \E c \in Call : call[c] # NoCall /\ ~call[c].own /\ call'[c] = NoCall
<1>1. ~ UNCHANGED screen
    OBVIOUS
<1>2. ~ (OpenScan \/ CloseScan \/ SubmitOffline \/ Reload)
    BY DEF OpenScan, CloseScan, SubmitOffline, Reload, Opened, Closed
<1>3. ~ (GoItemFromSlot \/ GoQtyFromItem \/ GoConfirmFromQty \/ GoBack \/ GoIncident)
    BY DEF GoItemFromSlot, GoQtyFromItem, GoConfirmFromQty, GoBack, GoIncident, Show, ScreenInv,
           TypeOK
<1>4. \A c \in Call : ~ (Submit(c) \/ CallAccepted(c) \/ CallFails(c))
    BY DEF Submit, CallAccepted, CallFails, Closed, ScreenInv, TypeOK
<1>5. PICK c \in Call : CallRefused(c)
    BY <1>1, <1>2, <1>3, <1>4
    DEF Next, StartFlush, FlushAccepted, FlushRefused, FlushFails, FlushStops, GoOnline, GoOffline,
        vars, page
<1>6. screen.slot = "no" /\ call[c].outcome = "ok"
    BY <1>5 DEF CallRefused, Returned, ScreenInv, TypeOK
<1>7. ~ call[c].own
    BY <1>6 DEF ScreenInv, OwnIsScanned
<1> QED
    BY <1>5, <1>7 DEF CallRefused, ScreenInv, TypeOK

\* Only a late refusal of another dialog's call takes a dialog past an unscanned slot.
THEOREM SkipTheorem == Spec => SlotIsScanned
<1>1. ScreenInv /\ [Next]_vars
        => [(screen'.slot = "skipped" /\ screen.slot # "skipped")
              => \E c \in Call : call[c] # NoCall /\ ~call[c].own /\ call'[c] = NoCall]_vars
    BY SkipStep
<1> QED
    BY <1>1, ScreenInit, ScreenStep, PTL DEF Spec, SlotIsScanned

=============================================================================

----------------------------- MODULE StockProofs -----------------------------
(***************************************************************************)
(* What is proved of the ledger, for every set of items, tasks, orders and *)
(* requests and every shelf, in five parts:                                *)
(*  - the lemmas about the ledger that every handler's proof needs: how a  *)
(*    sum over tasks changes when one task, or a set of new tasks, changes;*)
(*    and that each operation of the service keeps the ledger laws;        *)
(*  - the reservation service, and the other writers of item rows;         *)
(*  - the service as transactions interleave it: what requests lock, and   *)
(*    what they may take off an item that is only picked from;             *)
(*  - outbound orders over the ledger, whatever users write into orders    *)
(*    and tasks.  The ledger laws are not inductive there alone: planning  *)
(*    reserves for tasks it takes to be new, so one also has to know that  *)
(*    a task that does not exist has no reservation row;                   *)
(*  - overlapping requests about one order: its counters and its status.   *)
(***************************************************************************)
EXTENDS ItemReservation, ReservationTx, Outbound, OutboundTx, FiniteSetTheorems, TLAPS

-----------------------------------------------------------------------------
(* Sums *)

\* The units of finitely many tasks are finitely many, so sums are naturals.
LEMMA TotalType ==
  ASSUME NEW S, IsFiniteSet(S), NEW f \in [S -> Nat], NEW T \in SUBSET S
  PROVE  IsFiniteSet(Units(f, T)) /\ Total(f, T) \in Nat
<1> DEFINE Part(t) == {t} \X (1 .. f[t])
           Parts   == {Part(t) : t \in T}
           g       == [t \in T |-> Part(t)]
<1>1. IsFiniteSet(T)
  BY FS_Subset
<1>2. g \in Surjection(T, Parts)
  BY DEF Surjection
<1>3. IsFiniteSet(Parts)
  BY <1>1, <1>2, FS_Surjection
<1>4. ASSUME NEW t \in T PROVE IsFiniteSet(Part(t))
  <2>1. IsFiniteSet({t})
    BY FS_Singleton
  <2>2. IsFiniteSet(1 .. f[t])
    BY FS_Interval
  <2> QED
    BY <2>1, <2>2, FS_Product
<1>5. IsFiniteSet(UNION Parts)
  BY <1>3, <1>4, FS_UNION
<1>6. Units(f, T) = UNION Parts
  BY DEF Units
<1> QED
  BY <1>5, <1>6, FS_CardinalityType DEF Total

\* A sum over no task is zero.
LEMMA TotalEmpty ==
  ASSUME NEW f
  PROVE  Total(f, {}) = 0
<1>1. Units(f, {}) = {}
  BY DEF Units
<1> QED
  BY <1>1, FS_EmptySet DEF Total

\* A sum over one task is its quantity.
LEMMA TotalSingleton ==
  ASSUME NEW f, NEW t, f[t] \in Nat
  PROVE  Total(f, {t}) = f[t]
<1>1. Units(f, {t}) = {t} \X (1 .. f[t])
  BY DEF Units
<1>2. IsFiniteSet({t}) /\ Cardinality({t}) = 1
  BY FS_Singleton
<1>3. IsFiniteSet(1 .. f[t]) /\ Cardinality(1 .. f[t]) = f[t]
  <2> DEFINE n == f[t]
  <2>0. n \in Int /\ 1 \in Int
    OBVIOUS
  <2> HIDE DEF n
  <2>1. IsFiniteSet(1 .. n) /\ Cardinality(1 .. n) = IF 1 > n THEN 0 ELSE n - 1 + 1
    BY <2>0, FS_Interval
  <2> QED
    BY <2>1 DEF n
<1>4. ASSUME NEW A, NEW B, IsFiniteSet(A), IsFiniteSet(B)
      PROVE  Cardinality(A \X B) = Cardinality(A) * Cardinality(B)
  BY <1>4, FS_Product
<1>5. Cardinality({t} \X (1 .. f[t])) = 1 * f[t]
  BY <1>2, <1>3, <1>4
<1> QED
  BY <1>1, <1>5 DEF Total

\* Sums over disjoint sets of tasks add up.
LEMMA TotalUnion ==
  ASSUME NEW S, IsFiniteSet(S), NEW f \in [S -> Nat],
         NEW T \in SUBSET S, NEW U \in SUBSET S, T \cap U = {}
  PROVE  Total(f, T \cup U) = Total(f, T) + Total(f, U)
<1>1. Units(f, T \cup U) = Units(f, T) \cup Units(f, U)
  BY DEF Units
<1>2. Units(f, T) \cap Units(f, U) = {}
  BY DEF Units
<1>3. IsFiniteSet(Units(f, T)) /\ IsFiniteSet(Units(f, U))
  BY TotalType
<1>4. Cardinality(Units(f, T)) \in Nat /\ Cardinality(Units(f, U)) \in Nat
  BY <1>3, FS_CardinalityType
<1>5. Cardinality(Units(f, T) \cup Units(f, U))
        = Cardinality(Units(f, T)) + Cardinality(Units(f, U))
  BY <1>2, <1>3, <1>4, FS_Union, FS_EmptySet
<1> QED
  BY <1>1, <1>5 DEF Total

\* Adding a task adds its quantity.
LEMMA TotalAdd ==
  ASSUME NEW S, IsFiniteSet(S), NEW f \in [S -> Nat],
         NEW T \in SUBSET S, NEW t \in S \ T
  PROVE  Total(f, T \cup {t}) = Total(f, T) + f[t]
<1>1. Total(f, T \cup {t}) = Total(f, T) + Total(f, {t})
  BY TotalUnion
<1> QED
  BY <1>1, TotalSingleton

\* Removing a task removes its quantity.
LEMMA TotalRemove ==
  ASSUME NEW S, IsFiniteSet(S), NEW f \in [S -> Nat],
         NEW T \in SUBSET S, NEW t \in T
  PROVE  /\ Total(f, T) = Total(f, T \ {t}) + f[t]
         /\ f[t] <= Total(f, T)
<1> DEFINE R == T \ {t}
<1>1. R \cup {t} = T
  OBVIOUS
<1>2. R \in SUBSET S /\ t \in S \ R
  OBVIOUS
<1>3. Total(f, R) \in Nat /\ f[t] \in Nat
  BY TotalType, <1>2
<1> HIDE DEF R
<1>4. Total(f, R \cup {t}) = Total(f, R) + f[t]
  BY <1>2, TotalAdd
<1>5. Total(f, T) = Total(f, R) + f[t] /\ f[t] <= Total(f, T)
  BY <1>1, <1>3, <1>4
<1> QED
  BY <1>5 DEF R

\* A sum depends only on the quantities of the tasks it runs over.
LEMMA TotalSame ==
  ASSUME NEW f, NEW g, NEW T, \A t \in T : f[t] = g[t]
  PROVE  Total(f, T) = Total(g, T)
<1>1. Units(f, T) = Units(g, T)
  BY DEF Units
<1> QED
  BY <1>1 DEF Total

\* Tasks without a quantity add nothing.
LEMMA TotalZero ==
  ASSUME NEW f, NEW T, \A t \in T : f[t] = 0
  PROVE  Total(f, T) = 0
<1>1. Units(f, T) = {}
  BY DEF Units
<1> QED
  BY <1>1, FS_EmptySet DEF Total

\* Where one quantity changes, the sum changes by as much.
LEMMA TotalChange ==
  ASSUME NEW S, IsFiniteSet(S), NEW f \in [S -> Nat], NEW g \in [S -> Nat],
         NEW T \in SUBSET S, NEW t \in T, \A u \in T \ {t} : g[u] = f[u]
  PROVE  Total(g, T) + f[t] = Total(f, T) + g[t]
<1>1. Total(g, T \ {t}) = Total(f, T \ {t}) /\ Total(f, T \ {t}) \in Nat
  BY TotalSame, TotalType
<1>2. Total(f, T) = Total(f, T \ {t}) + f[t] /\ Total(g, T) = Total(g, T \ {t}) + g[t]
  BY TotalRemove
<1> QED
  BY <1>1, <1>2

-----------------------------------------------------------------------------
(* The ledger laws *)

\* The sums of the laws are naturals.
LEMMA HeldType ==
  ASSUME NEW s \in Ledger, NEW i \in Item
  PROVE  Held(s, i) \in Nat /\ WrittenOff(s, i) \in Nat
<1>1. s.amount \in [Task -> Nat]
  BY DEF Ledger
<1>2. Holders(s, i) \in SUBSET Task /\ Takers(s, i) \in SUBSET Task
  BY DEF Holders, Takers
<1> QED
  BY <1>1, <1>2, TaskAssumption, TotalType DEF Held, WrittenOff

\* A ledger with no reservation obeys the laws.
LEMMA EmptyLedgerLaws ==
  ASSUME NEW shelf \in [Item -> Nat]
  PROVE  LedgerLaws(EmptyLedger(shelf), shelf)
<1> DEFINE s == EmptyLedger(shelf)
<1>1. s \in Ledger /\ RowsIn(s) /\ s.quantity = shelf
  BY DEF Ledger, EmptyLedger, RowsIn, ReservationState
<1>2. ASSUME NEW i \in Item PROVE Held(s, i) = 0 /\ WrittenOff(s, i) = 0
  <2>1. Holders(s, i) = {} /\ Takers(s, i) = {}
    BY DEF Holders, Takers, EmptyLedger
  <2> QED
    BY <2>1, TotalEmpty DEF Held, WrittenOff
<1>3. \A i \in Item : s.reserved[i] = 0
  BY DEF EmptyLedger
<1> HIDE DEF s
<1>4. ReservedIsHeldIn(s)
  BY <1>2, <1>3 DEF ReservedIsHeldIn
<1>5. ReservedWithinStockIn(s)
  BY <1>1, <1>3 DEF ReservedWithinStockIn, Ledger
<1>6. ConservedIn(s, shelf)
  BY <1>1, <1>2 DEF ConservedIn
<1>7. LedgerLaws(s, shelf)
  BY <1>1, <1>4, <1>5, <1>6 DEF LedgerLaws
<1> QED
  BY <1>7 DEF s

\* reserve_for_task keeps the laws: what it adds to the counter it adds to the
\* rows, and there was room for it.
LEMMA ReserveKeepsLaws ==
  ASSUME NEW shelf \in [Item -> Nat], NEW s, LedgerLaws(s, shelf),
         NEW t \in Task, NEW i \in Item, NEW n \in Nat, CanReserve(s, t, i, n)
  PROVE  LedgerLaws(Reserve(s, t, i, n), shelf)
<1> DEFINE r == Reserve(s, t, i, n)
<1>1. CASE s.state[t] \in {"active", "consumed"}
  BY <1>1 DEF Reserve
<1>2. CASE s.state[t] \notin {"active", "consumed"}
  <2>0. s \in Ledger /\ n > 0 /\ n <= Available(s, i)
    BY <1>2 DEF LedgerLaws, CanReserve
  <2>1. /\ r.quantity = s.quantity
        /\ r.reserved = [s.reserved EXCEPT ![i] = @ + n]
        /\ r.state    = [s.state EXCEPT ![t] = "active"]
        /\ r.source   = [s.source EXCEPT ![t] = i]
        /\ r.amount   = [s.amount EXCEPT ![t] = n]
    BY <1>2, <2>0 DEF Reserve, Ledger
  <2>2. r \in Ledger /\ RowsIn(r)
    BY <1>2, <2>0 DEF Reserve, Ledger, ReservationState, RowsIn, LedgerLaws
  <2> HIDE DEF r
  <2>3. ASSUME NEW j \in Item
        PROVE  Held(r, j) = IF j = i THEN Held(s, j) + n ELSE Held(s, j)
    <3> DEFINE H == Holders(s, j)
    <3>1. H \in SUBSET Task /\ t \notin H
      BY <1>2 DEF Holders
    <3>2. Total(r.amount, H) = Total(s.amount, H)
      BY <2>0, <2>1, <3>1, TotalSame DEF Ledger
    <3>3. CASE j = i
      <4>1. Holders(r, j) = H \cup {t}
        BY <2>0, <2>1, <3>3 DEF Holders, Ledger
      <4>2. r.amount \in [Task -> Nat] /\ r.amount[t] = n
        BY <2>0, <2>1, <2>2 DEF Ledger
      <4>3. Total(r.amount, H \cup {t}) = Total(r.amount, H) + n
        BY <3>1, <4>2, TotalAdd, TaskAssumption
      <4> QED
        BY <3>2, <3>3, <4>1, <4>3 DEF Held
    <3>4. CASE j # i
      <4>1. Holders(r, j) = H
        BY <1>2, <2>0, <2>1, <3>4 DEF Holders, Ledger
      <4> QED
        BY <3>2, <3>4, <4>1 DEF Held
    <3> QED
      BY <3>3, <3>4
  <2>4. ASSUME NEW j \in Item
        PROVE  WrittenOff(r, j) = WrittenOff(s, j)
    <3>1. Takers(r, j) = Takers(s, j)
      BY <1>2, <2>0, <2>1 DEF Takers, Ledger
    <3>2. \A u \in Takers(s, j) : r.amount[u] = s.amount[u]
      BY <1>2, <2>0, <2>1 DEF Takers, Ledger
    <3> QED
      BY <3>1, <3>2, TotalSame DEF WrittenOff
  <2>5. ReservedIsHeldIn(r)
    BY <2>0, <2>1, <2>3, HeldType DEF ReservedIsHeldIn, LedgerLaws, Ledger
  <2>6. ReservedWithinStockIn(r)
    BY <2>0, <2>1 DEF ReservedWithinStockIn, LedgerLaws, Ledger, Available, AtLeastZero
  <2>7. ConservedIn(r, shelf)
    BY <2>1, <2>4 DEF ConservedIn, LedgerLaws
  <2>8. LedgerLaws(r, shelf)
    BY <2>2, <2>5, <2>6, <2>7 DEF LedgerLaws
  <2> QED
    BY <2>8 DEF r
<1> QED
  BY <1>1, <1>2

\* The reservation a task holds is part of what its item has reserved, which
\* is part of what is on the shelf: nothing below zero is ever clipped.
LEMMA ActiveIsCovered ==
  ASSUME NEW shelf \in [Item -> Nat], NEW s, LedgerLaws(s, shelf),
         NEW t \in Task, s.state[t] = "active"
  PROVE  /\ s.source[t] \in Item
         /\ s.amount[t] \in Nat
         /\ s.amount[t] <= s.reserved[s.source[t]]
         /\ s.reserved[s.source[t]] <= s.quantity[s.source[t]]
<1> DEFINE i == s.source[t]
<1>1. s \in Ledger /\ i \in Item
  BY DEF LedgerLaws, RowsIn
<1>2. s.amount \in [Task -> Nat] /\ Holders(s, i) \in SUBSET Task /\ t \in Holders(s, i)
  BY <1>1 DEF Ledger, Holders
<1>3. s.amount[t] <= Held(s, i)
  BY <1>2, TotalRemove, TaskAssumption DEF Held
<1>4. s.reserved[i] = Held(s, i) /\ s.reserved[i] <= s.quantity[i]
  BY <1>1 DEF LedgerLaws, ReservedIsHeldIn, ReservedWithinStockIn
<1> QED
  BY <1>1, <1>2, <1>3, <1>4

\* consume_for_task keeps the laws: the whole reservation leaves the counter
\* and the rows, and what leaves the shelf is what the row says was taken.
LEMMA ConsumeKeepsLaws ==
  ASSUME NEW shelf \in [Item -> Nat], NEW s, LedgerLaws(s, shelf),
         NEW t \in Task, NEW n \in Nat
  PROVE  LedgerLaws(Consume(s, t, n), shelf)
<1> DEFINE r     == Consume(s, t, n)
           i     == s.source[t]
           taken == AtMost(n, s.amount[t])
<1>1. CASE s.state[t] # "active"
  BY <1>1 DEF Consume
<1>2. CASE s.state[t] = "active"
  <2>0. /\ s \in Ledger /\ i \in Item
        /\ s.amount[t] \in Nat
        /\ s.amount[t] <= s.reserved[i]
        /\ s.reserved[i] <= s.quantity[i]
        /\ taken \in Nat /\ taken <= s.amount[t]
        /\ s.reserved[i] \in Nat /\ s.quantity[i] \in Nat
    BY <1>2, ActiveIsCovered DEF LedgerLaws, AtMost, Ledger
  <2> HIDE DEF taken
  <2>1. /\ r.quantity = [s.quantity EXCEPT ![i] = @ - taken]
        /\ r.reserved = [s.reserved EXCEPT ![i] = @ - s.amount[t]]
        /\ r.state    = [s.state EXCEPT ![t] = "consumed"]
        /\ r.source   = s.source
        /\ r.amount   = [s.amount EXCEPT ![t] = taken]
    BY <1>2, <2>0 DEF Consume, AtLeastZero, taken
  <2>2. r = [quantity |-> r.quantity, reserved |-> r.reserved, state |-> r.state,
             source |-> r.source, amount |-> r.amount]
    BY <1>2 DEF Consume
  <2> HIDE DEF r
  <2>3. r \in Ledger
    <3>1. r.quantity \in [Item -> Nat] /\ r.reserved \in [Item -> Nat]
      BY <2>0, <2>1 DEF Ledger
    <3>2. /\ r.state \in [Task -> ReservationState]
          /\ r.source \in [Task -> Item \cup {NoItem}]
          /\ r.amount \in [Task -> Nat]
      BY <2>0, <2>1 DEF Ledger, ReservationState
    <3> QED
      BY <2>2, <3>1, <3>2 DEF Ledger
  <2>4. RowsIn(r)
    BY <1>2, <2>0, <2>1 DEF RowsIn, LedgerLaws, Ledger
  <2>5. ASSUME NEW j \in Item
        PROVE  Held(s, j) = IF j = i THEN Held(r, j) + s.amount[t] ELSE Held(r, j)
    <3> DEFINE H == Holders(s, j)
    <3>1. H \in SUBSET Task /\ (t \in H <=> j = i)
      BY <1>2 DEF Holders
    <3>2. Holders(r, j) = H \ {t}
      BY <1>2, <2>0, <2>1 DEF Holders, Ledger
    <3>3. Total(r.amount, H \ {t}) = Total(s.amount, H \ {t})
      BY <2>0, <2>1, <3>1, TotalSame DEF Ledger
    <3>4. CASE j = i
      <4>1. Total(s.amount, H) = Total(s.amount, H \ {t}) + s.amount[t]
        BY <2>0, <3>1, <3>4, TotalRemove, TaskAssumption DEF Ledger
      <4> QED
        BY <3>2, <3>3, <3>4, <4>1 DEF Held
    <3>5. CASE j # i
      <4>1. H \ {t} = H
        BY <3>1, <3>5
      <4> QED
        BY <3>2, <3>3, <3>5, <4>1 DEF Held
    <3> QED
      BY <3>4, <3>5
  <2>6. ASSUME NEW j \in Item
        PROVE  WrittenOff(r, j) = IF j = i THEN WrittenOff(s, j) + taken ELSE WrittenOff(s, j)
    <3> DEFINE K == Takers(s, j)
    <3>1. K \in SUBSET Task /\ t \notin K
      BY <1>2 DEF Takers
    <3>2. Total(r.amount, K) = Total(s.amount, K)
      BY <2>0, <2>1, <3>1, TotalSame DEF Ledger
    <3>3. CASE j = i
      <4>1. Takers(r, j) = K \cup {t}
        BY <2>0, <2>1, <3>3 DEF Takers, Ledger
      <4>2. r.amount \in [Task -> Nat] /\ r.amount[t] = taken
        BY <2>0, <2>1, <2>3 DEF Ledger
      <4>3. Total(r.amount, K \cup {t}) = Total(r.amount, K) + taken
        BY <3>1, <4>2, TotalAdd, TaskAssumption
      <4> QED
        BY <3>2, <3>3, <4>1, <4>3 DEF WrittenOff
    <3>4. CASE j # i
      <4>1. Takers(r, j) = K
        BY <1>2, <2>0, <2>1, <3>4 DEF Takers, Ledger
      <4> QED
        BY <3>2, <3>4, <4>1 DEF WrittenOff
    <3> QED
      BY <3>3, <3>4
  <2>7. \A j \in Item : Held(r, j) \in Nat /\ WrittenOff(s, j) \in Nat
    BY <2>0, <2>3, HeldType
  <2>8. ReservedIsHeldIn(r)
    BY <2>0, <2>1, <2>5, <2>7 DEF ReservedIsHeldIn, LedgerLaws, Ledger
  <2>9. ReservedWithinStockIn(r)
    BY <2>0, <2>1 DEF ReservedWithinStockIn, LedgerLaws, Ledger
  <2>10. ConservedIn(r, shelf)
    BY <2>0, <2>1, <2>6, <2>7 DEF ConservedIn, LedgerLaws, Ledger
  <2>11. LedgerLaws(r, shelf)
    BY <2>3, <2>4, <2>8, <2>9, <2>10 DEF LedgerLaws
  <2> QED
    BY <2>11 DEF r
<1> QED
  BY <1>1, <1>2

\* release_for_task keeps the laws: the reservation leaves the counter and the
\* rows, the shelf is untouched.
LEMMA ReleaseKeepsLaws ==
  ASSUME NEW shelf \in [Item -> Nat], NEW s, LedgerLaws(s, shelf), NEW t \in Task
  PROVE  LedgerLaws(Release(s, t), shelf)
<1> DEFINE r == Release(s, t)
           i == s.source[t]
<1>1. CASE s.state[t] # "active"
  BY <1>1 DEF Release
<1>2. CASE s.state[t] = "active"
  <2>0. /\ s \in Ledger /\ i \in Item
        /\ s.amount[t] \in Nat
        /\ s.amount[t] <= s.reserved[i]
        /\ s.reserved[i] <= s.quantity[i]
        /\ s.reserved[i] \in Nat /\ s.quantity[i] \in Nat
    BY <1>2, ActiveIsCovered DEF LedgerLaws, Ledger
  <2>1. /\ r.quantity = s.quantity
        /\ r.reserved = [s.reserved EXCEPT ![i] = @ - s.amount[t]]
        /\ r.state    = [s.state EXCEPT ![t] = "released"]
        /\ r.source   = s.source
        /\ r.amount   = s.amount
    BY <1>2, <2>0 DEF Release, AtLeastZero
  <2>2. r = [quantity |-> r.quantity, reserved |-> r.reserved, state |-> r.state,
             source |-> r.source, amount |-> r.amount]
    BY <1>2 DEF Release
  <2> HIDE DEF r
  <2>3. r \in Ledger
    <3>1. r.reserved \in [Item -> Nat] /\ r.state \in [Task -> ReservationState]
      BY <2>0, <2>1 DEF Ledger, ReservationState
    <3> QED
      BY <2>0, <2>1, <2>2, <3>1 DEF Ledger
  <2>4. RowsIn(r)
    BY <1>2, <2>0, <2>1 DEF RowsIn, LedgerLaws, Ledger
  <2>5. ASSUME NEW j \in Item
        PROVE  Held(s, j) = IF j = i THEN Held(r, j) + s.amount[t] ELSE Held(r, j)
    <3> DEFINE H == Holders(s, j)
    <3>1. H \in SUBSET Task /\ (t \in H <=> j = i)
      BY <1>2 DEF Holders
    <3>2. Holders(r, j) = H \ {t}
      BY <1>2, <2>0, <2>1 DEF Holders, Ledger
    <3>3. CASE j = i
      <4>1. Total(s.amount, H) = Total(s.amount, H \ {t}) + s.amount[t]
        BY <2>0, <3>1, <3>3, TotalRemove, TaskAssumption DEF Ledger
      <4> QED
        BY <2>1, <3>2, <3>3, <4>1 DEF Held
    <3>4. CASE j # i
      <4>1. H \ {t} = H
        BY <3>1, <3>4
      <4> QED
        BY <2>1, <3>2, <3>4, <4>1 DEF Held
    <3> QED
      BY <3>3, <3>4
  <2>6. ASSUME NEW j \in Item
        PROVE  WrittenOff(r, j) = WrittenOff(s, j)
    <3>1. Takers(r, j) = Takers(s, j)
      BY <1>2, <2>0, <2>1 DEF Takers, Ledger
    <3> QED
      BY <2>1, <3>1 DEF WrittenOff
  <2>7. \A j \in Item : Held(r, j) \in Nat
    BY <2>0, <2>3, HeldType
  <2>8. ReservedIsHeldIn(r)
    BY <2>0, <2>1, <2>5, <2>7 DEF ReservedIsHeldIn, LedgerLaws, Ledger
  <2>9. ReservedWithinStockIn(r)
    BY <2>0, <2>1 DEF ReservedWithinStockIn, LedgerLaws, Ledger
  <2>10. ConservedIn(r, shelf)
    BY <2>1, <2>6 DEF ConservedIn, LedgerLaws
  <2>11. LedgerLaws(r, shelf)
    BY <2>3, <2>4, <2>8, <2>9, <2>10 DEF LedgerLaws
  <2> QED
    BY <2>11 DEF r
<1> QED
  BY <1>1, <1>2

\* apply_task_status_to_stock keeps the laws.
LEMMA ApplyStatusKeepsLaws ==
  ASSUME NEW shelf \in [Item -> Nat], NEW s, LedgerLaws(s, shelf),
         NEW t \in Task, NEW status
  PROVE  LedgerLaws(ApplyStatus(s, t, status), shelf)
<1>1. s.amount[t] \in Nat
  BY DEF LedgerLaws, Ledger
<1>2. LedgerLaws(ConsumeAll(s, t), shelf)
  BY <1>1, ConsumeKeepsLaws DEF ConsumeAll
<1>3. LedgerLaws(Release(s, t), shelf)
  BY ReleaseKeepsLaws
<1> QED
  BY <1>2, <1>3 DEF ApplyStatus, ConsumingStatus, ReleasingStatus

\* The planning loop keeps the laws: what all its reservations together add to
\* the counter of an item is what their rows hold, and there was room for it.
LEMMA ReserveAllKeepsLaws ==
  ASSUME NEW shelf \in [Item -> Nat], NEW s, LedgerLaws(s, shelf),
         NEW D \in SUBSET Task, NEW take \in [D -> Nat], NEW from \in [Task -> Item],
         \A t \in D : s.state[t] = "none",
         CanReserveAll(s, from, take)
  PROVE  LedgerLaws(ReserveAll(s, from, take), shelf)
<1> DEFINE r      == ReserveAll(s, from, take)
           new    == {t \in D : take[t] > 0}
           Add(j) == Total(take, NewHolders(take, from, j))
<1>0. s \in Ledger /\ DOMAIN take = D
  BY DEF LedgerLaws
<1>1. ASSUME NEW j \in Item
      PROVE  /\ NewHolders(take, from, j) \in SUBSET D
             /\ Add(j) \in Nat
             /\ Add(j) <= Available(s, j)
  <2>1. NewHolders(take, from, j) \in SUBSET D
    BY <1>0 DEF NewHolders
  <2>2. IsFiniteSet(D)
    BY FS_Subset, TaskAssumption
  <2> QED
    BY <2>1, <2>2, TotalType DEF CanReserveAll
<1>2. /\ r.quantity = s.quantity
      /\ r.reserved = [j \in Item |-> s.reserved[j] + Add(j)]
      /\ r.state    = [t \in Task |-> IF t \in new THEN "active" ELSE s.state[t]]
      /\ r.source   = [t \in Task |-> IF t \in new THEN from[t] ELSE s.source[t]]
      /\ r.amount   = [t \in Task |-> IF t \in new THEN take[t] ELSE s.amount[t]]
  BY <1>0 DEF ReserveAll
<1>3. r = [quantity |-> r.quantity, reserved |-> r.reserved, state |-> r.state,
           source |-> r.source, amount |-> r.amount]
  BY DEF ReserveAll
<1> HIDE DEF r, Add
<1>4. r \in Ledger
  <2>1. r.quantity \in [Item -> Nat] /\ r.reserved \in [Item -> Nat]
    BY <1>0, <1>1, <1>2 DEF Ledger
  <2>2. /\ r.state \in [Task -> ReservationState]
        /\ r.source \in [Task -> Item \cup {NoItem}]
        /\ r.amount \in [Task -> Nat]
    BY <1>0, <1>2 DEF Ledger, ReservationState
  <2> QED
    BY <1>3, <2>1, <2>2 DEF Ledger
<1>5. RowsIn(r)
  BY <1>0, <1>2 DEF RowsIn, LedgerLaws, Ledger
<1>6. ASSUME NEW j \in Item
      PROVE  Held(r, j) = Held(s, j) + Add(j)
  <2> DEFINE H == Holders(s, j)
             N == NewHolders(take, from, j)
  <2>1. H \in SUBSET Task /\ N \in SUBSET Task /\ H \cap N = {}
    BY <1>1 DEF Holders
  <2>2. Holders(r, j) = H \cup N
    BY <1>0, <1>2 DEF Holders, NewHolders, Ledger
  <2>3. Total(r.amount, H) = Total(s.amount, H)
    <3>1. \A t \in H : r.amount[t] = s.amount[t]
      BY <1>0, <1>2 DEF Holders, Ledger
    <3> QED
      BY <3>1, TotalSame
  <2>4. Total(r.amount, N) = Add(j)
    <3>1. \A t \in N : r.amount[t] = take[t]
      BY <1>0, <1>1, <1>2 DEF NewHolders
    <3> QED
      BY <3>1, TotalSame DEF Add
  <2>5. Total(r.amount, H \cup N) = Total(r.amount, H) + Total(r.amount, N)
    BY <1>4, <2>1, TotalUnion, TaskAssumption DEF Ledger
  <2> QED
    BY <2>2, <2>3, <2>4, <2>5 DEF Held
<1>7. ASSUME NEW j \in Item
      PROVE  WrittenOff(r, j) = WrittenOff(s, j)
  <2>1. Takers(r, j) = Takers(s, j)
    BY <1>0, <1>2 DEF Takers, Ledger
  <2>2. \A t \in Takers(s, j) : r.amount[t] = s.amount[t]
    BY <1>0, <1>2 DEF Takers, Ledger
  <2> QED
    BY <2>1, <2>2, TotalSame DEF WrittenOff
<1>8. ReservedIsHeldIn(r)
  BY <1>2, <1>6 DEF ReservedIsHeldIn, LedgerLaws
<1>9. ReservedWithinStockIn(r)
  BY <1>0, <1>1, <1>2 DEF ReservedWithinStockIn, LedgerLaws, Ledger, Available, AtLeastZero
<1>10. ConservedIn(r, shelf)
  BY <1>2, <1>7 DEF ConservedIn, LedgerLaws
<1>11. LedgerLaws(r, shelf)
  BY <1>4, <1>5, <1>8, <1>9, <1>10 DEF LedgerLaws
<1> QED
  BY <1>11 DEF r

-----------------------------------------------------------------------------
(* The service alone: the ledger laws are inductive. *)

ServiceInv == LedgerLaws(stock, Shelf)

LEMMA ServiceInvInit == ServiceInit => ServiceInv
  BY FoundAssumption DEF ServiceInit, ServiceInv

LEMMA ServiceInvStep == ServiceInv /\ [ServiceNext]_stock => ServiceInv'
<1> SUFFICES ASSUME ServiceInv, [ServiceNext]_stock PROVE LedgerLaws(stock', Shelf)
  BY DEF ServiceInv
<1> USE ShelfAssumption, RequestedAssumption DEF ServiceInv
<1>1. CASE UNCHANGED stock
  BY <1>1
<1>2. ASSUME NEW t \in Task, NEW i \in Item, NEW n \in Requested, ReserveForTask(t, i, n)
      PROVE  LedgerLaws(stock', Shelf)
  BY <1>2, ReserveKeepsLaws DEF ReserveForTask
<1>3. ASSUME NEW t \in Task, NEW n \in Requested, ConsumeForTask(t, n)
      PROVE  LedgerLaws(stock', Shelf)
  BY <1>3, ConsumeKeepsLaws DEF ConsumeForTask
<1>4. ASSUME NEW t \in Task, ReleaseForTask(t)
      PROVE  LedgerLaws(stock', Shelf)
  BY <1>4, ReleaseKeepsLaws DEF ReleaseForTask
<1>5. ASSUME NEW t \in Task, NEW status, ApplyTaskStatus(t, status)
      PROVE  LedgerLaws(stock', Shelf)
  BY <1>5, ApplyStatusKeepsLaws DEF ApplyTaskStatus
<1> QED
  BY <1>1, <1>2, <1>3, <1>4, <1>5 DEF ServiceNext

LEMMA ServiceInvariant == ServiceSpec => []ServiceInv
  BY ServiceInvInit, ServiceInvStep, PTL DEF ServiceSpec

\* reserved_quantity is exactly what the active reservations hold, as long as
\* only reserve_for_task, consume_for_task, release_for_task and
\* apply_task_status_to_stock write the row.
THEOREM ReservedIsHeldTheorem == ServiceSpec => []ReservedIsHeld
<1>1. ServiceInv => ReservedIsHeld
  BY DEF ServiceInv, LedgerLaws, ReservedIsHeld
<1> QED
  BY <1>1, ServiceInvariant, PTL

\* No unit on the shelf is promised to two tasks under the same condition.
THEOREM HeldWithinStockTheorem == ServiceSpec => []HeldWithinStock
<1>1. ServiceInv => HeldWithinStock
  BY DEF ServiceInv, LedgerLaws, ReservedIsHeldIn, ReservedWithinStockIn, HeldWithinStock
<1> QED
  BY <1>1, ServiceInvariant, PTL

\* The shelf loses exactly what confirmed picks wrote off.
THEOREM ConservedTheorem == ServiceSpec => []Conserved
<1>1. ServiceInv => Conserved
  BY DEF ServiceInv, LedgerLaws, Conserved
<1> QED
  BY <1>1, ServiceInvariant, PTL

-----------------------------------------------------------------------------
(* With the other writers of the item row. *)

LEMMA StockTypeInit == ServiceInit => StockTypeOK
  BY FoundAssumption DEF ServiceInit, StockTypeOK, LedgerLaws

\* Each operation returns a ledger whose rows are well formed.
LEMMA OperationTypes ==
  ASSUME NEW s \in Ledger, RowsIn(s), NEW t \in Task
  PROVE  /\ \A n \in Nat : Consume(s, t, n) \in Ledger /\ RowsIn(Consume(s, t, n))
         /\ Release(s, t) \in Ledger /\ RowsIn(Release(s, t))
         /\ \A i \in Item, n \in Nat :
               Reserve(s, t, i, n) \in Ledger /\ RowsIn(Reserve(s, t, i, n))
<1>1. ASSUME NEW n \in Nat
      PROVE  Consume(s, t, n) \in Ledger /\ RowsIn(Consume(s, t, n))
  <2>1. CASE s.state[t] # "active"
    BY <2>1 DEF Consume
  <2>2. CASE s.state[t] = "active"
    <3> DEFINE i     == s.source[t]
               taken == AtMost(n, s.amount[t])
    <3>1. i \in Item /\ s.amount[t] \in Nat /\ taken \in Nat
      BY <2>2 DEF RowsIn, Ledger, AtMost
    <3> HIDE DEF taken
    <3>2. /\ [s.quantity EXCEPT ![i] = AtLeastZero(@ - taken)] \in [Item -> Nat]
          /\ [s.reserved EXCEPT ![i] = AtLeastZero(@ - s.amount[t])] \in [Item -> Nat]
      BY <3>1 DEF Ledger, AtLeastZero
    <3>3. /\ [s.state EXCEPT ![t] = "consumed"] \in [Task -> ReservationState]
          /\ [s.amount EXCEPT ![t] = taken] \in [Task -> Nat]
      BY <3>1 DEF Ledger, ReservationState
    <3>4. Consume(s, t, n) \in Ledger
      BY <2>2, <3>2, <3>3 DEF Consume, Ledger, taken
    <3>5. RowsIn(Consume(s, t, n))
      BY <2>2, <3>1 DEF Consume, RowsIn, Ledger, taken
    <3> QED
      BY <3>4, <3>5
  <2> QED
    BY <2>1, <2>2
<1>2. Release(s, t) \in Ledger /\ RowsIn(Release(s, t))
  <2>1. CASE s.state[t] # "active"
    BY <2>1 DEF Release
  <2>2. CASE s.state[t] = "active"
    <3>1. s.source[t] \in Item /\ s.amount[t] \in Nat
      BY <2>2 DEF RowsIn, Ledger
    <3>2. /\ [s.reserved EXCEPT ![s.source[t]] = AtLeastZero(@ - s.amount[t])] \in [Item -> Nat]
          /\ [s.state EXCEPT ![t] = "released"] \in [Task -> ReservationState]
      BY <3>1 DEF Ledger, AtLeastZero, ReservationState
    <3> QED
      BY <2>2, <3>1, <3>2 DEF Release, Ledger, RowsIn
  <2> QED
    BY <2>1, <2>2
<1>3. ASSUME NEW i \in Item, NEW n \in Nat
      PROVE  Reserve(s, t, i, n) \in Ledger /\ RowsIn(Reserve(s, t, i, n))
  <2>1. CASE s.state[t] \in {"active", "consumed"}
    BY <2>1 DEF Reserve
  <2>2. CASE s.state[t] \notin {"active", "consumed"}
    BY <2>2 DEF Reserve, Ledger, RowsIn, ReservationState
  <2> QED
    BY <2>1, <2>2
<1> QED
  BY <1>1, <1>2, <1>3

LEMMA StockTypeStep == StockTypeOK /\ [WritersNext]_stock => StockTypeOK'
<1> SUFFICES ASSUME StockTypeOK, [WritersNext]_stock PROVE stock' \in Ledger /\ RowsIn(stock')
  BY DEF StockTypeOK
<1> USE DEF StockTypeOK
<1>1. CASE UNCHANGED stock
  BY <1>1
<1>2. ASSUME NEW t \in Task, NEW i \in Item, NEW n \in Requested, ReserveForTask(t, i, n)
      PROVE  stock' \in Ledger /\ RowsIn(stock')
  BY <1>2, OperationTypes, RequestedAssumption DEF ReserveForTask
<1>3. ASSUME NEW t \in Task, NEW n \in Requested, ConsumeForTask(t, n)
      PROVE  stock' \in Ledger /\ RowsIn(stock')
  BY <1>3, OperationTypes, RequestedAssumption DEF ConsumeForTask
<1>4. ASSUME NEW t \in Task, ReleaseForTask(t)
      PROVE  stock' \in Ledger /\ RowsIn(stock')
  BY <1>4, OperationTypes DEF ReleaseForTask
<1>5. ASSUME NEW t \in Task, NEW status, ApplyTaskStatus(t, status)
      PROVE  stock' \in Ledger /\ RowsIn(stock')
  <2>1. stock.amount[t] \in Nat
    BY DEF Ledger
  <2> QED
    BY <1>5, <2>1, OperationTypes
       DEF ApplyTaskStatus, ApplyStatus, ConsumeAll, ConsumingStatus, ReleasingStatus
<1>6. ASSUME NEW i \in Item, NEW n \in Edited, EditQuantity(i, n)
      PROVE  stock' \in Ledger /\ RowsIn(stock')
  BY <1>6, EditedAssumption DEF EditQuantity, Ledger, RowsIn
<1>7. ASSUME NEW i \in Item, NEW n \in CountedFacts, PostCountLine(i, n)
      PROVE  stock' \in Ledger /\ RowsIn(stock')
  BY <1>7, CountedFactsAssumption DEF PostCountLine, Ledger, RowsIn, AtMost
<1> QED
  BY <1>1, <1>2, <1>3, <1>4, <1>5, <1>6, <1>7 DEF WritersNext, ServiceNext, OtherWriters

\* Whoever writes, the item and reservation rows keep their types: quantities
\* never go negative and every created row names its item.
THEOREM StockTypeTheorem == WritersSpec => []StockTypeOK
  BY StockTypeInit, StockTypeStep, PTL DEF WritersSpec

\* Whoever writes, a reservation that was written off is never touched again.
THEOREM ConsumedIsFinalTheorem == WritersSpec => ConsumedIsFinal
<1> DEFINE Final ==
      \A t \in Task : stock.state[t] = "consumed" =>
          /\ stock'.state[t] = "consumed"
          /\ stock'.amount[t] = stock.amount[t]
          /\ stock'.source[t] = stock.source[t]
<1>1. StockTypeOK /\ [WritersNext]_stock => [Final]_stock
  <2> SUFFICES ASSUME StockTypeOK, WritersNext PROVE Final
    OBVIOUS
  <2> USE DEF StockTypeOK, Ledger
  <2>1. ASSUME NEW t \in Task, NEW i \in Item, NEW n \in Requested, ReserveForTask(t, i, n)
        PROVE  Final
    BY <2>1 DEF ReserveForTask, Reserve
  <2>2. ASSUME NEW t \in Task, NEW n \in Requested, ConsumeForTask(t, n)
        PROVE  Final
    BY <2>2 DEF ConsumeForTask, Consume
  <2>3. ASSUME NEW t \in Task, ReleaseForTask(t)
        PROVE  Final
    BY <2>3 DEF ReleaseForTask, Release
  <2>4. ASSUME NEW t \in Task, NEW status, ApplyTaskStatus(t, status)
        PROVE  Final
    <3>1. stock' \in {ConsumeAll(stock, t), Release(stock, t), stock}
      BY <2>4 DEF ApplyTaskStatus, ApplyStatus, ConsumingStatus, ReleasingStatus
    <3> QED
      BY <2>4, <3>1 DEF ApplyTaskStatus, ConsumeAll, Consume, Release
  <2>5. ASSUME NEW i \in Item, NEW n, EditQuantity(i, n) \/ PostCountLine(i, n)
        PROVE  Final
    BY <2>5 DEF EditQuantity, PostCountLine
  <2> QED
    BY <2>1, <2>2, <2>3, <2>4, <2>5 DEF WritersNext, ServiceNext, OtherWriters
<1> QED
  BY <1>1, StockTypeTheorem, PTL DEF WritersSpec, ConsumedIsFinal

-----------------------------------------------------------------------------
(* The counter never claims more than the rows hold, whoever writes. *)

\* A row that is no longer active takes its quantity out of what its item holds.
LEMMA HeldWithout ==
  ASSUME NEW s \in Ledger, NEW r \in Ledger, NEW t \in Task,
         s.state[t] = "active", r.state[t] # "active",
         \A u \in Task \ {t} : r.state[u] = s.state[u] /\ r.amount[u] = s.amount[u],
         r.source = s.source,
         NEW j \in Item
  PROVE  /\ Held(s, j) \in Nat /\ Held(r, j) \in Nat
         /\ Held(s, j) = IF j = s.source[t] THEN Held(r, j) + s.amount[t] ELSE Held(r, j)
<1> DEFINE H == Holders(s, j)
<1>1. H \in SUBSET Task /\ (t \in H <=> j = s.source[t])
  BY DEF Holders
<1>2. Holders(r, j) = H \ {t}
  BY DEF Holders
<1>3. Total(r.amount, H \ {t}) = Total(s.amount, H \ {t})
  BY <1>1, TotalSame
<1>4. s.amount \in [Task -> Nat]
  BY DEF Ledger
<1>5. Held(s, j) \in Nat /\ Held(r, j) \in Nat
  BY HeldType
<1>6. CASE j = s.source[t]
  <2>1. Total(s.amount, H) = Total(s.amount, H \ {t}) + s.amount[t]
    BY <1>1, <1>4, <1>6, TotalRemove, TaskAssumption
  <2> QED
    BY <1>2, <1>3, <1>5, <1>6, <2>1 DEF Held
<1>7. CASE j # s.source[t]
  <2>1. H \ {t} = H
    BY <1>1, <1>7
  <2> QED
    BY <1>2, <1>3, <1>5, <1>7, <2>1 DEF Held
<1> QED
  BY <1>6, <1>7

\* A task that holds nothing and gets a row adds its quantity to its item.
LEMMA HeldWith ==
  ASSUME NEW s \in Ledger, NEW r \in Ledger, NEW t \in Task,
         s.state[t] # "active", r.state[t] = "active",
         \A u \in Task \ {t} :
            r.state[u] = s.state[u] /\ r.amount[u] = s.amount[u] /\ r.source[u] = s.source[u],
         NEW j \in Item
  PROVE  /\ Held(s, j) \in Nat /\ Held(r, j) \in Nat
         /\ Held(r, j) = IF j = r.source[t] THEN Held(s, j) + r.amount[t] ELSE Held(s, j)
<1> DEFINE H == Holders(s, j)
<1>1. H \in SUBSET Task /\ t \notin H
  BY DEF Holders
<1>2. Total(r.amount, H) = Total(s.amount, H)
  BY <1>1, TotalSame
<1>3. r.amount \in [Task -> Nat] /\ t \in Task \ H
  BY <1>1 DEF Ledger
<1>4. Held(s, j) \in Nat /\ Held(r, j) \in Nat
  BY HeldType
<1>5. CASE j = r.source[t]
  <2>1. Holders(r, j) = H \cup {t}
    BY <1>5 DEF Holders
  <2>2. Total(r.amount, H \cup {t}) = Total(r.amount, H) + r.amount[t]
    BY <1>1, <1>3, TotalAdd, TaskAssumption
  <2> QED
    BY <1>2, <1>4, <1>5, <2>1, <2>2 DEF Held
<1>6. CASE j # r.source[t]
  <2>1. Holders(r, j) = H
    BY <1>6 DEF Holders
  <2> QED
    BY <1>2, <1>4, <1>6, <2>1 DEF Held
<1> QED
  BY <1>5, <1>6

AtMostHeldIn(s) == \A i \in Item : s.reserved[i] <= Held(s, i)

LEMMA OperationsAtMostHeld ==
  ASSUME NEW s \in Ledger, RowsIn(s), AtMostHeldIn(s), NEW t \in Task
  PROVE  /\ \A n \in Nat : AtMostHeldIn(Consume(s, t, n))
         /\ AtMostHeldIn(Release(s, t))
         /\ \A i \in Item, n \in Nat : AtMostHeldIn(Reserve(s, t, i, n))
<1>1. ASSUME NEW n \in Nat PROVE AtMostHeldIn(Consume(s, t, n))
  <2>1. CASE s.state[t] # "active"
    BY <2>1 DEF Consume
  <2>2. CASE s.state[t] = "active"
    <3> DEFINE r == Consume(s, t, n)
    <3>1. r \in Ledger
      BY OperationTypes
    <3>2. /\ r.reserved = [s.reserved EXCEPT ![s.source[t]] = AtLeastZero(@ - s.amount[t])]
          /\ r.state = [s.state EXCEPT ![t] = "consumed"]
          /\ r.source = s.source
          /\ r.amount = [s.amount EXCEPT ![t] = AtMost(n, s.amount[t])]
      BY <2>2 DEF Consume
    <3> HIDE DEF r
    <3>3. /\ r.state[t] # "active" /\ r.source = s.source
          /\ \A u \in Task \ {t} : r.state[u] = s.state[u] /\ r.amount[u] = s.amount[u]
      BY <3>2 DEF Ledger
    <3> SUFFICES ASSUME NEW j \in Item PROVE r.reserved[j] <= Held(r, j)
      BY DEF r, AtMostHeldIn
    <3>4. /\ Held(s, j) \in Nat /\ Held(r, j) \in Nat
          /\ Held(s, j) = IF j = s.source[t] THEN Held(r, j) + s.amount[t] ELSE Held(r, j)
      BY <2>2, <3>1, <3>3, HeldWithout
    <3>5. s.reserved[j] <= Held(s, j) /\ s.reserved[j] \in Nat /\ s.amount[t] \in Nat
      BY DEF AtMostHeldIn, Ledger
    <3>6. r.reserved[j] = IF j = s.source[t] THEN AtLeastZero(s.reserved[j] - s.amount[t])
                                             ELSE s.reserved[j]
      BY <3>2 DEF Ledger
    <3> QED
      BY <3>4, <3>5, <3>6 DEF AtLeastZero
  <2> QED
    BY <2>1, <2>2
<1>2. AtMostHeldIn(Release(s, t))
  <2>1. CASE s.state[t] # "active"
    BY <2>1 DEF Release
  <2>2. CASE s.state[t] = "active"
    <3> DEFINE r == Release(s, t)
    <3>1. r \in Ledger
      BY OperationTypes
    <3>2. /\ r.reserved = [s.reserved EXCEPT ![s.source[t]] = AtLeastZero(@ - s.amount[t])]
          /\ r.state = [s.state EXCEPT ![t] = "released"]
          /\ r.source = s.source /\ r.amount = s.amount
      BY <2>2 DEF Release
    <3> HIDE DEF r
    <3>3. /\ r.state[t] # "active" /\ r.source = s.source
          /\ \A u \in Task \ {t} : r.state[u] = s.state[u] /\ r.amount[u] = s.amount[u]
      BY <3>2 DEF Ledger
    <3> SUFFICES ASSUME NEW j \in Item PROVE r.reserved[j] <= Held(r, j)
      BY DEF r, AtMostHeldIn
    <3>4. /\ Held(s, j) \in Nat /\ Held(r, j) \in Nat
          /\ Held(s, j) = IF j = s.source[t] THEN Held(r, j) + s.amount[t] ELSE Held(r, j)
      BY <2>2, <3>1, <3>3, HeldWithout
    <3>5. s.reserved[j] <= Held(s, j) /\ s.reserved[j] \in Nat /\ s.amount[t] \in Nat
      BY DEF AtMostHeldIn, Ledger
    <3>6. r.reserved[j] = IF j = s.source[t] THEN AtLeastZero(s.reserved[j] - s.amount[t])
                                             ELSE s.reserved[j]
      BY <3>2 DEF Ledger
    <3> QED
      BY <3>4, <3>5, <3>6 DEF AtLeastZero
  <2> QED
    BY <2>1, <2>2
<1>3. ASSUME NEW i \in Item, NEW n \in Nat PROVE AtMostHeldIn(Reserve(s, t, i, n))
  <2>1. CASE s.state[t] \in {"active", "consumed"}
    BY <2>1 DEF Reserve
  <2>2. CASE s.state[t] \notin {"active", "consumed"}
    <3> DEFINE r == Reserve(s, t, i, n)
    <3>1. r \in Ledger
      BY OperationTypes
    <3>2. /\ r.reserved = [s.reserved EXCEPT ![i] = @ + n]
          /\ r.state = [s.state EXCEPT ![t] = "active"]
          /\ r.source = [s.source EXCEPT ![t] = i]
          /\ r.amount = [s.amount EXCEPT ![t] = n]
      BY <2>2 DEF Reserve
    <3> HIDE DEF r
    <3>3. /\ s.state[t] # "active" /\ r.state[t] = "active" /\ r.source[t] = i /\ r.amount[t] = n
          /\ \A u \in Task \ {t} :
               r.state[u] = s.state[u] /\ r.amount[u] = s.amount[u] /\ r.source[u] = s.source[u]
      BY <2>2, <3>2 DEF Ledger
    <3> SUFFICES ASSUME NEW j \in Item PROVE r.reserved[j] <= Held(r, j)
      BY DEF r, AtMostHeldIn
    <3>4. /\ Held(s, j) \in Nat /\ Held(r, j) \in Nat
          /\ Held(r, j) = IF j = r.source[t] THEN Held(s, j) + r.amount[t] ELSE Held(s, j)
      BY <3>1, <3>3, HeldWith
    <3>5. s.reserved[j] <= Held(s, j) /\ s.reserved[j] \in Nat
      BY DEF AtMostHeldIn, Ledger
    <3>6. r.reserved[j] = IF j = i THEN s.reserved[j] + n ELSE s.reserved[j]
      BY <3>2 DEF Ledger
    <3> QED
      BY <3>3, <3>4, <3>5, <3>6
  <2> QED
    BY <2>1, <2>2
<1> QED
  BY <1>1, <1>2, <1>3

LEMMA AtMostHeldStep ==
  ASSUME StockTypeOK, AtMostHeldIn(stock), [WritersNext]_stock
  PROVE  AtMostHeldIn(stock')
<1> USE DEF StockTypeOK
<1>1. CASE UNCHANGED stock
  BY <1>1
<1>2. ASSUME NEW t \in Task, NEW i \in Item, NEW n \in Requested, ReserveForTask(t, i, n)
      PROVE  AtMostHeldIn(stock')
  BY <1>2, OperationsAtMostHeld, RequestedAssumption DEF ReserveForTask
<1>3. ASSUME NEW t \in Task, NEW n \in Requested, ConsumeForTask(t, n)
      PROVE  AtMostHeldIn(stock')
  BY <1>3, OperationsAtMostHeld, RequestedAssumption DEF ConsumeForTask
<1>4. ASSUME NEW t \in Task, ReleaseForTask(t)
      PROVE  AtMostHeldIn(stock')
  BY <1>4, OperationsAtMostHeld DEF ReleaseForTask
<1>5. ASSUME NEW t \in Task, NEW status, ApplyTaskStatus(t, status)
      PROVE  AtMostHeldIn(stock')
  <2>1. stock.amount[t] \in Nat
    BY DEF Ledger
  <2> QED
    BY <1>5, <2>1, OperationsAtMostHeld
       DEF ApplyTaskStatus, ApplyStatus, ConsumeAll, ConsumingStatus, ReleasingStatus
<1>6. ASSUME NEW i \in Item, NEW n \in Nat, EditQuantity(i, n) \/ PostCountLine(i, n)
      PROVE  AtMostHeldIn(stock')
  <2>1. /\ stock'.state = stock.state /\ stock'.source = stock.source
        /\ stock'.amount = stock.amount
        /\ \/ stock'.reserved = stock.reserved
           \/ stock'.reserved = [stock.reserved EXCEPT ![i] = AtMost(@, n)]
    <3>1. CASE EditQuantity(i, n)
      BY <3>1 DEF EditQuantity, Ledger
    <3>2. CASE PostCountLine(i, n)
      BY <3>2 DEF PostCountLine, Ledger
    <3> QED
      BY <1>6, <3>1, <3>2
  <2>2. \A j \in Item : Held(stock', j) = Held(stock, j)
    BY <2>1 DEF Held, Holders
  <2>3. \A j \in Item : /\ stock'.reserved[j] <= stock.reserved[j]
                        /\ stock.reserved[j] \in Nat /\ stock'.reserved[j] \in Nat
    BY <2>1 DEF Ledger, AtMost
  <2>4. \A j \in Item : Held(stock, j) \in Nat
    BY HeldType
  <2> QED
    BY <2>2, <2>3, <2>4 DEF AtMostHeldIn
<1> QED
  BY <1>1, <1>2, <1>3, <1>4, <1>5, <1>6, EditedAssumption, CountedFactsAssumption
     DEF WritersNext, ServiceNext, OtherWriters

\* Whoever writes, no stock is withheld on behalf of nobody: the counter stays explained by
\* active reservations, though an edit or a count no longer keeps it equal to their sum.
THEOREM ReservedAtMostHeldTheorem == WritersSpec => []ReservedAtMostHeld
<1>1. ServiceInit => ReservedAtMostHeld
  <2>1. /\ Found \in Ledger
        /\ \A i \in Item : Found.reserved[i] = Held(Found, i)
    BY FoundAssumption DEF LedgerLaws, ReservedIsHeldIn
  <2>2. \A i \in Item : Held(Found, i) \in Nat
    BY <2>1, HeldType
  <2> QED
    BY <2>1, <2>2 DEF ServiceInit, ReservedAtMostHeld
<1>2. StockTypeOK /\ ReservedAtMostHeld /\ [WritersNext]_stock => ReservedAtMostHeld'
  <2>1. ReservedAtMostHeld <=> AtMostHeldIn(stock)
    BY DEF ReservedAtMostHeld, AtMostHeldIn
  <2>2. ReservedAtMostHeld' <=> AtMostHeldIn(stock')
    BY DEF ReservedAtMostHeld, AtMostHeldIn
  <2> QED
    BY <2>1, <2>2, AtMostHeldStep
<1> QED
  BY <1>1, <1>2, StockTypeTheorem, PTL DEF WritersSpec

-----------------------------------------------------------------------------
(* Interleaved transactions: what a request has still to do                *)

\* Scans and status changes that do not reserve have one task, ...
IsDirect(s) == s.call.handler \in {"confirm", "complete", "cancel"} /\ s.take = 0

TaskOf(c) == c.tasks[1]

Do(op, t) == [op |-> op, task |-> t]

\* ... whose status they write, ...
TaskOp(c) == IF c.handler = "cancel" THEN "cancelled" ELSE "completed"

\* ... and whose reservation they end.
RowOp(c) == IF c.handler = "cancel" THEN "release" ELSE "consume"

\* The statement of a direct call that has n to go, and all of them.
OpAt(c, n) ==
    CASE n = 5 -> "readTask"
      [] n = 4 -> "loadItem"
      [] n = 3 -> TaskOp(c)
      [] n = 2 -> "readRow"
      [] OTHER -> RowOp(c)

Last(c, n) == [k \in 1 .. n |-> Do(OpAt(c, n + 1 - k), TaskOf(c))]

LEMMA LastFacts ==
  ASSUME NEW c, NEW n \in 0 .. 5
  PROVE  /\ n = 0 <=> Last(c, n) = <<>>
         /\ n > 0 => /\ Head(Last(c, n)) = Do(OpAt(c, n), TaskOf(c))
                     /\ Tail(Last(c, n)) = Last(c, n - 1)
<1> DEFINE X == {Do(OpAt(c, k), TaskOf(c)) : k \in Int}
           S == Last(c, n)
<1>1. S \in Seq(X) /\ Len(S) = n /\ \A k \in 1 .. n : S[k] = Do(OpAt(c, n + 1 - k), TaskOf(c))
  <2>1. \A k \in 1 .. n : n + 1 - k \in Int
    OBVIOUS
  <2>2. \A k \in 1 .. n : Do(OpAt(c, n + 1 - k), TaskOf(c)) \in X
    BY <2>1
  <2> HIDE DEF X
  <2> QED
    BY <2>2 DEF Last
<1>2. CASE n = 0
  <2>1. S = <<>>
    BY <1>1, <1>2
  <2> QED
    BY <1>2, <2>1
<1>3. CASE n > 0
  <2>1. /\ Last(c, n - 1) \in Seq(X) /\ Len(Last(c, n - 1)) = n - 1
        /\ \A k \in 1 .. (n - 1) : Last(c, n - 1)[k] = Do(OpAt(c, n - k), TaskOf(c))
    <3>1. \A k \in 1 .. (n - 1) : (n - 1) + 1 - k = n - k /\ n - k \in Int
      BY <1>3
    <3>2. \A k \in 1 .. (n - 1) : Do(OpAt(c, n - k), TaskOf(c)) \in X
      BY <3>1
    <3>3. Last(c, n - 1) = [k \in 1 .. (n - 1) |-> Do(OpAt(c, n - k), TaskOf(c))]
      BY <3>1 DEF Last
    <3>4. n - 1 \in Nat
      BY <1>3
    <3> HIDE DEF X
    <3> QED
      BY <3>2, <3>3, <3>4
  <2>2. PICK s, u : s = S /\ u = Last(c, n - 1)
    OBVIOUS
  <2> HIDE DEF S, X
  <2>3. s \in Seq(X) /\ Len(s) = n /\ s # <<>> /\ Head(s) = Do(OpAt(c, n), TaskOf(c))
    BY <1>1, <1>3, <2>2
  <2>4. Len(Tail(s)) = n - 1 /\ Tail(s) \in Seq(X) /\ \A k \in 1 .. (n - 1) : Tail(s)[k] = s[k + 1]
    BY <2>3
  <2>5. \A k \in 1 .. (n - 1) : s[k + 1] = u[k]
    <3> SUFFICES ASSUME NEW k \in 1 .. (n - 1) PROVE s[k + 1] = u[k]
      OBVIOUS
    <3>1. k + 1 \in 1 .. n /\ n + 1 - (k + 1) = n - k
      OBVIOUS
    <3> QED
      BY <1>1, <2>1, <2>2, <3>1
  <2>6. Tail(s) = u
    BY <2>1, <2>2, <2>4, <2>5
  <2> QED
    BY <1>3, <2>2, <2>3, <2>6 DEF S
<1> QED
  BY <1>2, <1>3

LEMMA TailSeq == ASSUME NEW X, NEW s \in Seq(X) PROVE Tail(s) \in Seq(X)
<1>1. CASE s = <<>>
  <2>1. Tail(<<>>) = <<>>
    OBVIOUS
  <2> QED
    BY <1>1, <2>1
<1>2. CASE s # <<>>
  BY <1>2
<1> QED
  BY <1>1, <1>2

\* Statements that are run for each task in turn.
LEMMA ForEachType ==
  ASSUME NEW O, NEW ops \in Seq(O), NEW T, NEW tasks \in Seq(T), Len(ops) \in {3, 4, 6}
  PROVE  ForEach(ops, tasks) \in Seq([op : O, task : T])
<1>1. PICK L \in Nat : L = Len(tasks)
  OBVIOUS
<1>2. ASSUME NEW m \in {3, 4, 6}, Len(ops) = m,
             \A n \in 1 .. m * L : ((n - 1) % m) + 1 \in 1 .. m /\ (n - 1) \div m + 1 \in 1 .. L
      PROVE  ForEach(ops, tasks) \in Seq([op : O, task : T])
  <2>1. m * L \in Nat
    BY <1>1
  <2>2. ForEach(ops, tasks)
          = [n \in 1 .. m * L |-> [op |-> ops[((n - 1) % m) + 1], task |-> tasks[((n - 1) \div m) + 1]]]
    BY <1>1, <1>2 DEF ForEach
  <2>3. \A n \in 1 .. m * L : [op |-> ops[((n - 1) % m) + 1], task |-> tasks[((n - 1) \div m) + 1]]
                               \in [op : O, task : T]
    BY <1>1, <1>2
  <2> QED
    BY <2>1, <2>2, <2>3
<1>3. CASE Len(ops) = 3
  <2>1. \A n \in 1 .. 3 * L : ((n - 1) % 3) + 1 \in 1 .. 3 /\ (n - 1) \div 3 + 1 \in 1 .. L
    OBVIOUS
  <2> QED
    BY <1>2, <1>3, <2>1
<1>4. CASE Len(ops) = 4
  <2>1. \A n \in 1 .. 4 * L : ((n - 1) % 4) + 1 \in 1 .. 4 /\ (n - 1) \div 4 + 1 \in 1 .. L
    OBVIOUS
  <2> QED
    BY <1>2, <1>4, <2>1
<1>5. CASE Len(ops) = 6
  <2>1. \A n \in 1 .. 6 * L : ((n - 1) % 6) + 1 \in 1 .. 6 /\ (n - 1) \div 6 + 1 \in 1 .. L
    OBVIOUS
  <2> QED
    BY <1>2, <1>5, <2>1
<1> QED
  BY <1>3, <1>4, <1>5

\* A direct call has its list of five or of three before it.
LEMMA DirectTodo ==
  ASSUME NEW c, c.handler \in {"confirm", "complete", "cancel"}, Len(c.tasks) = 1
  PROVE  \E n \in 3 .. 5 : Todo(c) = Last(c, n)
<1>1. PICK ops : ops = Statements(c.handler)
  OBVIOUS
<1>2. CASE c.handler = "confirm"
  <2>1. Len(ops) = 5 /\ \A k \in 1 .. 5 : ops[k] = OpAt(c, 6 - k)
    <3>1. ops = <<"readTask", "loadItem", "completed", "readRow", "consume">>
      BY <1>1, <1>2 DEF Statements
    <3>2. /\ OpAt(c, 5) = "readTask" /\ OpAt(c, 4) = "loadItem" /\ OpAt(c, 3) = "completed"
          /\ OpAt(c, 2) = "readRow" /\ OpAt(c, 1) = "consume"
      BY <1>2 DEF OpAt, TaskOp, RowOp
    <3> QED
      BY <3>1, <3>2
  <2>2. \A k \in 1 .. 5 : (k - 1) % 5 = k - 1 /\ (k - 1) \div 5 = 0
    OBVIOUS
  <2>3. Todo(c) = [k \in 1 .. 5 |-> [op |-> ops[((k - 1) % 5) + 1], task |-> c.tasks[((k - 1) \div 5) + 1]]]
    <3>1. Len(ops) * Len(c.tasks) = 5
      BY <2>1
    <3> QED
      BY <1>1, <2>1, <3>1 DEF Todo, ForEach
  <2>4. Todo(c) = [k \in 1 .. 5 |-> [op |-> ops[k], task |-> c.tasks[1]]]
    BY <2>2, <2>3
  <2>5. Todo(c) = Last(c, 5)
    BY <2>1, <2>4 DEF Last, Do, TaskOf
  <2> QED
    BY <2>5
<1>3. CASE c.handler \in {"complete", "cancel"}
  <2>1. Len(ops) = 3 /\ \A k \in 1 .. 3 : ops[k] = OpAt(c, 4 - k)
    <3>1. ops = <<TaskOp(c), "readRow", RowOp(c)>>
      BY <1>1, <1>3 DEF Statements, TaskOp, RowOp
    <3>2. OpAt(c, 3) = TaskOp(c) /\ OpAt(c, 2) = "readRow" /\ OpAt(c, 1) = RowOp(c)
      BY DEF OpAt
    <3> QED
      BY <3>1, <3>2
  <2>2. \A k \in 1 .. 3 : (k - 1) % 3 = k - 1 /\ (k - 1) \div 3 = 0
    OBVIOUS
  <2>3. Todo(c) = [k \in 1 .. 3 |-> [op |-> ops[((k - 1) % 3) + 1], task |-> c.tasks[((k - 1) \div 3) + 1]]]
    <3>1. Len(ops) * Len(c.tasks) = 3
      BY <2>1
    <3> QED
      BY <1>1, <2>1, <3>1 DEF Todo, ForEach
  <2>4. Todo(c) = [k \in 1 .. 3 |-> [op |-> ops[k], task |-> c.tasks[1]]]
    BY <2>2, <2>3
  <2>5. Todo(c) = Last(c, 3)
    BY <2>1, <2>4 DEF Last, Do, TaskOf
  <2> QED
    BY <2>5
<1> QED
  BY <1>2, <1>3

-----------------------------------------------------------------------------
(* The invariant: how far a session has come, and what it may rely on.     *)

IsSession(s) ==
    s = [call |-> s.call, phase |-> s.phase, todo |-> s.todo, item |-> s.item, dirty |-> s.dirty,
         rows |-> s.rows, tasks |-> s.tasks, row |-> s.row, take |-> s.take]

\* Tasks of the items that are only picked from, and the others.
PurePicks == {t \in Task : ItemOf[t] \in PickedItems}
Others == Task \ PurePicks

\* The statements of the requests that lock items first: they stay away from such items.
AwayOps(handler) ==
    CASE handler = "plan"     -> {"refresh", "readRow", "reserve"}
      [] handler = "no_stock" -> {"readTask", "readRow", "release", "blocked"}
      [] OTHER                -> {"loadItem", "readRow", "reserve", "completed", "consume"}

Away(r, s) ==
    /\ s.todo \in Seq([op : AwayOps(s.call.handler), task : Others])
    /\ \A t \in PurePicks : t \notin DOMAIN s.rows /\ t \notin DOMAIN s.tasks /\ taskLock[t] # r
    /\ \A i \in PickedItems, name \in {"quantity", "reserved"} : <<i, name>> \notin s.dirty

\* Units of i that picks have written off, and that they are still to write off.
Taken(i)    == Total(stock.amount, {t \in TasksOf(i) : stock.state[t] = "consumed"})
Promised(i) == Total(stock.amount, {t \in TasksOf(i) : stock.state[t] = "active"})

\* A quantity and a counter that are on the safe side.
Enough(i, quantity, reserved) ==
    /\ quantity \in Nat /\ reserved \in Nat
    /\ quantity + Taken(i) >= Shelf[i]
    /\ reserved >= Promised(i)

\* What s writes of the reservation of t, held as long as s has the lock of t.
Wrote(s, t, i) ==
    /\ stock.state[t] = "active"
    /\ DOMAIN s.rows = {t}
    /\ s.rows[t].state \in {"consumed", "released"}
    /\ s.rows[t].source = stock.source[t] /\ s.rows[t].amount = stock.amount[t]
    /\ s.item[i].quantity \in Nat /\ s.item[i].reserved \in Nat
    /\ s.item[i].quantity + Taken(i)
         + (IF s.rows[t].state = "consumed" THEN stock.amount[t] ELSE 0) >= Shelf[i]
    /\ s.item[i].reserved + stock.amount[t] >= Promised(i)

OnPicked(s, n, t, i) ==
    /\ n >= 1 /\ s.item[i].loaded => Enough(i, s.item[i].quantity, s.item[i].reserved)
    /\ n = 1 => s.row = Row(stock, t) /\ stock.state[t] = "active"
    /\ n = 0 => (DOMAIN s.rows = {} /\ s.dirty = {}) \/ Wrote(s, t, i)

\* A direct session locks its task before it writes its status, and its item last.
Stage(r, s, n) ==
  LET t == TaskOf(s.call)
      i == ItemOf[t]
  IN  /\ s.todo = Last(s.call, n)
      /\ n >= 1 => /\ \A j \in Item : itemLock[j] # r
                   /\ s.dirty = {} /\ DOMAIN s.rows = {} /\ DOMAIN s.item = Item
      /\ n >= 3 => /\ \A u \in Task : taskLock[u] # r
                   /\ DOMAIN s.tasks = {}
      /\ n <= 2 => /\ taskLock[t] = r
                   /\ DOMAIN s.tasks = {t} /\ s.tasks[t] \in {"completed", "cancelled"}
      /\ DOMAIN s.rows \subseteq {t}
      /\ s.dirty \subseteq {i} \X {"quantity", "reserved"}
      /\ t \in PurePicks => OnPicked(s, n, t, i)

SessionFits(r, s) == IF IsDirect(s) THEN \E n \in 0 .. 5 : Stage(r, s, n) ELSE Away(r, s)

SessionOK(r) ==
    LET s == session[r]
    IN  /\ IsSession(s) /\ s.call \in Calls
        /\ s.phase = "running" => SessionFits(r, s)

LocksOK ==
    /\ itemLock \in [Item -> Request \cup {Nobody}]
    /\ taskLock \in [Task -> Request \cup {Nobody}]

RowsOK ==
    /\ \A t \in PurePicks : stock.amount[t] = StockBefore.amount[t] /\ taskStatus[t] # "blocked"
    /\ \A i \in PickedItems : Enough(i, stock.quantity[i], stock.reserved[i])

TxInv ==
    /\ LocksOK
    /\ RowsOK
    /\ DOMAIN session = Request
    /\ \A r \in Request : SessionOK(r)

-----------------------------------------------------------------------------
(* Sums over the tasks of a picked item                                    *)

LEMMA PicksTasks ==
  /\ \A i \in PickedItems : i \in Item /\ TasksOf(i) \subseteq PurePicks
  /\ PurePicks \subseteq Task /\ Others \subseteq Task
  /\ \A t \in Task : ItemOf[t] \in Item
  /\ \A t \in PurePicks : ItemOf[t] \in PickedItems /\ t \in TasksOf(ItemOf[t])
  BY TaskDataAssumption DEF PickedItems, TasksOf, PurePicks, Others

LEMMA StockBeforeLaws ==
  /\ LedgerLaws(StockBefore, Shelf)
  /\ \A t \in Task : StockBefore.state[t] \in {"none", "active"}
  /\ \A t \in Task : StockBefore.state[t] = "active" => StockBefore.source[t] = ItemOf[t]
<1> DEFINE s == EmptyLedger(Shelf)
<1>1. LedgerLaws(s, Shelf) /\ \A t \in Task : s.state[t] = "none"
  BY ShelfAssumption, EmptyLedgerLaws DEF EmptyLedger
<1>2. PlannedQuantity \in [PlannedBefore -> Nat] /\ PlannedBefore \in SUBSET Task
  BY TaskDataAssumption DEF PlannedQuantity
<1> HIDE DEF s
<1>3. CanReserveAll(s, ItemOf, PlannedQuantity)
  BY PlannedAssumption DEF s
<1>4. LedgerLaws(ReserveAll(s, ItemOf, PlannedQuantity), Shelf)
  BY <1>1, <1>2, <1>3, ShelfAssumption, TaskDataAssumption, ReserveAllKeepsLaws
<1>5. /\ \A t \in Task : ReserveAll(s, ItemOf, PlannedQuantity).state[t] \in {"none", "active"}
      /\ \A t \in Task : ReserveAll(s, ItemOf, PlannedQuantity).state[t] = "active"
           => ReserveAll(s, ItemOf, PlannedQuantity).source[t] = ItemOf[t]
  BY <1>1 DEF ReserveAll
<1> QED
  BY <1>4, <1>5 DEF StockBefore, s

\* The amounts of the rows of picks do not change, so the sums are over a fixed function.
LEMMA PickSums ==
  ASSUME RowsOK, NEW i \in PickedItems
  PROVE  /\ StockBefore.amount \in [Task -> Nat]
         /\ Taken(i) = Total(StockBefore.amount, {t \in TasksOf(i) : stock.state[t] = "consumed"})
         /\ Promised(i) = Total(StockBefore.amount, {t \in TasksOf(i) : stock.state[t] = "active"})
         /\ Taken(i) \in Nat /\ Promised(i) \in Nat
<1> DEFINE C == {t \in TasksOf(i) : stock.state[t] = "consumed"}
           A == {t \in TasksOf(i) : stock.state[t] = "active"}
<1>1. StockBefore.amount \in [Task -> Nat]
  BY StockBeforeLaws DEF LedgerLaws, Ledger
<1>2. C \in SUBSET Task /\ A \in SUBSET Task /\ \A t \in C \cup A : t \in PurePicks
  BY PicksTasks DEF TasksOf
<1>3. \A t \in C \cup A : stock.amount[t] = StockBefore.amount[t]
  BY <1>2 DEF RowsOK
<1> HIDE DEF C, A
<1>4. Total(stock.amount, C) = Total(StockBefore.amount, C) /\ Total(stock.amount, A) = Total(StockBefore.amount, A)
  BY <1>3, TotalSame
<1>5. Total(StockBefore.amount, C) \in Nat /\ Total(StockBefore.amount, A) \in Nat
  BY <1>1, <1>2, TaskAssumption, TotalType
<1> QED
  BY <1>1, <1>4, <1>5 DEF C, A, Taken, Promised

-----------------------------------------------------------------------------
(* What a step of one session does to the others                           *)

\* The sums never grow the wrong way: rows of picks only go from active to written off or
\* released, and only while r has the lock of the task.
OthersKept(r) ==
    /\ DOMAIN session' = Request
    /\ \A q \in Request \ {r} :
          /\ session'[q] = session[q]
          /\ \A i \in Item : itemLock'[i] = q => itemLock[i] = q
          /\ \A t \in Task : taskLock'[t] = q <=> taskLock[t] = q
    /\ \A t \in PurePicks :
          /\ stock'.amount[t] = stock.amount[t] /\ stock'.source[t] = stock.source[t]
          /\ \/ stock'.state[t] = stock.state[t]
             \/ /\ taskLock[t] = r
                /\ stock.state[t] = "active" /\ stock'.state[t] \in {"consumed", "released"}

LEMMA TotalSubset ==
  ASSUME NEW S, IsFiniteSet(S), NEW f \in [S -> Nat], NEW U \in SUBSET S, NEW T \in SUBSET U
  PROVE  Total(f, T) <= Total(f, U) /\ Total(f, T) \in Nat /\ Total(f, U) \in Nat
<1>1. Units(f, T) \subseteq Units(f, U)
  BY DEF Units
<1>2. IsFiniteSet(Units(f, U)) /\ Total(f, U) \in Nat /\ Total(f, T) \in Nat
  BY TotalType
<1> QED
  BY <1>1, <1>2, FS_Subset DEF Total

LEMMA SumsMove ==
  ASSUME RowsOK, NEW r, OthersKept(r), NEW i \in PickedItems
  PROVE  /\ Taken(i) <= Taken(i)' /\ Promised(i)' <= Promised(i)
         /\ Taken(i) \in Nat /\ Taken(i)' \in Nat /\ Promised(i) \in Nat /\ Promised(i)' \in Nat
<1> DEFINE f     == StockBefore.amount
           C(st) == {t \in TasksOf(i) : st.state[t] = "consumed"}
           A(st) == {t \in TasksOf(i) : st.state[t] = "active"}
<1>1. /\ f \in [Task -> Nat] /\ Taken(i) = Total(f, C(stock)) /\ Promised(i) = Total(f, A(stock))
  BY PickSums
<1>2. PICK new : new = stock'
  OBVIOUS
<1>3. \A t \in PurePicks : /\ new.amount[t] = f[t]
                       /\ \/ new.state[t] = stock.state[t]
                          \/ stock.state[t] = "active" /\ new.state[t] \in {"consumed", "released"}
  BY <1>2 DEF OthersKept, RowsOK
<1>4. TasksOf(i) \subseteq PurePicks /\ PurePicks \subseteq Task
  BY PicksTasks
<1>5. C(stock) \subseteq C(new) /\ A(new) \subseteq A(stock)
  BY <1>3, <1>4
<1>6. C(new) \in SUBSET Task /\ A(stock) \in SUBSET Task /\ C(new) \subseteq PurePicks /\ A(new) \subseteq PurePicks
  BY <1>4
<1>7. Taken(i)' = Total(new.amount, C(new)) /\ Promised(i)' = Total(new.amount, A(new))
  BY <1>2 DEF Taken, Promised
<1> HIDE DEF f, C, A
<1>8. Total(new.amount, C(new)) = Total(f, C(new)) /\ Total(new.amount, A(new)) = Total(f, A(new))
  BY <1>3, <1>6, TotalSame
<1>9. /\ Total(f, C(stock)) <= Total(f, C(new)) /\ Total(f, C(stock)) \in Nat /\ Total(f, C(new)) \in Nat
      /\ Total(f, A(new)) <= Total(f, A(stock)) /\ Total(f, A(new)) \in Nat /\ Total(f, A(stock)) \in Nat
  BY <1>1, <1>5, <1>6, TaskAssumption, TotalSubset
<1> QED
  BY <1>1, <1>7, <1>8, <1>9

LEMMA OtherStays ==
  ASSUME TxInv, NEW r \in Request, OthersKept(r), NEW q \in Request \ {r}
  PROVE  SessionOK(q)'
<1>1. PICK s : s = session[q]
  OBVIOUS
<1>2. /\ session'[q] = s /\ IsSession(s) /\ s.call \in Calls
      /\ s.phase = "running" => SessionFits(q, s)
  BY <1>1 DEF OthersKept, TxInv, SessionOK
<1>3. /\ \A i \in Item : itemLock'[i] = q => itemLock[i] = q
      /\ \A t \in Task : taskLock'[t] = q <=> taskLock[t] = q
  BY DEF OthersKept
<1>4. ASSUME Away(q, s) PROVE Away(q, s)'
  BY <1>3, <1>4, PicksTasks DEF Away
<1>5. ASSUME NEW n \in 0 .. 5, Stage(q, s, n), IsDirect(s) PROVE Stage(q, s, n)'
  <2>1. PICK t, i : t = TaskOf(s.call) /\ i = ItemOf[t]
    OBVIOUS
  <2>2. t \in Task
    BY <1>2, <1>5, <2>1, CallsAssumption DEF IsDirect, TaskOf
  <2>3. ASSUME t \in PurePicks PROVE OnPicked(s, n, t, i)'
    <3>1. OnPicked(s, n, t, i) /\ i \in PickedItems
      BY <1>5, <2>1, <2>3, PicksTasks DEF Stage
    <3>2. /\ Taken(i) <= Taken(i)' /\ Promised(i)' <= Promised(i)
          /\ Taken(i) \in Nat /\ Taken(i)' \in Nat /\ Promised(i) \in Nat /\ Promised(i)' \in Nat
      BY <3>1, SumsMove DEF TxInv
    <3>3. n <= 2 => stock'.state[t] = stock.state[t]
      BY <1>5, <2>1, <2>3 DEF Stage, OthersKept
    <3>4. stock'.amount[t] = stock.amount[t] /\ stock'.source[t] = stock.source[t]
      BY <2>3 DEF OthersKept
    <3>5. stock.amount[t] \in Nat /\ Shelf[i] \in Nat
      <4>1. stock.amount[t] = StockBefore.amount[t]
        BY <2>3 DEF TxInv, RowsOK
      <4> QED
        BY <2>2, <3>1, <4>1, PicksTasks, ShelfAssumption, StockBeforeLaws DEF LedgerLaws, Ledger
    <3>6. ASSUME n >= 1, s.item[i].loaded PROVE Enough(i, s.item[i].quantity, s.item[i].reserved)'
      <4>1. Enough(i, s.item[i].quantity, s.item[i].reserved)
        BY <3>1, <3>6 DEF OnPicked
      <4> QED
        BY <3>2, <3>5, <4>1 DEF Enough
    <3>7. n = 1 => (s.row = Row(stock, t) /\ stock.state[t] = "active")'
      BY <3>1, <3>3, <3>4 DEF OnPicked, Row
    <3>8. ASSUME n = 0, Wrote(s, t, i) PROVE Wrote(s, t, i)'
      BY <3>2, <3>3, <3>4, <3>5, <3>8 DEF Wrote
    <3> QED
      BY <3>1, <3>6, <3>7, <3>8 DEF OnPicked
  <2> QED
    BY <1>3, <1>5, <2>1, <2>2, <2>3 DEF Stage
<1>6. ASSUME s.phase = "running" PROVE SessionFits(q, s)'
  <2>1. CASE IsDirect(s)
    BY <1>2, <1>5, <1>6, <2>1 DEF SessionFits
  <2>2. CASE ~IsDirect(s)
    BY <1>2, <1>4, <1>6, <2>2 DEF SessionFits
  <2> QED
    BY <2>1, <2>2
<1> QED
  BY <1>2, <1>6 DEF SessionOK

\* A step that leaves the ledger alone keeps the invariant if its own session is all right.
LEMMA QuietStep ==
  ASSUME TxInv, NEW r \in Request, stock' = stock, taskStatus' = taskStatus, LocksOK',
         DOMAIN session' = Request,
         \A q \in Request \ {r} : /\ session'[q] = session[q]
                                  /\ \A i \in Item : itemLock'[i] = q => itemLock[i] = q
                                  /\ \A t \in Task : taskLock'[t] = q <=> taskLock[t] = q,
         SessionOK(r)'
  PROVE  TxInv'
<1>1. OthersKept(r)
  BY DEF OthersKept
<1>2. \A q \in Request : SessionOK(q)'
  BY <1>1, OtherStays
<1>3. RowsOK'
  <2>1. RowsOK
    BY DEF TxInv
  <2>2. \A i \in PickedItems : Taken(i)' = Taken(i) /\ Promised(i)' = Promised(i)
    BY DEF Taken, Promised
  <2>3. \A i \in PickedItems : Enough(i, stock.quantity[i], stock.reserved[i])'
    BY <2>1, <2>2 DEF RowsOK, Enough
  <2> QED
    BY <2>1, <2>3 DEF RowsOK
<1> QED
  BY <1>2, <1>3 DEF TxInv

-----------------------------------------------------------------------------
(* The end of a session, and going on                                      *)

LEMMA EndStep ==
  ASSUME TxInv, NEW r \in Request, EndSession(r)
  PROVE  /\ DOMAIN session' = Request
         /\ \A q \in Request \ {r} : /\ session'[q] = session[q]
                                     /\ \A i \in Item : itemLock'[i] = q => itemLock[i] = q
                                     /\ \A t \in Task : taskLock'[t] = q <=> taskLock[t] = q
         /\ LocksOK' /\ SessionOK(r)'
<1>1. LocksOK /\ SessionOK(r) /\ DOMAIN session = Request
  BY DEF TxInv
<1>2. /\ itemLock' = [i \in Item |-> IF itemLock[i] = r THEN Nobody ELSE itemLock[i]]
      /\ taskLock' = [t \in Task |-> IF taskLock[t] = r THEN Nobody ELSE taskLock[t]]
  BY DEF EndSession
<1>3. LocksOK'
  BY <1>1, <1>2 DEF LocksOK
<1> DEFINE ended(c) == [Fresh(c) EXCEPT !.phase = "ended", !.todo = <<>>]
<1>4. session' = [session EXCEPT ![r] = ended(session[r].call)]
  BY DEF EndSession
<1>5. ASSUME NEW c PROVE ended(c).call = c /\ ended(c).phase = "ended" /\ IsSession(ended(c))
  <2> DEFINE todo  == Todo(c)
             items  == [i \in Item |-> NotLoaded]
             none  == {}
             empty == <<>>
  <2>1. Fresh(c) = [call |-> c, phase |-> "running", todo |-> todo, item |-> items, dirty |-> none,
                    rows |-> empty, tasks |-> empty, row |-> NoRow, take |-> 0]
    BY DEF Fresh
  <2>2. ended(c) = [Fresh(c) EXCEPT !.phase = "ended", !.todo = empty]
    OBVIOUS
  <2> HIDE DEF todo, items, none, empty, ended
  <2>3. IsSession(Fresh(c)) /\ Fresh(c).call = c
    BY <2>1 DEF IsSession
  <2>4. PICK f : f = Fresh(c)
    OBVIOUS
  <2>5. ended(c) = [call |-> c, phase |-> "ended", todo |-> empty, item |-> f.item, dirty |-> f.dirty,
                    rows |-> f.rows, tasks |-> f.tasks, row |-> f.row, take |-> f.take]
    BY <2>2, <2>3, <2>4 DEF IsSession
  <2> QED
    BY <2>5 DEF IsSession
<1> HIDE DEF ended
<1>6. DOMAIN session' = Request /\ \A q \in Request \ {r} : session'[q] = session[q]
  BY <1>1, <1>4
<1>7. session'[r] = ended(session[r].call) /\ session[r].call \in Calls
  BY <1>1, <1>4 DEF SessionOK
<1>8. SessionOK(r)'
  BY <1>5, <1>7 DEF SessionOK
<1>9. ASSUME NEW q \in Request \ {r}
      PROVE  /\ \A i \in Item : itemLock'[i] = q => itemLock[i] = q
             /\ \A t \in Task : taskLock'[t] = q <=> taskLock[t] = q
  BY <1>1, <1>2, NobodyAssumption DEF LocksOK
<1> QED
  BY <1>3, <1>6, <1>8, <1>9

\* An error undoes the request.
LEMMA RollbackStep == ASSUME TxInv, NEW r \in Request, Rollback(r) PROVE TxInv'
  BY EndStep, QuietStep DEF Rollback

\* s has these fields, and runs.
Is(s, call, todo, entry, dirty, rows, tasks, row, take) ==
    s = [call |-> call, phase |-> "running", todo |-> todo, item |-> entry, dirty |-> dirty,
         rows |-> rows, tasks |-> tasks, row |-> row, take |-> take]

LEMMA IsRunning ==
  ASSUME TxInv, NEW r \in Request, Running(r), NEW s, s = session[r]
  PROVE  /\ Is(s, s.call, s.todo, s.item, s.dirty, s.rows, s.tasks, s.row, s.take)
         /\ s.call \in Calls /\ SessionFits(r, s)
  BY DEF Running, TxInv, SessionOK, IsSession, Is

\* A session that goes on is all right if what it has become fits the locks.
LEMMA ContinueStep ==
  ASSUME TxInv, NEW r \in Request, stock' = stock, taskStatus' = taskStatus,
         \/ itemLock' = itemLock
         \/ \E i \in Item : itemLock[i] \in {Nobody, r} /\ itemLock' = [itemLock EXCEPT ![i] = r],
         \/ taskLock' = taskLock
         \/ \E t \in Task : taskLock[t] \in {Nobody, r} /\ taskLock' = [taskLock EXCEPT ![t] = r],
         NEW call \in Calls, NEW old, NEW todo, NEW entry, NEW dirty, NEW rows, NEW tasks, NEW row, NEW take,
         NEW s, Is(s, call, old, entry, dirty, rows, tasks, row, take), Continue(r, s, todo),
         NEW s2, Is(s2, call, todo, entry, dirty, rows, tasks, row, take), SessionFits(r, s2)'
  PROVE  TxInv'
<1>1. s2 = [s EXCEPT !.todo = todo]
  BY DEF Is
<1>2. session' = [session EXCEPT ![r] = s2] /\ DOMAIN session = Request /\ LocksOK
  BY <1>1 DEF Continue, TxInv
<1>3. DOMAIN session' = Request /\ session'[r] = s2 /\ \A q \in Request \ {r} : session'[q] = session[q]
  BY <1>2
<1>4. IsSession(s2) /\ s2.call \in Calls /\ s2.phase = "running"
  BY DEF Is, IsSession
<1>5. SessionOK(r)'
  BY <1>3, <1>4 DEF SessionOK
<1>6. LocksOK' /\ \A q \in Request \ {r} : /\ \A i \in Item : itemLock'[i] = q => itemLock[i] = q
                                           /\ \A t \in Task : taskLock'[t] = q <=> taskLock[t] = q
  BY <1>2, NobodyAssumption DEF LocksOK
<1> QED
  BY <1>3, <1>5, <1>6, QuietStep

-----------------------------------------------------------------------------
(* The start *)

LEMMA NoDomain == DOMAIN <<>> = {}
  OBVIOUS

LEMMA FreshFits ==
  ASSUME NEW r, NEW c \in Calls, \A i \in Item : itemLock[i] # r, \A t \in Task : taskLock[t] # r
  PROVE  SessionFits(r, Fresh(c))
<1> DEFINE items == [i \in Item |-> NotLoaded]
           none  == {}
<1>1. PICK s : s = Fresh(c)
  OBVIOUS
<1>2. /\ s.call = c /\ s.todo = Todo(c) /\ s.item = items /\ s.dirty = none /\ s.take = 0
      /\ s.rows = <<>> /\ s.tasks = <<>>
  BY <1>1 DEF Fresh
<1>3. DOMAIN items = Item /\ \A i \in Item : items[i].loaded = FALSE
  BY DEF NotLoaded
<1> HIDE DEF items
<1>4. DOMAIN s.rows = {} /\ DOMAIN s.tasks = {} /\ s.dirty = {} /\ DOMAIN s.item = Item
  BY <1>2, <1>3, NoDomain
<1>5. c.handler \in Handler /\ c.tasks \in Seq(Task) /\ c.tasks # <<>> /\ (c.handler # "plan" => Len(c.tasks) = 1)
  BY CallsAssumption
<1>6. CASE IsDirect(s)
  <2>1. c.handler \in {"confirm", "complete", "cancel"} /\ Len(c.tasks) = 1
    BY <1>2, <1>5, <1>6 DEF IsDirect
  <2>2. PICK n \in 3 .. 5 : Todo(c) = Last(c, n)
    BY <2>1, DirectTodo
  <2>3. TaskOf(c) \in Task /\ ItemOf[TaskOf(c)] \in Item
    BY <1>5, TaskDataAssumption DEF TaskOf
  <2>4. s.item[ItemOf[TaskOf(c)]].loaded = FALSE
    BY <1>2, <1>3, <2>3
  <2>5. OnPicked(s, n, TaskOf(c), ItemOf[TaskOf(c)])
    BY <2>2, <2>4 DEF OnPicked
  <2>6. Stage(r, s, n)
    BY <1>2, <1>4, <2>2, <2>5 DEF Stage
  <2> QED
    BY <1>1, <1>6, <2>2, <2>6 DEF SessionFits
<1>7. CASE ~IsDirect(s)
  <2>1. c.handler \in {"plan", "no_stock"}
    BY <1>2, <1>5, <1>7 DEF IsDirect, Handler
  <2>2. PICK ops : ops = Statements(c.handler)
    OBVIOUS
  <2>3. ops \in Seq(AwayOps(c.handler)) /\ Len(ops) \in {3, 4}
    <3> DEFINE O == AwayOps(c.handler)
    <3>1. CASE c.handler = "plan"
      <4>1. ops = <<"refresh", "readRow", "reserve">> /\ {"refresh", "readRow", "reserve"} \subseteq O
        BY <2>2, <3>1 DEF Statements, AwayOps
      <4> HIDE DEF O
      <4>2. ops \in Seq(O) /\ Len(ops) = 3
        BY <4>1
      <4> QED
        BY <4>2 DEF O
    <3>2. CASE c.handler = "no_stock"
      <4>1. /\ ops = <<"readTask", "readRow", "release", "blocked">>
            /\ {"readTask", "readRow", "release", "blocked"} \subseteq O
        BY <2>2, <3>2 DEF Statements, AwayOps
      <4> HIDE DEF O
      <4>2. ops \in Seq(O) /\ Len(ops) = 4
        BY <4>1
      <4> QED
        BY <4>2 DEF O
    <3> QED
      BY <2>1, <3>1, <3>2
  <2>4. \A n \in DOMAIN c.tasks : c.tasks[n] \in Others
    BY <1>5, <2>1 DEF Others, PurePicks, PickedItems
  <2>5. c.tasks \in Seq(Others)
    BY <1>5, <2>4
  <2>6. Todo(c) \in Seq([op : AwayOps(c.handler), task : Others])
    BY <2>2, <2>3, <2>5, ForEachType DEF Todo
  <2>7. Away(r, s)
    BY <1>2, <1>4, <2>6, PicksTasks DEF Away
  <2> QED
    BY <1>1, <1>7, <2>7 DEF SessionFits
<1> QED
  BY <1>6, <1>7

LEMMA FreshSession ==
  ASSUME NEW c PROVE IsSession(Fresh(c)) /\ Fresh(c).call = c
<1> DEFINE todo  == Todo(c)
           items == [i \in Item |-> NotLoaded]
           none  == {}
           empty == <<>>
<1>1. Fresh(c) = [call |-> c, phase |-> "running", todo |-> todo, item |-> items, dirty |-> none,
                  rows |-> empty, tasks |-> empty, row |-> NoRow, take |-> 0]
  BY DEF Fresh
<1> HIDE DEF todo, items, none, empty
<1> QED
  BY <1>1 DEF IsSession

LEMMA TxInitInv == ASSUME TxInit PROVE TxInv
<1>1. stock = StockBefore
  BY DEF TxInit
<1>2. LocksOK /\ DOMAIN session = Request
  BY DEF TxInit, LocksOK
<1>3. ASSUME NEW t \in PurePicks PROVE stock.amount[t] = StockBefore.amount[t] /\ taskStatus[t] # "blocked"
  BY <1>1, PicksTasks DEF TxInit
<1>4. ASSUME NEW i \in PickedItems PROVE Enough(i, stock.quantity[i], stock.reserved[i])
  <2>1. i \in Item /\ TasksOf(i) \subseteq Task
    BY PicksTasks
  <2>2. /\ stock \in Ledger /\ ReservedIsHeldIn(stock) /\ ConservedIn(stock, Shelf)
        /\ \A t \in Task : stock.state[t] \in {"none", "active"}
        /\ \A t \in Task : stock.state[t] = "active" => stock.source[t] = ItemOf[t]
    BY <1>1, StockBeforeLaws DEF LedgerLaws
  <2>3. /\ {t \in TasksOf(i) : stock.state[t] = "consumed"} = {}
        /\ Takers(stock, i) = {}
        /\ {t \in TasksOf(i) : stock.state[t] = "active"} = Holders(stock, i)
    BY <2>2 DEF TasksOf, Takers, Holders
  <2>4. Taken(i) = 0 /\ WrittenOff(stock, i) = 0 /\ Promised(i) = Held(stock, i)
    BY <2>3, TotalEmpty DEF Taken, WrittenOff, Promised, Held
  <2>5. stock.quantity[i] + WrittenOff(stock, i) = Shelf[i] /\ stock.reserved[i] = Held(stock, i)
    BY <2>1, <2>2 DEF ConservedIn, ReservedIsHeldIn
  <2>6. stock.quantity[i] \in Nat /\ stock.reserved[i] \in Nat
    BY <2>1, <2>2 DEF Ledger
  <2> QED
    BY <2>4, <2>5, <2>6 DEF Enough
<1>5. ASSUME NEW r \in Request PROVE SessionOK(r)
  <2>1. PICK c \in Calls : session[r] = Fresh(c)
    BY DEF TxInit
  <2>2. (\A i \in Item : itemLock[i] # r) /\ \A t \in Task : taskLock[t] # r
    BY NobodyAssumption DEF TxInit
  <2> QED
    BY <2>1, <2>2, FreshFits, FreshSession DEF SessionOK
<1> QED
  BY <1>2, <1>3, <1>4, <1>5 DEF TxInv, RowsOK

-----------------------------------------------------------------------------
(* The next statement *)

\* Of a session that locks its task first.
LEMMA AtDirect ==
  ASSUME TxInv, NEW r \in Request, NEW op, NEW t, At(r, op, t), NEW s, s = session[r], IsDirect(s)
  PROVE  \E n \in 1 .. 5 : /\ Stage(r, s, n) /\ op = OpAt(s.call, n) /\ t = TaskOf(s.call)
                           /\ Rest(r) = Last(s.call, n - 1)
<1>1. Running(r) /\ s.todo # <<>> /\ Head(s.todo) = Do(op, t)
  BY DEF At, Do
<1>2. PICK n \in 0 .. 5 : Stage(r, s, n)
  BY <1>1, IsRunning DEF SessionFits
<1>3. s.todo = Last(s.call, n)
  BY <1>2 DEF Stage
<1>4. n > 0 /\ Head(s.todo) = Do(OpAt(s.call, n), TaskOf(s.call)) /\ Tail(s.todo) = Last(s.call, n - 1)
  <2>1. n = 0 => s.todo = <<>>
    BY <1>3, LastFacts
  <2>2. n > 0
    BY <1>1, <2>1
  <2>3. /\ Head(Last(s.call, n)) = Do(OpAt(s.call, n), TaskOf(s.call))
        /\ Tail(Last(s.call, n)) = Last(s.call, n - 1)
    BY <2>2, LastFacts
  <2> QED
    BY <1>3, <2>2, <2>3
<1>5. op = OpAt(s.call, n) /\ t = TaskOf(s.call)
  BY <1>1, <1>4 DEF Do
<1> QED
  BY <1>2, <1>4, <1>5 DEF Rest

LEMMA OpIndex ==
  ASSUME NEW c, c.handler \in {"confirm", "complete", "cancel"}, NEW n \in 1 .. 5
  PROVE  /\ OpAt(c, n) \in {"readTask", "loadItem", "completed", "cancelled", "readRow", "consume", "release"}
         /\ OpAt(c, n) = "readTask" => n = 5
         /\ OpAt(c, n) = "loadItem" => n = 4
         /\ OpAt(c, n) \in {"completed", "cancelled"} => n = 3
         /\ OpAt(c, n) = "readRow" => n = 2
         /\ OpAt(c, n) \in {"consume", "release"} => n = 1
<1>1. TaskOp(c) \in {"completed", "cancelled"} /\ RowOp(c) \in {"consume", "release"}
  BY DEF TaskOp, RowOp
<1>2. n = 1 \/ n = 2 \/ n = 3 \/ n = 4 \/ n = 5
  OBVIOUS
<1> QED
  BY <1>1, <1>2 DEF OpAt

\* Of a session that locks items first.
LEMMA AtAway ==
  ASSUME TxInv, NEW r \in Request, NEW op, NEW t, At(r, op, t), NEW s, s = session[r], ~IsDirect(s)
  PROVE  /\ Away(r, s) /\ op \in AwayOps(s.call.handler) /\ t \in Others
         /\ Rest(r) \in Seq([op : AwayOps(s.call.handler), task : Others])
         /\ Rest(r) # <<>> => Head(Rest(r)).op \in AwayOps(s.call.handler)
<1> DEFINE X == [op : AwayOps(s.call.handler), task : Others]
<1>1. Running(r) /\ s.todo # <<>> /\ Head(s.todo) = Do(op, t)
  BY DEF At, Do
<1>2. Away(r, s)
  BY <1>1, IsRunning DEF SessionFits
<1>3. s.todo \in Seq(X)
  BY <1>2 DEF Away
<1>4. Head(s.todo) \in X /\ Tail(s.todo) \in Seq(X) /\ (Tail(s.todo) # <<>> => Head(Tail(s.todo)) \in X)
  <2> HIDE DEF X
  <2>1. Head(s.todo) \in X /\ Tail(s.todo) \in Seq(X)
    BY <1>1, <1>3
  <2> QED
    BY <2>1
<1>5. op \in AwayOps(s.call.handler) /\ t \in Others
  BY <1>1, <1>4 DEF Do
<1> QED
  BY <1>2, <1>4, <1>5 DEF Rest

\* Whatever it does to other tasks and items is all right.
LEMMA AwayStep ==
  ASSUME TxInv, NEW r \in Request, Running(r), stock' = stock, taskStatus' = taskStatus,
         \/ itemLock' = itemLock
         \/ \E i \in Item : itemLock[i] \in {Nobody, r} /\ itemLock' = [itemLock EXCEPT ![i] = r],
         \/ taskLock' = taskLock
         \/ \E t \in Others : taskLock[t] \in {Nobody, r} /\ taskLock' = [taskLock EXCEPT ![t] = r],
         NEW s, s = session[r], ~IsDirect(s), Away(r, s),
         NEW todo \in Seq([op : AwayOps(s.call.handler), task : Others]),
         NEW entry, NEW dirty, NEW rows, NEW tasks, NEW row, NEW take,
         take = s.take \/ s.call.handler = "plan",
         \A t \in PurePicks : t \notin DOMAIN rows /\ t \notin DOMAIN tasks,
         \A i \in PickedItems, name \in {"quantity", "reserved"} : <<i, name>> \notin dirty,
         NEW x, Is(x, s.call, s.todo, entry, dirty, rows, tasks, row, take), Continue(r, x, todo)
  PROVE  TxInv'
<1>1. PICK y : y = [call |-> s.call, phase |-> "running", todo |-> todo, item |-> entry, dirty |-> dirty,
                    rows |-> rows, tasks |-> tasks, row |-> row, take |-> take]
  OBVIOUS
<1>2. Is(y, s.call, todo, entry, dirty, rows, tasks, row, take)
  BY <1>1 DEF Is
<1>3. /\ y.call = s.call /\ y.todo = todo /\ y.rows = rows /\ y.tasks = tasks /\ y.dirty = dirty /\ y.take = take
  BY <1>1
<1>4. ~IsDirect(y)
  BY <1>3 DEF IsDirect
<1>5. \A t \in PurePicks : taskLock'[t] # r
  BY PicksTasks DEF Away, TxInv, LocksOK, Others
<1>6. Away(r, y)'
  BY <1>3, <1>5 DEF Away
<1>7. SessionFits(r, y)'
  BY <1>4, <1>6 DEF SessionFits
<1>8. s.call \in Calls
  BY IsRunning
<1>9. \/ taskLock' = taskLock
      \/ \E t \in Task : taskLock[t] \in {Nobody, r} /\ taskLock' = [taskLock EXCEPT ![t] = r]
  BY PicksTasks
<1> QED
  BY <1>2, <1>7, <1>8, <1>9, ContinueStep

\* A session that locks its task first goes on.
LEMMA DirectStep ==
  ASSUME TxInv, NEW r \in Request, Running(r), stock' = stock, taskStatus' = taskStatus,
         \/ itemLock' = itemLock
         \/ \E i \in Item : itemLock[i] \in {Nobody, r} /\ itemLock' = [itemLock EXCEPT ![i] = r],
         \/ taskLock' = taskLock
         \/ \E t \in Task : taskLock[t] \in {Nobody, r} /\ taskLock' = [taskLock EXCEPT ![t] = r],
         NEW s, s = session[r], IsDirect(s), NEW n \in 0 .. 5,
         NEW entry, NEW dirty, NEW rows, NEW tasks, NEW row,
         NEW x, Is(x, s.call, s.todo, entry, dirty, rows, tasks, row, s.take),
         Continue(r, x, Last(s.call, n)),
         \A y : Is(y, s.call, Last(s.call, n), entry, dirty, rows, tasks, row, s.take) => Stage(r, y, n)'
  PROVE  TxInv'
<1> DEFINE todo == Last(s.call, n)
<1>1. PICK y : y = [call |-> s.call, phase |-> "running", todo |-> todo, item |-> entry, dirty |-> dirty,
                    rows |-> rows, tasks |-> tasks, row |-> row, take |-> s.take]
  OBVIOUS
<1>2. Is(y, s.call, todo, entry, dirty, rows, tasks, row, s.take)
  BY <1>1 DEF Is
<1>3. y.call = s.call /\ y.take = s.take
  BY <1>1
<1>4. IsDirect(y) /\ Stage(r, y, n)'
  BY <1>2, <1>3 DEF IsDirect
<1>5. SessionFits(r, y)'
  BY <1>4 DEF SessionFits
<1>6. s.call \in Calls
  BY IsRunning
<1> HIDE DEF todo
<1>7. Continue(r, x, todo)
  BY DEF todo
<1> QED
  BY <1>2, <1>5, <1>6, <1>7, ContinueStep

-----------------------------------------------------------------------------
(* The statements *)

LEMMA ReadTaskStep ==
  ASSUME TxInv, NEW r \in Request, NEW t \in Task, ReadTask(r, t)
  PROVE  TxInv'
<1>1. PICK s : s = session[r]
  OBVIOUS
<1>2. Running(r) /\ At(r, "readTask", t)
  BY DEF ReadTask, At
<1>3. /\ Is(s, s.call, s.todo, s.item, s.dirty, s.rows, s.tasks, s.row, s.take)
      /\ s.call \in Calls
  BY <1>1, <1>2, IsRunning
<1>4. CASE Rollback(r)
  BY <1>4, RollbackStep
<1>5. ASSUME taskStatus[t] = "blocked", s.call.handler = "confirm",
             Continue(r, [s EXCEPT !.take = QuantityOf[t]], ForEach(WhenBlocked, <<t>>)),
             UNCHANGED <<stock, taskStatus, itemLock, taskLock>>
      PROVE  TxInv'
  <2>1. t \in Others
    BY <1>5 DEF Others, TxInv, RowsOK
  <2>2. IsDirect(s)
    <3> SUFFICES ASSUME ~IsDirect(s) PROVE FALSE
      OBVIOUS
    <3>1. "readTask" \in AwayOps(s.call.handler)
      BY <1>1, <1>2, AtAway
    <3> QED
      BY <1>5, <3>1 DEF AwayOps
  <2>3. PICK n \in 1 .. 5 : Stage(r, s, n) /\ "readTask" = OpAt(s.call, n)
    BY <1>1, <1>2, <2>2, AtDirect
  <2>4. n = 5
    BY <2>2, <2>3, OpIndex DEF IsDirect
  <2>5. /\ \A u \in Task : taskLock[u] # r
        /\ DOMAIN s.tasks = {} /\ DOMAIN s.rows = {} /\ s.dirty = {}
    BY <2>3, <2>4 DEF Stage
  <2>6. PICK x, take, todo : /\ x = [s EXCEPT !.take = QuantityOf[t]] /\ take = QuantityOf[t]
                             /\ todo = ForEach(WhenBlocked, <<t>>)
    OBVIOUS
  <2>7. Is(x, s.call, s.todo, s.item, s.dirty, s.rows, s.tasks, s.row, take)
    BY <1>3, <2>6 DEF Is
  <2>8. take # 0
    BY <2>6, TaskDataAssumption
  <2>9. todo \in Seq([op : AwayOps(s.call.handler), task : Others])
    <3> DEFINE O == AwayOps(s.call.handler)
    <3>1. {"loadItem", "readRow", "reserve", "completed", "consume"} \subseteq O
      BY <1>5 DEF AwayOps
    <3>2. PICK ops, tasks : ops = WhenBlocked /\ tasks = <<t>>
      OBVIOUS
    <3>3. ops = <<"loadItem", "readRow", "reserve", "completed", "readRow", "consume">>
      BY <3>2 DEF WhenBlocked
    <3> HIDE DEF O
    <3>4. ops \in Seq(O) /\ Len(ops) = 6
      BY <3>1, <3>3
    <3>5. tasks \in Seq(Others)
      BY <2>1, <3>2
    <3> QED
      BY <2>6, <3>2, <3>4, <3>5, ForEachType DEF O
  <2>10. PICK y : y = [call |-> s.call, phase |-> "running", todo |-> todo, item |-> s.item, dirty |-> s.dirty,
                       rows |-> s.rows, tasks |-> s.tasks, row |-> s.row, take |-> take]
    OBVIOUS
  <2>11. /\ y.call = s.call /\ y.todo = todo /\ y.rows = s.rows /\ y.tasks = s.tasks /\ y.dirty = s.dirty
         /\ y.take = take
    BY <2>10
  <2>12. ~IsDirect(y)
    BY <2>8, <2>11 DEF IsDirect
  <2>13. Away(r, y)'
    BY <1>5, <2>5, <2>9, <2>11, PicksTasks DEF Away
  <2>14. SessionFits(r, y)'
    BY <2>12, <2>13 DEF SessionFits
  <2>15. Is(y, s.call, todo, s.item, s.dirty, s.rows, s.tasks, s.row, take)
    BY <2>10 DEF Is
  <2>16. Continue(r, x, todo)
    BY <1>5, <2>6
  <2>17. stock' = stock /\ taskStatus' = taskStatus /\ itemLock' = itemLock /\ taskLock' = taskLock
    BY <1>5
  <2> QED
    BY <1>3, <2>7, <2>14, <2>15, <2>16, <2>17, ContinueStep
<1>6. ASSUME Continue(r, s, Rest(r)), UNCHANGED <<stock, taskStatus, itemLock, taskLock>>
      PROVE  TxInv'
  <2>1. stock' = stock /\ taskStatus' = taskStatus /\ itemLock' = itemLock /\ taskLock' = taskLock
    BY <1>6
  <2>2. CASE IsDirect(s)
    <3>1. PICK n \in 1 .. 5 : Stage(r, s, n) /\ "readTask" = OpAt(s.call, n) /\ Rest(r) = Last(s.call, n - 1)
      BY <1>1, <1>2, <2>2, AtDirect
    <3>2. n = 5 /\ n - 1 = 4
      BY <2>2, <3>1, OpIndex DEF IsDirect
    <3>3. ASSUME NEW y, Is(y, s.call, Last(s.call, 4), s.item, s.dirty, s.rows, s.tasks, s.row, s.take)
          PROVE  Stage(r, y, 4)'
      <4>1. /\ y.call = s.call /\ y.todo = Last(s.call, 4) /\ y.item = s.item /\ y.dirty = s.dirty
            /\ y.rows = s.rows /\ y.tasks = s.tasks /\ y.row = s.row
        BY <3>3 DEF Is
      <4>2. Stage(r, s, 5)
        BY <3>1, <3>2
      <4>3. TaskOf(s.call) \in PurePicks => OnPicked(y, 4, TaskOf(s.call), ItemOf[TaskOf(s.call)])'
        BY <2>1, <4>1, <4>2 DEF Stage, OnPicked, Enough, Taken, Promised
      <4> QED
        BY <2>1, <4>1, <4>2, <4>3 DEF Stage
    <3>4. Continue(r, s, Last(s.call, 4))
      BY <1>6, <3>1, <3>2
    <3> QED
      BY <1>1, <1>2, <1>3, <2>1, <2>2, <3>3, <3>4, DirectStep
  <2>3. CASE ~IsDirect(s)
    <3>1. Away(r, s) /\ Rest(r) \in Seq([op : AwayOps(s.call.handler), task : Others])
      BY <1>1, <1>2, <2>3, AtAway
    <3>2. \A p \in PurePicks : p \notin DOMAIN s.rows /\ p \notin DOMAIN s.tasks
      BY <3>1 DEF Away
    <3>3. \A i \in PickedItems, name \in {"quantity", "reserved"} : <<i, name>> \notin s.dirty
      BY <3>1 DEF Away
    <3> QED
      BY <1>1, <1>2, <1>3, <1>6, <2>1, <2>3, <3>1, <3>2, <3>3, AwayStep
  <2> QED
    BY <2>2, <2>3
<1> QED
  BY <1>1, <1>4, <1>5, <1>6 DEF ReadTask

\* Select leaves what a session knows but item i.
LEMMA SelectedIs ==
  ASSUME NEW r, NEW s, s = session[r], NEW i,
         NEW call, NEW todo, NEW entry, NEW dirty, NEW rows, NEW tasks, NEW row, NEW take,
         Is(s, call, todo, entry, dirty, rows, tasks, row, take)
  PROVE  Is(Selected(r, i), call, todo,
            [entry EXCEPT ![i] = IF entry[i].loaded THEN entry[i] ELSE Loaded(i)], dirty, rows, tasks, row, take)
<1>1. PICK v, ld : ld = Loaded(i) /\ v = [entry EXCEPT ![i] = IF entry[i].loaded THEN entry[i] ELSE ld]
  OBVIOUS
<1>2. Selected(r, i) = [s EXCEPT !.item = [s.item EXCEPT ![i] = IF s.item[i].loaded THEN s.item[i] ELSE ld]]
  BY <1>1 DEF Selected
<1>3. s.item = entry
  BY DEF Is
<1>4. Selected(r, i) = [s EXCEPT !.item = v]
  BY <1>1, <1>2, <1>3
<1> QED
  BY <1>1, <1>4 DEF Is

LEMMA LoadItemStep ==
  ASSUME TxInv, NEW r \in Request, NEW t \in Task, LoadItem(r, t)
  PROVE  TxInv'
<1>1. PICK s, i : s = session[r] /\ i = ItemOf[t]
  OBVIOUS
<1>2. Running(r) /\ At(r, "loadItem", t) /\ i \in Item
  BY <1>1, PicksTasks DEF LoadItem, At
<1>3. /\ Is(s, s.call, s.todo, s.item, s.dirty, s.rows, s.tasks, s.row, s.take)
      /\ s.call \in Calls
  BY <1>1, <1>2, IsRunning
<1>4. PICK x : x = Selected(r, i)
  OBVIOUS
<1>5. PICK entry : entry = [s.item EXCEPT ![i] = IF s.item[i].loaded THEN s.item[i] ELSE Loaded(i)]
  OBVIOUS
<1>6. Is(x, s.call, s.todo, entry, s.dirty, s.rows, s.tasks, s.row, s.take)
  BY <1>1, <1>3, <1>4, <1>5, SelectedIs
<1>7. /\ stock' = stock /\ taskStatus' = taskStatus /\ itemLock' = itemLock /\ taskLock' = taskLock
      /\ Continue(r, x, Rest(r))
  BY <1>1, <1>4 DEF LoadItem
<1>8. CASE IsDirect(s)
  <2>1. PICK n \in 1 .. 5 : /\ Stage(r, s, n) /\ "loadItem" = OpAt(s.call, n) /\ t = TaskOf(s.call)
                            /\ Rest(r) = Last(s.call, n - 1)
    BY <1>1, <1>2, <1>8, AtDirect
  <2>2. n = 4 /\ n - 1 = 3
    BY <1>8, <2>1, OpIndex DEF IsDirect
  <2>3. Stage(r, s, 4) /\ DOMAIN s.item = Item
    BY <2>1, <2>2 DEF Stage
  <2>4. DOMAIN entry = Item /\ entry[i] = IF s.item[i].loaded THEN s.item[i] ELSE Loaded(i)
    BY <1>2, <1>5, <2>3
  <2>5. ASSUME t \in PurePicks PROVE Enough(i, entry[i].quantity, entry[i].reserved)
    <3>1. i \in PickedItems
      BY <1>1, <2>5, PicksTasks
    <3>2. CASE s.item[i].loaded
      BY <1>1, <2>1, <2>3, <2>4, <2>5, <3>2 DEF Stage, OnPicked
    <3>3. CASE ~s.item[i].loaded
      <4>1. entry[i].quantity = stock.quantity[i] /\ entry[i].reserved = stock.reserved[i]
        BY <2>4, <3>3 DEF Loaded
      <4> QED
        BY <3>1, <4>1 DEF TxInv, RowsOK
    <3> QED
      BY <3>2, <3>3
  <2>6. ASSUME NEW y, Is(y, s.call, Last(s.call, 3), entry, s.dirty, s.rows, s.tasks, s.row, s.take)
        PROVE  Stage(r, y, 3)'
    <3>1. /\ y.call = s.call /\ y.todo = Last(s.call, 3) /\ y.item = entry /\ y.dirty = s.dirty
          /\ y.rows = s.rows /\ y.tasks = s.tasks
      BY <2>6 DEF Is
    <3>2. t \in PurePicks => OnPicked(y, 3, t, i)'
      BY <1>7, <2>5, <3>1 DEF OnPicked, Enough, Taken, Promised
    <3> QED
      BY <1>1, <1>7, <2>1, <2>3, <2>4, <3>1, <3>2 DEF Stage
  <2>7. Continue(r, x, Last(s.call, 3))
    BY <1>7, <2>1, <2>2
  <2> QED
    BY <1>1, <1>2, <1>6, <1>7, <1>8, <2>6, <2>7, DirectStep
<1>9. CASE ~IsDirect(s)
  <2>1. Away(r, s) /\ Rest(r) \in Seq([op : AwayOps(s.call.handler), task : Others])
    BY <1>1, <1>2, <1>9, AtAway
  <2>2. \A p \in PurePicks : p \notin DOMAIN s.rows /\ p \notin DOMAIN s.tasks
    BY <2>1 DEF Away
  <2>3. \A j \in PickedItems, name \in {"quantity", "reserved"} : <<j, name>> \notin s.dirty
    BY <2>1 DEF Away
  <2> QED
    BY <1>1, <1>2, <1>6, <1>7, <1>9, <2>1, <2>2, <2>3, AwayStep
<1> QED
  BY <1>8, <1>9

LEMMA RefreshStep ==
  ASSUME TxInv, NEW r \in Request, NEW t \in Task, Refresh(r, t)
  PROVE  TxInv'
<1>1. PICK s, i, seen : /\ s = session[r] /\ i = ItemOf[t]
                        /\ seen = IF itemLock[i] = r THEN s.item[i] ELSE Loaded(i)
  OBVIOUS
<1>2. Running(r) /\ At(r, "refresh", t)
  BY DEF Refresh, At
<1>3. /\ Is(s, s.call, s.todo, s.item, s.dirty, s.rows, s.tasks, s.row, s.take)
      /\ s.call \in Calls
  BY <1>1, <1>2, IsRunning
<1>4. ~IsDirect(s)
  <2> SUFFICES ASSUME IsDirect(s) PROVE FALSE
    OBVIOUS
  <2>1. PICK n \in 1 .. 5 : "refresh" = OpAt(s.call, n)
    BY <1>1, <1>2, AtDirect
  <2> QED
    BY <2>1, OpIndex DEF IsDirect
<1> DEFINE X == [op : AwayOps(s.call.handler), task : Others]
<1>5. Away(r, s) /\ Rest(r) \in Seq(X) /\ "refresh" \in AwayOps(s.call.handler)
  BY <1>1, <1>2, <1>4, AtAway
<1>6. s.call.handler = "plan"
  BY <1>5 DEF AwayOps
<1> HIDE DEF X
<1>7. Tail(Tail(Rest(r))) \in Seq(X)
  BY <1>5, TailSeq
<1>8. PICK take, x, todo :
        /\ take = AtMost(AtLeastZero(seen.quantity - seen.reserved), QuantityOf[t])
        /\ x = [s EXCEPT !.item[i] = seen, !.take = take]
        /\ todo = IF take > 0 THEN Rest(r) ELSE Tail(Tail(Rest(r)))
  OBVIOUS
<1>9. todo \in Seq(X)
  BY <1>5, <1>7, <1>8
<1>10. /\ stock' = stock /\ taskStatus' = taskStatus /\ itemLock' = itemLock /\ taskLock' = taskLock
       /\ Continue(r, x, todo)
  BY <1>1, <1>8 DEF Refresh
<1>11. PICK entry : entry = [s.item EXCEPT ![i] = seen]
  OBVIOUS
<1>12. Is(x, s.call, s.todo, entry, s.dirty, s.rows, s.tasks, s.row, take)
  <2>1. x = [[s EXCEPT !.item = entry] EXCEPT !.take = take]
    BY <1>8, <1>11
  <2>2. PICK y : y = [s EXCEPT !.item = entry]
    OBVIOUS
  <2>3. Is(y, s.call, s.todo, entry, s.dirty, s.rows, s.tasks, s.row, s.take)
    BY <1>3, <2>2 DEF Is
  <2>4. x = [y EXCEPT !.take = take]
    BY <2>1, <2>2
  <2> QED
    BY <2>3, <2>4 DEF Is
<1>13. \A p \in PurePicks : p \notin DOMAIN s.rows /\ p \notin DOMAIN s.tasks
  BY <1>5 DEF Away
<1>14. \A j \in PickedItems, name \in {"quantity", "reserved"} : <<j, name>> \notin s.dirty
  BY <1>5 DEF Away
<1>15. todo \in Seq([op : AwayOps(s.call.handler), task : Others])
  BY <1>9 DEF X
<1> QED
  BY <1>1, <1>2, <1>4, <1>5, <1>6, <1>10, <1>12, <1>13, <1>14, <1>15, AwayStep

LEMMA ReadRowStep ==
  ASSUME TxInv, NEW r \in Request, NEW t \in Task, ReadRow(r, t)
  PROVE  TxInv'
<1>1. PICK s, row : s = session[r] /\ row = Visible(s, t)
  OBVIOUS
<1>2. Running(r) /\ At(r, "readRow", t)
  BY DEF ReadRow, At
<1>3. /\ Is(s, s.call, s.todo, s.item, s.dirty, s.rows, s.tasks, s.row, s.take)
      /\ s.call \in Calls
  BY <1>1, <1>2, IsRunning
<1>4. PICK x : x = [s EXCEPT !.row = row]
  OBVIOUS
<1>5. Is(x, s.call, s.todo, s.item, s.dirty, s.rows, s.tasks, row, s.take)
  BY <1>3, <1>4 DEF Is
<1>6. PICK idle \in BOOLEAN :
         idle <=> IF Head(Rest(r)).op = "reserve" THEN row.state \in {"active", "consumed"}
                                                  ELSE row.state # "active"
  <2>1. (Head(Rest(r)).op = "reserve") \in BOOLEAN
    OBVIOUS
  <2>2. CASE Head(Rest(r)).op = "reserve"
    BY <2>2
  <2>3. CASE Head(Rest(r)).op # "reserve"
    BY <2>3
  <2> QED
    BY <2>2, <2>3
<1>7. PICK todo : todo = IF idle THEN Tail(Rest(r)) ELSE Rest(r)
  OBVIOUS
<1>8. /\ stock' = stock /\ taskStatus' = taskStatus /\ itemLock' = itemLock /\ taskLock' = taskLock
      /\ Continue(r, x, todo)
  <2>1. Continue(r, [s EXCEPT !.row = row],
                 IF (IF Head(Rest(r)).op = "reserve" THEN row.state \in {"active", "consumed"}
                                                     ELSE row.state # "active")
                 THEN Tail(Rest(r)) ELSE Rest(r))
    BY <1>1 DEF ReadRow
  <2>2. todo = IF (IF Head(Rest(r)).op = "reserve" THEN row.state \in {"active", "consumed"}
                                                   ELSE row.state # "active")
               THEN Tail(Rest(r)) ELSE Rest(r)
    BY <1>6, <1>7
  <2>3. stock' = stock /\ taskStatus' = taskStatus /\ itemLock' = itemLock /\ taskLock' = taskLock
    BY DEF ReadRow
  <2> QED
    BY <1>4, <2>1, <2>2, <2>3
<1>9. CASE IsDirect(s)
  <2>1. PICK n \in 1 .. 5 : /\ Stage(r, s, n) /\ "readRow" = OpAt(s.call, n) /\ t = TaskOf(s.call)
                            /\ Rest(r) = Last(s.call, n - 1)
    BY <1>1, <1>2, <1>9, AtDirect
  <2>2. n = 2 /\ n - 1 = 1
    BY <1>9, <2>1, OpIndex DEF IsDirect
  <2>3. Stage(r, s, 2) /\ DOMAIN s.rows = {} /\ s.dirty = {} /\ Rest(r) = Last(s.call, 1)
    BY <2>1, <2>2 DEF Stage
  <2>4. /\ Head(Last(s.call, 1)) = Do(OpAt(s.call, 1), TaskOf(s.call))
        /\ Tail(Last(s.call, 1)) = Last(s.call, 0)
    BY LastFacts
  <2>5. Head(Rest(r)).op # "reserve"
    <3>1. OpAt(s.call, 1) # "reserve"
      BY <1>9, OpIndex DEF IsDirect
    <3> QED
      BY <2>3, <2>4, <3>1 DEF Do
  <2>6. idle <=> row.state # "active"
    BY <1>6, <2>5
  <2>7. row = Row(stock, t) /\ row.state = stock.state[t]
    BY <1>1, <2>3 DEF Visible, Row
  <2>8. PICK m \in 0 .. 1 : m = IF idle THEN 0 ELSE 1
    OBVIOUS
  <2>9. todo = Last(s.call, m)
    BY <1>7, <2>3, <2>4, <2>8
  <2>10. ASSUME NEW y, Is(y, s.call, Last(s.call, m), s.item, s.dirty, s.rows, s.tasks, row, s.take)
         PROVE  Stage(r, y, m)'
    <3>1. /\ y.call = s.call /\ y.todo = Last(s.call, m) /\ y.item = s.item /\ y.dirty = s.dirty
          /\ y.rows = s.rows /\ y.tasks = s.tasks /\ y.row = row
      BY <2>10 DEF Is
    <3>2. PICK i : i = ItemOf[t]
      OBVIOUS
    <3>3. ASSUME t \in PurePicks PROVE OnPicked(y, m, t, i)'
      <4>1. s.item[i].loaded => Enough(i, s.item[i].quantity, s.item[i].reserved)
        BY <2>1, <2>3, <3>2, <3>3 DEF Stage, OnPicked
      <4>2. (y.item[i].loaded => Enough(i, y.item[i].quantity, y.item[i].reserved))'
        BY <1>8, <3>1, <4>1 DEF Enough, Taken, Promised
      <4>3. m = 1 => (y.row = Row(stock, t) /\ stock.state[t] = "active")'
        BY <1>8, <2>6, <2>7, <2>8, <3>1 DEF Row
      <4> QED
        BY <2>3, <3>1, <4>2, <4>3 DEF OnPicked
    <3> QED
      BY <1>8, <2>1, <2>3, <2>8, <3>1, <3>2, <3>3 DEF Stage
  <2>11. Continue(r, x, Last(s.call, m))
    BY <1>8, <2>9
  <2> QED
    BY <1>1, <1>2, <1>5, <1>8, <1>9, <2>10, <2>11, DirectStep
<1>10. CASE ~IsDirect(s)
  <2> DEFINE X == [op : AwayOps(s.call.handler), task : Others]
  <2>1. Away(r, s) /\ Rest(r) \in Seq(X)
    BY <1>1, <1>2, <1>10, AtAway
  <2>2. \A p \in PurePicks : p \notin DOMAIN s.rows /\ p \notin DOMAIN s.tasks
    BY <2>1 DEF Away
  <2>3. \A j \in PickedItems, name \in {"quantity", "reserved"} : <<j, name>> \notin s.dirty
    BY <2>1 DEF Away
  <2> HIDE DEF X
  <2>4. todo \in Seq(X)
    BY <1>7, <2>1, TailSeq
  <2>5. todo \in Seq([op : AwayOps(s.call.handler), task : Others])
    BY <2>4 DEF X
  <2> QED
    BY <1>1, <1>2, <1>5, <1>8, <1>10, <2>1, <2>2, <2>3, <2>5, AwayStep
<1> QED
  BY <1>9, <1>10

LEMMA WriteTaskStep ==
  ASSUME TxInv, NEW r \in Request, NEW t \in Task, NEW new \in {"completed", "cancelled", "blocked"},
         WriteTask(r, t, new)
  PROVE  TxInv'
<1>1. PICK s, tasks, x : /\ s = session[r] /\ tasks = With(s.tasks, t, new)
                         /\ x = [s EXCEPT !.tasks = tasks]
  OBVIOUS
<1>2. Running(r) /\ At(r, new, t)
  BY DEF WriteTask, At
<1>3. /\ Is(s, s.call, s.todo, s.item, s.dirty, s.rows, s.tasks, s.row, s.take)
      /\ s.call \in Calls
  BY <1>1, <1>2, IsRunning
<1>4. Is(x, s.call, s.todo, s.item, s.dirty, s.rows, tasks, s.row, s.take)
  BY <1>1, <1>3 DEF Is
<1>5. DOMAIN tasks = DOMAIN s.tasks \cup {t} /\ tasks[t] = new
  BY <1>1 DEF With
<1>6. /\ stock' = stock /\ taskStatus' = taskStatus /\ itemLock' = itemLock
      /\ taskLock[t] \in {Nobody, r} /\ taskLock' = [taskLock EXCEPT ![t] = r]
      /\ Continue(r, x, Rest(r))
  BY <1>1 DEF WriteTask
<1>7. CASE IsDirect(s)
  <2>1. PICK n \in 1 .. 5 : /\ Stage(r, s, n) /\ new = OpAt(s.call, n) /\ t = TaskOf(s.call)
                            /\ Rest(r) = Last(s.call, n - 1)
    BY <1>1, <1>2, <1>7, AtDirect
  <2>2. new # "blocked" /\ n = 3 /\ n - 1 = 2
    BY <1>7, <2>1, OpIndex DEF IsDirect
  <2>3. Stage(r, s, 3) /\ DOMAIN s.tasks = {}
    BY <2>1, <2>2 DEF Stage
  <2>4. taskLock'[t] = r
    BY <1>6 DEF TxInv, LocksOK
  <2>5. ASSUME NEW y, Is(y, s.call, Last(s.call, 2), s.item, s.dirty, s.rows, tasks, s.row, s.take)
        PROVE  Stage(r, y, 2)'
    <3>1. /\ y.call = s.call /\ y.todo = Last(s.call, 2) /\ y.item = s.item /\ y.dirty = s.dirty
          /\ y.rows = s.rows /\ y.tasks = tasks
      BY <2>5 DEF Is
    <3>2. PICK i : i = ItemOf[t]
      OBVIOUS
    <3>3. t \in PurePicks => OnPicked(y, 2, t, i)'
      BY <1>6, <2>1, <2>3, <3>1, <3>2 DEF Stage, OnPicked, Enough, Taken, Promised
    <3>4. DOMAIN tasks = {t} /\ tasks[t] \in {"completed", "cancelled"}
      BY <1>5, <2>2, <2>3
    <3> QED
      BY <1>6, <2>1, <2>3, <2>4, <3>1, <3>2, <3>3, <3>4 DEF Stage
  <2>6. Continue(r, x, Last(s.call, 2))
    BY <1>6, <2>1, <2>2
  <2>7. stock' = stock /\ taskStatus' = taskStatus /\ itemLock' = itemLock
    BY <1>6
  <2>8. \/ taskLock' = taskLock
        \/ \E u \in Task : taskLock[u] \in {Nobody, r} /\ taskLock' = [taskLock EXCEPT ![u] = r]
    BY <1>6
  <2>9. 2 \in 0 .. 5
    OBVIOUS
  <2>10. \A y : Is(y, s.call, Last(s.call, 2), s.item, s.dirty, s.rows, tasks, s.row, s.take) => Stage(r, y, 2)'
    BY <2>5
  <2>11. \/ itemLock' = itemLock
         \/ \E i \in Item : itemLock[i] \in {Nobody, r} /\ itemLock' = [itemLock EXCEPT ![i] = r]
    BY <2>7
  <2> QED
    BY <1>1, <1>2, <1>4, <1>7, <2>6, <2>7, <2>8, <2>9, <2>10, <2>11, DirectStep
<1>8. CASE ~IsDirect(s)
  <2>1. Away(r, s) /\ Rest(r) \in Seq([op : AwayOps(s.call.handler), task : Others]) /\ t \in Others
    BY <1>1, <1>2, <1>8, AtAway
  <2>2. \A p \in PurePicks : p \notin DOMAIN s.rows /\ p \notin DOMAIN tasks
    BY <1>5, <2>1 DEF Away, Others
  <2>3. \A j \in PickedItems, name \in {"quantity", "reserved"} : <<j, name>> \notin s.dirty
    BY <2>1 DEF Away
  <2> QED
    BY <1>1, <1>2, <1>4, <1>6, <1>8, <2>1, <2>2, <2>3, AwayStep
<1> QED
  BY <1>7, <1>8

-----------------------------------------------------------------------------
(* The flushes of the service *)

\* What session.flush writes: item i and the row of t, nothing else.
Flushed(r, s, i, t, quantity, reserved, row) ==
    \E new, entry, dirty, rows, x :
        /\ new = [loaded |-> TRUE, quantity |-> quantity, reserved |-> reserved]
        /\ entry = [s.item EXCEPT ![i] = new]
        /\ s.dirty \subseteq dirty /\ dirty \subseteq s.dirty \cup ({i} \X {"quantity", "reserved"})
        /\ DOMAIN rows = DOMAIN s.rows \cup {t} /\ rows[t] = row
        /\ Is(x, s.call, s.todo, entry, dirty, rows, s.tasks, s.row, s.take)
        /\ Continue(r, x, Rest(r))
        /\ stock' = stock /\ taskStatus' = taskStatus /\ taskLock' = taskLock

LEMMA FlushIs ==
  ASSUME TxInv, NEW r \in Request, Running(r), NEW s, s = session[r], NEW i \in Item, NEW t,
         NEW quantity, NEW reserved, NEW row,
         Flush(r, Selected(r, i), t, i, quantity, reserved, row)
  PROVE  Flushed(r, s, i, t, quantity, reserved, row)
<1> DEFINE z == Selected(r, i)
           changed == {<<i, name>> : name \in
                         {n \in {"quantity", "reserved"} :
                             \/ n = "quantity" /\ quantity # z.item[i].quantity
                             \/ n = "reserved" /\ reserved # z.item[i].reserved}}
<1>1. Is(s, s.call, s.todo, s.item, s.dirty, s.rows, s.tasks, s.row, s.take)
  BY IsRunning
<1>2. PICK seen : seen = [s.item EXCEPT ![i] = IF s.item[i].loaded THEN s.item[i] ELSE Loaded(i)]
  OBVIOUS
<1>3. Is(z, s.call, s.todo, seen, s.dirty, s.rows, s.tasks, s.row, s.take)
  BY <1>1, <1>2, SelectedIs
<1>4. PICK new, dirty, rows :
         /\ new = [loaded |-> TRUE, quantity |-> quantity, reserved |-> reserved]
         /\ dirty = z.dirty \cup changed /\ rows = With(z.rows, t, row)
  OBVIOUS
<1>5. PICK entry : entry = [seen EXCEPT ![i] = new]
  OBVIOUS
<1>6. entry = [s.item EXCEPT ![i] = new]
  BY <1>2, <1>5
<1>7. z.item = seen /\ z.dirty = s.dirty /\ z.rows = s.rows
  BY <1>3 DEF Is
<1>8. changed \subseteq {i} \X {"quantity", "reserved"}
  OBVIOUS
<1>9. PICK x : x = [z EXCEPT !.item = [z.item EXCEPT ![i] = new], !.dirty = dirty, !.rows = rows]
  OBVIOUS
<1>10. Continue(r, x, Rest(r)) /\ stock' = stock /\ taskStatus' = taskStatus /\ taskLock' = taskLock
  BY <1>4, <1>9 DEF Flush
<1> HIDE DEF z, changed
<1>11. x = [[[z EXCEPT !.item = entry] EXCEPT !.dirty = dirty] EXCEPT !.rows = rows]
  BY <1>5, <1>7, <1>9
<1>12. Is(x, s.call, s.todo, entry, dirty, rows, s.tasks, s.row, s.take)
  <2>1. PICK u : u = [z EXCEPT !.item = entry]
    OBVIOUS
  <2>2. Is(u, s.call, s.todo, entry, s.dirty, s.rows, s.tasks, s.row, s.take)
    BY <1>3, <2>1 DEF Is
  <2>3. PICK v : v = [u EXCEPT !.dirty = dirty]
    OBVIOUS
  <2>4. Is(v, s.call, s.todo, entry, dirty, s.rows, s.tasks, s.row, s.take)
    BY <2>2, <2>3 DEF Is
  <2>5. x = [v EXCEPT !.rows = rows]
    BY <1>11, <2>1, <2>3
  <2> QED
    BY <2>4, <2>5 DEF Is
<1>13. DOMAIN rows = DOMAIN s.rows \cup {t} /\ rows[t] = row
  BY <1>4, <1>7 DEF With
<1>14. s.dirty \subseteq dirty /\ dirty \subseteq s.dirty \cup ({i} \X {"quantity", "reserved"})
  BY <1>4, <1>7, <1>8
<1> QED
  BY <1>4, <1>6, <1>10, <1>12, <1>13, <1>14 DEF Flushed

\* For another task.
LEMMA AwayFlush ==
  ASSUME TxInv, NEW r \in Request, NEW op, NEW t \in Task, At(r, op, t),
         NEW s, s = session[r], ~IsDirect(s),
         NEW quantity, NEW reserved, NEW row, LockItem(r, ItemOf[t]),
         Flush(r, Selected(r, ItemOf[t]), t, ItemOf[t], quantity, reserved, row)
  PROVE  TxInv'
<1>1. PICK i \in Item : i = ItemOf[t]
  BY PicksTasks
<1>2. Running(r)
  BY DEF At
<1>3. LockItem(r, i) /\ Flush(r, Selected(r, i), t, i, quantity, reserved, row)
  BY <1>1
<1>4. PICK new, entry, dirty, rows, x :
            /\ new = [loaded |-> TRUE, quantity |-> quantity, reserved |-> reserved]
            /\ entry = [s.item EXCEPT ![i] = new]
            /\ s.dirty \subseteq dirty /\ dirty \subseteq s.dirty \cup ({i} \X {"quantity", "reserved"})
            /\ DOMAIN rows = DOMAIN s.rows \cup {t} /\ rows[t] = row
            /\ Is(x, s.call, s.todo, entry, dirty, rows, s.tasks, s.row, s.take)
            /\ Continue(r, x, Rest(r))
            /\ stock' = stock /\ taskStatus' = taskStatus /\ taskLock' = taskLock
  <2>1. Flushed(r, s, i, t, quantity, reserved, row)
    BY <1>2, <1>3, FlushIs
  <2> QED
    BY <2>1 DEF Flushed
<1>5. Away(r, s) /\ Rest(r) \in Seq([op : AwayOps(s.call.handler), task : Others]) /\ t \in Others
  BY AtAway
<1>6. \A p \in PurePicks : p \notin DOMAIN rows /\ p \notin DOMAIN s.tasks
  BY <1>4, <1>5 DEF Away, Others
<1>7. i \notin PickedItems
  BY <1>1, <1>5 DEF Others, PurePicks
<1>8. \A j \in PickedItems, name \in {"quantity", "reserved"} : <<j, name>> \notin dirty
  BY <1>4, <1>5, <1>7 DEF Away
<1>9. \/ itemLock' = itemLock
      \/ \E j \in Item : itemLock[j] \in {Nobody, r} /\ itemLock' = [itemLock EXCEPT ![j] = r]
  BY <1>3 DEF LockItem, LockFree
<1> QED
  BY <1>2, <1>4, <1>5, <1>6, <1>8, <1>9, AwayStep

LEMMA ReserveStep ==
  ASSUME TxInv, NEW r \in Request, NEW t \in Task, ReserveRow(r, t)
  PROVE  TxInv'
<1>1. PICK s, z : s = session[r] /\ z = Selected(r, ItemOf[t])
  OBVIOUS
<1>2. At(r, "reserve", t)
  BY DEF ReserveRow
<1>3. CASE Rollback(r)
  BY <1>3, RollbackStep
<1>4. ASSUME LockItem(r, ItemOf[t]),
             Flush(r, z, t, ItemOf[t], z.item[ItemOf[t]].quantity, z.item[ItemOf[t]].reserved + z.take,
                   [state |-> "active", source |-> ItemOf[t], amount |-> z.take])
      PROVE  TxInv'
  <2>1. ~IsDirect(s)
    <3> SUFFICES ASSUME IsDirect(s) PROVE FALSE
      OBVIOUS
    <3>1. PICK n \in 1 .. 5 : "reserve" = OpAt(s.call, n)
      BY <1>1, <1>2, AtDirect
    <3> QED
      BY <3>1, OpIndex DEF IsDirect
  <2> QED
    BY <1>1, <1>2, <1>4, <2>1, AwayFlush
<1> QED
  BY <1>1, <1>3, <1>4 DEF ReserveRow

\* Before its last statement a direct session has written nothing of item and reservation.
LEMMA StageHasNothing ==
  ASSUME NEW r, NEW s, Stage(r, s, 1)
  PROVE  DOMAIN s.rows = {} /\ s.dirty = {} /\ DOMAIN s.item = Item
<1>1. 1 >= 1
  OBVIOUS
<1> QED
  BY <1>1 DEF Stage

LEMMA StageHasTask ==
  ASSUME NEW r, NEW s, Stage(r, s, 1)
  PROVE  LET t == TaskOf(s.call)
         IN  taskLock[t] = r /\ DOMAIN s.tasks = {t} /\ s.tasks[t] \in {"completed", "cancelled"}
<1>1. 1 <= 2
  OBVIOUS
<1> QED
  BY <1>1 DEF Stage

\* The end of a reservation, for a session that has the lock of the task.
LEMMA DirectFlush ==
  ASSUME TxInv, NEW r \in Request, NEW op \in {"consume", "release"}, NEW t \in Task, At(r, op, t),
         NEW s, s = session[r], IsDirect(s), NEW z, z = Selected(r, ItemOf[t]),
         LockItem(r, ItemOf[t]),
         NEW quantity,
         op = "consume" => quantity = Less(z.item[ItemOf[t]].quantity, z.row.amount),
         op = "release" => quantity = z.item[ItemOf[t]].quantity,
         NEW state, state = IF op = "consume" THEN "consumed" ELSE "released",
         Flush(r, z, t, ItemOf[t], quantity, Less(z.item[ItemOf[t]].reserved, z.row.amount),
               [z.row EXCEPT !.state = state])
  PROVE  TxInv'
<1>1. PICK i \in Item : i = ItemOf[t]
  BY PicksTasks
<1>2. Running(r)
  BY DEF At
<1>3. PICK n \in 1 .. 5 : /\ Stage(r, s, n) /\ op = OpAt(s.call, n) /\ t = TaskOf(s.call)
                          /\ Rest(r) = Last(s.call, n - 1)
  BY AtDirect
<1>4. n = 1 /\ n - 1 = 0
  <2>1. PICK c : c = s.call
    OBVIOUS
  <2>2. c.handler \in {"confirm", "complete", "cancel"} /\ op = OpAt(c, n)
    BY <1>3, <2>1 DEF IsDirect
  <2>3. n = 1
    BY <2>2, OpIndex
  <2> QED
    BY <2>3
<1>5. Stage(r, s, 1) /\ DOMAIN s.rows = {} /\ s.dirty = {} /\ DOMAIN s.item = Item
  <2>1. Stage(r, s, 1)
    BY <1>3, <1>4
  <2>2. DOMAIN s.rows = {} /\ s.dirty = {} /\ DOMAIN s.item = Item
    BY <2>1, StageHasNothing
  <2> QED
    BY <2>1, <2>2
<1>6. PICK reserved, row : /\ reserved = Less(z.item[i].reserved, z.row.amount)
                           /\ row = [z.row EXCEPT !.state = state]
  OBVIOUS
<1>7. Flush(r, Selected(r, i), t, i, quantity, reserved, row)
  BY <1>1, <1>6
<1>8. PICK new, entry, dirty, rows, x :
            /\ new = [loaded |-> TRUE, quantity |-> quantity, reserved |-> reserved]
            /\ entry = [s.item EXCEPT ![i] = new]
            /\ s.dirty \subseteq dirty /\ dirty \subseteq s.dirty \cup ({i} \X {"quantity", "reserved"})
            /\ DOMAIN rows = DOMAIN s.rows \cup {t} /\ rows[t] = row
            /\ Is(x, s.call, s.todo, entry, dirty, rows, s.tasks, s.row, s.take)
            /\ Continue(r, x, Rest(r))
            /\ stock' = stock /\ taskStatus' = taskStatus /\ taskLock' = taskLock
  <2>1. Flushed(r, s, i, t, quantity, reserved, row)
    BY <1>2, <1>7, FlushIs
  <2> QED
    BY <2>1 DEF Flushed
<1>9. PICK seen : seen = IF s.item[i].loaded THEN s.item[i] ELSE Loaded(i)
  OBVIOUS
<1>10. z.item[i] = seen /\ z.row = s.row
  <2>1. PICK items : items = [s.item EXCEPT ![i] = seen]
    OBVIOUS
  <2>2. Is(s, s.call, s.todo, s.item, s.dirty, s.rows, s.tasks, s.row, s.take)
    BY <1>2, IsRunning
  <2>3. Is(z, s.call, s.todo, items, s.dirty, s.rows, s.tasks, s.row, s.take)
    BY <1>1, <1>9, <2>1, <2>2, SelectedIs
  <2>4. z.item = items /\ z.row = s.row
    BY <2>3 DEF Is
  <2> QED
    BY <1>5, <2>1, <2>4
<1>11. entry[i] = new
  BY <1>5, <1>8
<1>12. ASSUME t \in PurePicks, NEW y, y.rows = rows, y.item = entry PROVE Wrote(y, t, i)
  <2>1. i \in PickedItems /\ OnPicked(s, 1, t, i)
    BY <1>1, <1>3, <1>5, <1>12, PicksTasks DEF Stage
  <2>2. s.row = Row(stock, t) /\ stock.state[t] = "active"
    BY <2>1 DEF OnPicked
  <2>3. /\ s.row.amount = stock.amount[t] /\ s.row.source = stock.source[t] /\ s.row.state = "active"
        /\ DOMAIN s.row = {"state", "source", "amount"}
    BY <2>2 DEF Row
  <2>4. Enough(i, seen.quantity, seen.reserved)
    <3>1. CASE s.item[i].loaded
      BY <1>9, <2>1, <3>1 DEF OnPicked
    <3>2. CASE ~s.item[i].loaded
      BY <1>9, <2>1, <3>2 DEF Loaded, TxInv, RowsOK
    <3> QED
      BY <3>1, <3>2
  <2>5. Taken(i) \in Nat /\ Promised(i) \in Nat /\ StockBefore.amount \in [Task -> Nat]
    BY <2>1, PickSums DEF TxInv
  <2>6. stock.amount[t] \in Nat /\ Shelf[i] \in Nat
    BY <1>12, <2>5, ShelfAssumption DEF TxInv, RowsOK
  <2>7. /\ row.state = state /\ row.source = stock.source[t] /\ row.amount = stock.amount[t]
    BY <1>6, <1>10, <2>3
  <2>8. new.quantity = quantity /\ new.reserved = reserved
    BY <1>8
  <2> DEFINE a  == stock.amount[t]
             tk == Taken(i)
             pr == Promised(i)
             sh == Shelf[i]
             q  == seen.quantity
             rs == seen.reserved
  <2>9. a \in Nat /\ tk \in Nat /\ pr \in Nat /\ sh \in Nat /\ q \in Nat /\ rs \in Nat /\ q + tk >= sh /\ rs >= pr
    BY <2>4, <2>5, <2>6 DEF Enough
  <2>10. reserved = Less(rs, a) /\ (op = "consume" => quantity = Less(q, a)) /\ (op = "release" => quantity = q)
    BY <1>1, <1>6, <1>10, <2>3
  <2> HIDE DEF a, tk, pr, sh, q, rs
  <2>11. reserved \in Nat /\ reserved + a >= pr
    BY <2>9, <2>10 DEF Less, AtLeastZero
  <2>12. CASE op = "consume"
    <3>1. state = "consumed" /\ quantity \in Nat /\ quantity + tk + a >= sh
      BY <2>9, <2>10, <2>12 DEF Less, AtLeastZero
    <3> QED
      BY <1>5, <1>8, <1>11, <1>12, <2>2, <2>7, <2>8, <2>11, <3>1 DEF Wrote, a, tk, pr, sh
  <2>13. CASE op = "release"
    <3>1. state = "released" /\ quantity \in Nat /\ quantity + tk + 0 >= sh
      BY <2>9, <2>10, <2>13
    <3> QED
      BY <1>5, <1>8, <1>11, <1>12, <2>2, <2>7, <2>8, <2>11, <3>1 DEF Wrote, a, tk, pr, sh
  <2> QED
    BY <2>12, <2>13
<1>13. ASSUME NEW y, Is(y, s.call, Last(s.call, 0), entry, dirty, rows, s.tasks, s.row, s.take)
       PROVE  Stage(r, y, 0)'
  <2>1. /\ y.call = s.call /\ y.todo = Last(s.call, 0) /\ y.item = entry /\ y.dirty = dirty
        /\ y.rows = rows /\ y.tasks = s.tasks
    BY <1>13 DEF Is
  <2>2. ASSUME t \in PurePicks PROVE OnPicked(y, 0, t, i)'
    <3>1. Wrote(y, t, i)
      BY <1>12, <2>1, <2>2
    <3>2. Wrote(y, t, i)'
      BY <1>8, <3>1 DEF Wrote, Taken, Promised
    <3> QED
      BY <3>2 DEF OnPicked
  <2>3. /\ taskLock'[t] = r /\ DOMAIN s.tasks = {t} /\ s.tasks[t] \in {"completed", "cancelled"}
    <3>1. t = TaskOf(s.call) /\ taskLock' = taskLock /\ Stage(r, s, 1)
      BY <1>3, <1>5, <1>8
    <3>2. /\ taskLock[TaskOf(s.call)] = r /\ DOMAIN s.tasks = {TaskOf(s.call)}
          /\ s.tasks[TaskOf(s.call)] \in {"completed", "cancelled"}
      BY <3>1, StageHasTask
    <3> QED
      BY <3>1, <3>2
  <2>4. /\ DOMAIN y.rows \subseteq {t}
        /\ y.dirty \subseteq {i} \X {"quantity", "reserved"}
    BY <1>5, <1>8, <2>1
  <2>5. TaskOf(y.call) = t /\ ItemOf[t] = i /\ y.todo = Last(y.call, 0) /\ y.tasks = s.tasks
    BY <1>1, <1>3, <2>1
  <2>6. 0 <= 2 /\ ~(0 >= 1) /\ ~(0 >= 3)
    OBVIOUS
  <2> QED
    BY <2>2, <2>3, <2>4, <2>5, <2>6 DEF Stage
<1>14. /\ stock' = stock /\ taskStatus' = taskStatus /\ taskLock' = taskLock
       /\ Continue(r, x, Last(s.call, 0))
  BY <1>3, <1>4, <1>8
<1>15. \/ itemLock' = itemLock
       \/ \E j \in Item : itemLock[j] \in {Nobody, r} /\ itemLock' = [itemLock EXCEPT ![j] = r]
  BY <1>1 DEF LockItem, LockFree
<1>16. Is(x, s.call, s.todo, entry, dirty, rows, s.tasks, s.row, s.take)
  BY <1>8
<1>17. 0 \in 0 .. 5
  OBVIOUS
<1>18. \/ taskLock' = taskLock
       \/ \E u \in Task : taskLock[u] \in {Nobody, r} /\ taskLock' = [taskLock EXCEPT ![u] = r]
  BY <1>14
<1>19. \A y : Is(y, s.call, Last(s.call, 0), entry, dirty, rows, s.tasks, s.row, s.take) => Stage(r, y, 0)'
  BY <1>13
<1> QED
  BY <1>2, <1>14, <1>15, <1>16, <1>17, <1>18, <1>19, DirectStep

LEMMA ConsumeStep ==
  ASSUME TxInv, NEW r \in Request, NEW t \in Task, ConsumeRow(r, t)
  PROVE  TxInv'
<1>1. PICK s, z, op, state : s = session[r] /\ z = Selected(r, ItemOf[t]) /\ op = "consume" /\ state = "consumed"
  OBVIOUS
<1>2. PICK q : q = Less(z.item[ItemOf[t]].quantity, z.row.amount)
  OBVIOUS
<1>3. /\ At(r, op, t) /\ LockItem(r, ItemOf[t])
      /\ Flush(r, z, t, ItemOf[t], q, Less(z.item[ItemOf[t]].reserved, z.row.amount),
               [z.row EXCEPT !.state = state])
  BY <1>1, <1>2 DEF ConsumeRow
<1> QED
  BY <1>1, <1>2, <1>3, AwayFlush, DirectFlush

LEMMA ReleaseStep ==
  ASSUME TxInv, NEW r \in Request, NEW t \in Task, ReleaseRow(r, t)
  PROVE  TxInv'
<1>1. PICK s, z, op, state : s = session[r] /\ z = Selected(r, ItemOf[t]) /\ op = "release" /\ state = "released"
  OBVIOUS
<1>2. PICK q : q = z.item[ItemOf[t]].quantity
  OBVIOUS
<1>3. /\ At(r, op, t) /\ LockItem(r, ItemOf[t])
      /\ Flush(r, z, t, ItemOf[t], q, Less(z.item[ItemOf[t]].reserved, z.row.amount),
               [z.row EXCEPT !.state = state])
  BY <1>1, <1>2 DEF ReleaseRow
<1> QED
  BY <1>1, <1>2, <1>3, AwayFlush, DirectFlush

-----------------------------------------------------------------------------
(* Commit *)

\* The row of t is written off or released: its amount leaves one sum, and enters the other.
LEMMA SumsOne ==
  ASSUME RowsOK, NEW i \in PickedItems, NEW t \in TasksOf(i), stock.state[t] = "active",
         stock'.state[t] \in {"consumed", "released"},
         \A p \in PurePicks : stock'.amount[p] = stock.amount[p],
         \A p \in PurePicks : p # t => stock'.state[p] = stock.state[p]
  PROVE  /\ stock.amount[t] \in Nat
         /\ Promised(i)' \in Nat /\ Promised(i) = Promised(i)' + stock.amount[t]
         /\ Taken(i)' \in Nat
         /\ Taken(i)' = Taken(i) + (IF stock'.state[t] = "consumed" THEN stock.amount[t] ELSE 0)
<1> DEFINE f     == StockBefore.amount
           C(st) == {u \in TasksOf(i) : st.state[u] = "consumed"}
           A(st) == {u \in TasksOf(i) : st.state[u] = "active"}
<1>1. /\ f \in [Task -> Nat] /\ Taken(i) = Total(f, C(stock)) /\ Promised(i) = Total(f, A(stock))
      /\ Taken(i) \in Nat /\ Promised(i) \in Nat
  BY PickSums
<1>2. PICK new : new = stock'
  OBVIOUS
<1>3. \A p \in PurePicks : stock.amount[p] = f[p] /\ new.amount[p] = f[p]
  BY <1>2 DEF RowsOK
<1>4. TasksOf(i) \subseteq PurePicks /\ PurePicks \subseteq Task
  BY PicksTasks
<1>5. /\ A(new) = A(stock) \ {t} /\ t \in A(stock)
      /\ new.state[t] = "consumed" => C(new) = C(stock) \cup {t}
      /\ new.state[t] = "released" => C(new) = C(stock)
      /\ t \notin C(stock)
  BY <1>2, <1>4
<1>6. /\ A(stock) \in SUBSET Task /\ C(stock) \in SUBSET Task /\ A(new) \subseteq PurePicks /\ C(new) \subseteq PurePicks
      /\ A(new) \in SUBSET Task /\ C(new) \in SUBSET Task
  BY <1>4
<1>7. Taken(i)' = Total(new.amount, C(new)) /\ Promised(i)' = Total(new.amount, A(new))
  BY <1>2 DEF Taken, Promised
<1>8. t \in Task /\ t \in PurePicks
  BY <1>4
<1> HIDE DEF f, C, A
<1>9. Total(new.amount, C(new)) = Total(f, C(new)) /\ Total(new.amount, A(new)) = Total(f, A(new))
  BY <1>3, <1>6, TotalSame
<1>10. Total(f, A(new)) \in Nat /\ Total(f, C(new)) \in Nat
  BY <1>1, <1>6, TaskAssumption, TotalType
<1>11. f[t] = stock.amount[t] /\ f[t] \in Nat
  BY <1>1, <1>3, <1>8
<1>12. Total(f, A(stock)) = Total(f, A(new)) + f[t]
  BY <1>1, <1>5, <1>6, TaskAssumption, TotalRemove
<1>13. new.state[t] = "consumed" => Total(f, C(new)) = Total(f, C(stock)) + f[t]
  <2>1. t \in Task \ C(stock)
    BY <1>5, <1>8
  <2> QED
    BY <1>1, <1>5, <1>6, <2>1, TaskAssumption, TotalAdd
<1>14. new.state[t] = "released" => Total(f, C(new)) = Total(f, C(stock))
  BY <1>5
<1>15. /\ Promised(i)' \in Nat /\ Promised(i) = Promised(i)' + stock.amount[t]
       /\ Taken(i)' \in Nat
  BY <1>1, <1>7, <1>9, <1>10, <1>11, <1>12
<1>16. CASE new.state[t] = "consumed"
  BY <1>1, <1>2, <1>7, <1>9, <1>11, <1>13, <1>15, <1>16
<1>17. CASE new.state[t] = "released"
  BY <1>1, <1>2, <1>7, <1>9, <1>11, <1>14, <1>15, <1>17
<1> QED
  BY <1>2, <1>16, <1>17

\* What r may commit about picks.
CommitsSafely(r, s) ==
    /\ \A p \in PurePicks : p \in DOMAIN s.tasks => s.tasks[p] # "blocked"
    /\ \A p \in PurePicks : p \in DOMAIN s.rows => Wrote(s, p, ItemOf[p]) /\ taskLock[p] = r
    /\ \A i \in PickedItems, name \in {"quantity", "reserved"} :
          <<i, name>> \in s.dirty => \E p \in PurePicks : ItemOf[p] = i /\ p \in DOMAIN s.rows

LEMMA SafeToCommit ==
  ASSUME TxInv, NEW r \in Request, Running(r), NEW s, s = session[r], s.todo = <<>>
  PROVE  CommitsSafely(r, s)
<1>1. SessionFits(r, s) /\ s.call \in Calls
  BY IsRunning
<1>2. CASE IsDirect(s)
  <2>1. PICK n \in 0 .. 5 : Stage(r, s, n)
    BY <1>1, <1>2 DEF SessionFits
  <2>2. s.todo = Last(s.call, n)
    BY <2>1 DEF Stage
  <2>3. n = 0
    BY <2>2, LastFacts
  <2>4. PICK t, i : t = TaskOf(s.call) /\ i = ItemOf[t]
    OBVIOUS
  <2>5. Stage(r, s, 0)
    BY <2>1, <2>3
  <2>6. /\ taskLock[t] = r /\ DOMAIN s.tasks = {t} /\ s.tasks[t] \in {"completed", "cancelled"}
        /\ DOMAIN s.rows \subseteq {t} /\ s.dirty \subseteq {i} \X {"quantity", "reserved"}
        /\ t \in PurePicks => OnPicked(s, 0, t, i)
    BY <2>4, <2>5 DEF Stage
  <2>7. t \in Task
    BY <1>1, <1>2, <2>4, CallsAssumption DEF IsDirect, TaskOf
  <2>8. t \in PurePicks => (DOMAIN s.rows = {} /\ s.dirty = {}) \/ (Wrote(s, t, i) /\ DOMAIN s.rows = {t})
    BY <2>6 DEF OnPicked, Wrote
  <2>9. ASSUME NEW j \in PickedItems, NEW name \in {"quantity", "reserved"}, <<j, name>> \in s.dirty
        PROVE  \E p \in PurePicks : ItemOf[p] = j /\ p \in DOMAIN s.rows
    <3>1. j = i
      BY <2>6, <2>9
    <3>2. t \in PurePicks
      BY <2>4, <2>7, <2>9, <3>1 DEF PurePicks
    <3> QED
      BY <2>4, <2>8, <2>9, <3>1, <3>2
  <2> QED
    BY <2>4, <2>6, <2>8, <2>9 DEF CommitsSafely
<1>3. CASE ~IsDirect(s)
  <2>1. Away(r, s)
    BY <1>1, <1>3 DEF SessionFits
  <2> QED
    BY <2>1 DEF Away, CommitsSafely
<1> QED
  BY <1>2, <1>3

LEMMA CommitStep ==
  ASSUME TxInv, NEW r \in Request, Commit(r)
  PROVE  TxInv'
<1>1. PICK s, old : s = session[r] /\ old = stock
  OBVIOUS
<1>2. PICK new : new = stock'
  OBVIOUS
<1>3. Running(r) /\ s.todo = <<>> /\ EndSession(r)
  BY <1>1 DEF Commit
<1>4. CommitsSafely(r, s)
  BY <1>1, <1>3, SafeToCommit
<1>5. /\ new.quantity = [i \in Item |-> IF <<i, "quantity">> \in s.dirty THEN s.item[i].quantity
                                                                   ELSE stock.quantity[i]]
      /\ new.reserved = [i \in Item |-> IF <<i, "reserved">> \in s.dirty THEN s.item[i].reserved
                                                                   ELSE stock.reserved[i]]
      /\ new.state  = [t \in Task |-> Visible(s, t).state]
      /\ new.source = [t \in Task |-> Visible(s, t).source]
      /\ new.amount = [t \in Task |-> Visible(s, t).amount]
      /\ taskStatus' = [t \in Task |-> IF t \in DOMAIN s.tasks THEN s.tasks[t] ELSE taskStatus[t]]
  BY <1>1, <1>2 DEF Commit
<1>6. /\ DOMAIN session' = Request /\ LocksOK' /\ SessionOK(r)'
      /\ \A q \in Request \ {r} : /\ session'[q] = session[q]
                                  /\ \A i \in Item : itemLock'[i] = q => itemLock[i] = q
                                  /\ \A t \in Task : taskLock'[t] = q <=> taskLock[t] = q
  BY <1>3, EndStep
<1>7. ASSUME NEW p \in PurePicks
      PROVE  /\ new.amount[p] = stock.amount[p] /\ new.source[p] = stock.source[p]
             /\ p \notin DOMAIN s.rows => new.state[p] = stock.state[p]
             /\ p \in DOMAIN s.rows => /\ new.state[p] = s.rows[p].state /\ taskLock[p] = r
                                       /\ stock.state[p] = "active" /\ new.state[p] \in {"consumed", "released"}
             /\ taskStatus'[p] # "blocked"
  <2>1. p \in Task
    BY PicksTasks
  <2>2. /\ new.state[p] = Visible(s, p).state /\ new.source[p] = Visible(s, p).source
        /\ new.amount[p] = Visible(s, p).amount
        /\ taskStatus'[p] = IF p \in DOMAIN s.tasks THEN s.tasks[p] ELSE taskStatus[p]
    BY <1>5, <2>1
  <2>3. taskStatus'[p] # "blocked"
    BY <1>4, <2>2 DEF CommitsSafely, TxInv, RowsOK
  <2>4. CASE p \notin DOMAIN s.rows
    BY <2>2, <2>3, <2>4 DEF Visible, Row
  <2>5. CASE p \in DOMAIN s.rows
    <3>1. Wrote(s, p, ItemOf[p]) /\ taskLock[p] = r
      BY <1>4, <2>5 DEF CommitsSafely
    <3> QED
      BY <2>2, <2>3, <2>5, <3>1 DEF Visible, Wrote
  <2> QED
    BY <2>4, <2>5
<1>8. OthersKept(r)
  BY <1>2, <1>6, <1>7 DEF OthersKept
<1>9. ASSUME NEW i \in PickedItems PROVE Enough(i, stock.quantity[i], stock.reserved[i])'
  <2>1. /\ Taken(i) <= Taken(i)' /\ Promised(i)' <= Promised(i)
        /\ Taken(i) \in Nat /\ Taken(i)' \in Nat /\ Promised(i) \in Nat /\ Promised(i)' \in Nat
    BY <1>8, SumsMove DEF TxInv
  <2>2. Enough(i, stock.quantity[i], stock.reserved[i]) /\ Shelf[i] \in Nat /\ i \in Item
    BY PicksTasks, ShelfAssumption DEF TxInv, RowsOK
  <2>3. /\ new.quantity[i] = IF <<i, "quantity">> \in s.dirty THEN s.item[i].quantity ELSE stock.quantity[i]
        /\ new.reserved[i] = IF <<i, "reserved">> \in s.dirty THEN s.item[i].reserved ELSE stock.reserved[i]
    BY <1>5, <2>2
  <2>4. ASSUME \E name \in {"quantity", "reserved"} : <<i, name>> \in s.dirty
        PROVE  /\ s.item[i].quantity \in Nat /\ s.item[i].quantity + Taken(i)' >= Shelf[i]
               /\ s.item[i].reserved \in Nat /\ s.item[i].reserved >= Promised(i)'
    <3>1. PICK p \in PurePicks : ItemOf[p] = i /\ p \in DOMAIN s.rows
      BY <1>4, <2>4 DEF CommitsSafely
    <3>2. Wrote(s, p, i)
      BY <1>4, <3>1 DEF CommitsSafely
    <3>3. p \in TasksOf(i)
      BY <3>1, PicksTasks
    <3>4. /\ new.state[p] = s.rows[p].state /\ new.state[p] \in {"consumed", "released"} /\ stock.state[p] = "active"
          /\ \A u \in PurePicks : new.amount[u] = stock.amount[u]
      BY <1>7, <3>1
    <3>5. \A u \in PurePicks : u # p => new.state[u] = stock.state[u]
      <4>1. DOMAIN s.rows = {p}
        BY <3>2 DEF Wrote
      <4> QED
        BY <1>7, <4>1
    <3>6. /\ stock.amount[p] \in Nat
          /\ Promised(i) = Promised(i)' + stock.amount[p]
          /\ Taken(i)' = Taken(i) + (IF new.state[p] = "consumed" THEN stock.amount[p] ELSE 0)
      BY <1>2, <3>3, <3>4, <3>5, SumsOne DEF TxInv
    <3> DEFINE a   == stock.amount[p]
               tk  == Taken(i)
               tk2 == Taken(i)'
               pr  == Promised(i)
               pr2 == Promised(i)'
               q   == s.item[i].quantity
               rs  == s.item[i].reserved
               sh  == Shelf[i]
    <3>7. /\ q \in Nat /\ rs \in Nat /\ q + tk + (IF new.state[p] = "consumed" THEN a ELSE 0) >= sh
          /\ rs + a >= pr
      BY <3>2, <3>4 DEF Wrote
    <3>8. tk \in Nat /\ tk2 \in Nat /\ pr \in Nat /\ pr2 \in Nat /\ a \in Nat /\ sh \in Nat
      BY <2>1, <2>2, <3>6
    <3>9. pr = pr2 + a /\ tk2 = tk + (IF new.state[p] = "consumed" THEN a ELSE 0)
      BY <3>6
    <3> HIDE DEF a, tk, tk2, pr, pr2, q, rs, sh
    <3>10. q + tk2 >= sh /\ rs >= pr2
      BY <3>7, <3>8, <3>9
    <3> QED
      BY <3>7, <3>10 DEF tk2, pr2, q, rs, sh
  <2>5. new.quantity[i] \in Nat /\ new.quantity[i] + Taken(i)' >= Shelf[i]
    <3>1. CASE <<i, "quantity">> \in s.dirty
      BY <2>3, <2>4, <3>1
    <3>2. CASE <<i, "quantity">> \notin s.dirty
      BY <2>1, <2>2, <2>3, <3>2 DEF Enough
    <3> QED
      BY <3>1, <3>2
  <2>6. new.reserved[i] \in Nat /\ new.reserved[i] >= Promised(i)'
    <3>1. CASE <<i, "reserved">> \in s.dirty
      BY <2>3, <2>4, <3>1
    <3>2. CASE <<i, "reserved">> \notin s.dirty
      BY <2>1, <2>2, <2>3, <3>2 DEF Enough
    <3> QED
      BY <3>1, <3>2
  <2> QED
    BY <1>2, <2>5, <2>6 DEF Enough
<1>10. RowsOK'
  <2>1. ASSUME NEW p \in PurePicks PROVE (stock.amount[p] = StockBefore.amount[p] /\ taskStatus[p] # "blocked")'
    BY <1>2, <1>7 DEF TxInv, RowsOK
  <2> QED
    BY <1>9, <2>1 DEF RowsOK
<1>11. \A q \in Request : SessionOK(q)'
  BY <1>6, <1>8, OtherStays
<1> QED
  BY <1>6, <1>10, <1>11 DEF TxInv

-----------------------------------------------------------------------------
(* Every step *)

LEMMA TxNextInv == ASSUME TxInv, [TxNext]_txVars PROVE TxInv'
<1>1. CASE UNCHANGED txVars
  <2>1. /\ stock' = stock /\ taskStatus' = taskStatus /\ itemLock' = itemLock /\ taskLock' = taskLock
        /\ session' = session
    BY <1>1 DEF txVars
  <2>2. LocksOK' /\ RowsOK' /\ DOMAIN session' = Request
    BY <2>1 DEF TxInv, LocksOK, RowsOK, Enough, Taken, Promised
  <2>3. ASSUME NEW r \in Request PROVE SessionOK(r)'
    <3>1. PICK s : s = session[r] /\ session'[r] = s
      BY <2>1
    <3>2. IsSession(s) /\ s.call \in Calls /\ (s.phase = "running" => SessionFits(r, s))
      BY <3>1 DEF TxInv, SessionOK
    <3>3. ASSUME NEW n \in 0 .. 5, Stage(r, s, n) PROVE Stage(r, s, n)'
      <4>1. ASSUME NEW t, NEW i, OnPicked(s, n, t, i) PROVE OnPicked(s, n, t, i)'
        BY <2>1, <4>1 DEF OnPicked, Wrote, Enough, Taken, Promised, Row
      <4> QED
        BY <2>1, <3>3, <4>1 DEF Stage
    <3>4. Away(r, s) => Away(r, s)'
      BY <2>1 DEF Away
    <3>5. SessionFits(r, s) => SessionFits(r, s)'
      BY <3>3, <3>4 DEF SessionFits
    <3> QED
      BY <3>1, <3>2, <3>5 DEF SessionOK
  <2> QED
    BY <2>2, <2>3 DEF TxInv
<1>2. ASSUME NEW r \in Request, Statement(r) PROVE TxInv'
  <2>1. PICK t \in Task :
           \/ ReadTask(r, t) \/ LoadItem(r, t) \/ Refresh(r, t) \/ ReadRow(r, t)
           \/ ReserveRow(r, t) \/ ConsumeRow(r, t) \/ ReleaseRow(r, t)
           \/ \E new \in {"completed", "cancelled", "blocked"} : WriteTask(r, t, new)
    BY <1>2 DEF Statement
  <2>2. CASE ReadTask(r, t)
    BY <2>2, ReadTaskStep
  <2>3. CASE LoadItem(r, t)
    BY <2>3, LoadItemStep
  <2>4. CASE Refresh(r, t)
    BY <2>4, RefreshStep
  <2>5. CASE ReadRow(r, t)
    BY <2>5, ReadRowStep
  <2>6. CASE ReserveRow(r, t)
    BY <2>6, ReserveStep
  <2>7. CASE ConsumeRow(r, t)
    BY <2>7, ConsumeStep
  <2>8. CASE ReleaseRow(r, t)
    BY <2>8, ReleaseStep
  <2>9. CASE \E new \in {"completed", "cancelled", "blocked"} : WriteTask(r, t, new)
    BY <2>9, WriteTaskStep
  <2> QED
    BY <2>1, <2>2, <2>3, <2>4, <2>5, <2>6, <2>7, <2>8, <2>9
<1>3. ASSUME NEW r \in Request, Abort(r) PROVE TxInv'
  BY <1>3, RollbackStep DEF Abort
<1> QED
  BY <1>1, <1>2, <1>3, CommitStep DEF TxNext

\* How far each session has come, what it knows and what it holds, for any number of requests.
THEOREM TxInvTheorem == TxSpec => []TxInv
<1>1. TxInit => TxInv
  BY TxInitInv
<1>2. TxInv /\ [TxNext]_txVars => TxInv'
  BY TxNextInv
<1> QED
  BY <1>1, <1>2, PTL DEF TxSpec

\* For any number of requests, tasks and items: a scan may lose the write-off of another, but
\* no reservation of an item that is only picked from (confirm_pick, PATCH of a task) is
\* taken off the shelf or off the counter twice.
THEOREM NeverTakenTwiceTheorem == TxSpec => []NeverTakenTwice
<1>1. TxInv => NeverTakenTwice
  BY DEF TxInv, RowsOK, Enough, NeverTakenTwice, Taken, Promised
<1> QED
  BY <1>1, TxInvTheorem, PTL

\* Whom a session that locks its task first waits for.
LEMMA DirectWaits ==
  ASSUME TxInv, NEW q \in Request, IsDirect(session[q]), NEW w \in WaitsFor(q)
  PROVE  \E n \in 1 .. 5 : /\ Stage(q, session[q], n)
                           /\ \/ \E i \in Item : itemLock[i] = w
                              \/ n = 3 /\ \E t \in Task : taskLock[t] = w
<1>1. PICK s : s = session[q]
  OBVIOUS
<1>2. Running(q) /\ s.todo # <<>>
  BY <1>1 DEF WaitsFor
<1>3. PICK op, t, c : op = Head(s.todo).op /\ t = Head(s.todo).task /\ c = s.call
  OBVIOUS
<1>4. SessionFits(q, s) /\ c \in Calls
  BY <1>1, <1>2, <1>3, IsRunning
<1>5. PICK n \in 0 .. 5 : Stage(q, s, n)
  BY <1>1, <1>4 DEF SessionFits
<1>6. s.todo = Last(c, n)
  BY <1>3, <1>5 DEF Stage
<1>7. n # 0
  BY <1>2, <1>6, LastFacts
<1>8. Head(Last(c, n)) = Do(OpAt(c, n), TaskOf(c))
  BY <1>7, LastFacts
<1>9. op = OpAt(c, n) /\ t = TaskOf(c)
  BY <1>3, <1>6, <1>8 DEF Do
<1>10. c.handler \in {"confirm", "complete", "cancel"}
  BY <1>1, <1>3 DEF IsDirect
<1>11. t \in Task /\ ItemOf[t] \in Item
  BY <1>4, <1>9, <1>10, CallsAssumption, TaskDataAssumption DEF TaskOf
<1>12. n \in 1 .. 5
  BY <1>7
<1>13. PICK holder : holder = CASE op \in {"reserve", "consume", "release"} -> itemLock[ItemOf[t]]
                               [] op \in {"completed", "cancelled", "blocked"} -> taskLock[t]
                               [] OTHER -> Nobody
  OBVIOUS
<1>14. w \in {holder} \ {Nobody, q}
  BY <1>1, <1>2, <1>3, <1>13 DEF WaitsFor
<1>15. op \in {"readTask", "loadItem", "completed", "cancelled", "readRow", "consume", "release"}
       /\ (op \in {"completed", "cancelled"} => n = 3)
  BY <1>9, <1>10, <1>12, OpIndex
<1>16. CASE op \in {"consume", "release"}
  <2>1. holder = itemLock[ItemOf[t]]
    BY <1>13, <1>16
  <2> QED
    BY <1>1, <1>5, <1>11, <1>12, <1>14, <2>1
<1>17. CASE op \in {"completed", "cancelled"}
  <2>1. holder = taskLock[t] /\ n = 3
    BY <1>13, <1>15, <1>17
  <2> QED
    BY <1>1, <1>5, <1>11, <1>12, <1>14, <2>1
<1>18. CASE op \in {"readTask", "loadItem", "readRow"}
  <2>1. holder = Nobody
    BY <1>13, <1>18
  <2> QED
    BY <1>14, <2>1
<1> QED
  BY <1>15, <1>16, <1>17, <1>18

\* For any number of requests, tasks and items: scans and status changes never deadlock among
\* themselves (confirm_pick and patch_warehouse_task flush the task before _lock_item); in
\* each deadlock there is a plan, an incident or the scan of a blocked task.
THEOREM DeadlocksAreItemsFirstTheorem == TxSpec => []DeadlocksAreItemsFirst
<1>1. TxInv => DeadlocksAreItemsFirst
  <2> SUFFICES ASSUME TxInv, NEW R \in SUBSET Request, Cycle(R), \A r \in R : ~LocksItemsFirst(r)
               PROVE  FALSE
    BY DEF DeadlocksAreItemsFirst
  <2>1. /\ R # {}
        /\ \A q \in R : WaitsFor(q) \cap R # {} /\ \E p \in R : q \in WaitsFor(p)
    BY DEF Cycle
  <2>2. ASSUME NEW q \in R PROVE IsDirect(session[q])
    <3>1. session[q].call \in Calls
      BY DEF TxInv, SessionOK
    <3> QED
      BY <3>1, CallsAssumption DEF LocksItemsFirst, IsDirect, Handler
  <2>3. ASSUME NEW q \in R PROVE \A i \in Item : itemLock[i] # q
    <3>1. PICK w \in WaitsFor(q) : TRUE
      BY <2>1
    <3>2. PICK n \in 1 .. 5 : Stage(q, session[q], n)
      BY <2>2, <3>1, DirectWaits
    <3>3. n >= 1
      OBVIOUS
    <3> QED
      BY <3>2, <3>3 DEF Stage
  <2>4. ASSUME NEW q \in R, NEW w \in R, w \in WaitsFor(q)
        PROVE  Stage(q, session[q], 3) /\ \E t \in Task : taskLock[t] = w
    BY <2>2, <2>3, <2>4, DirectWaits
  <2>5. PICK q \in R : TRUE
    BY <2>1
  <2>6. PICK p \in R, w \in R : q \in WaitsFor(p) /\ w \in WaitsFor(q)
    BY <2>1
  <2>7. \A t \in Task : taskLock[t] # q
    <3>1. Stage(q, session[q], 3) /\ 3 >= 3
      BY <2>4, <2>6
    <3> QED
      BY <3>1 DEF Stage
  <2>8. \E t \in Task : taskLock[t] = q
    BY <2>4, <2>6
  <2> QED
    BY <2>7, <2>8
<1> QED
  BY <1>1, TxInvTheorem, PTL

-----------------------------------------------------------------------------
(* Outbound orders                                                         *)

NewTasksHoldNothing ==
    \A t \in Task : task[t].status = "none" => stock.state[t] = "none"

IInv == TypeOK /\ StockLaws /\ NewTasksHoldNothing /\ ReservationFollowsTask

-----------------------------------------------------------------------------
(* Types *)

LEMMA TaskParts ==
  ASSUME NEW t \in Task
  PROVE  t[1] \in Order /\ t[2] \in Line /\ t[3] \in Item
  BY TasksAssumption

LEMMA NoTaskType ==
  ASSUME NEW i \in Item
  PROVE  NoTask(i) \in TaskRow
  BY DEF NoTask, TaskRow, TaskStatus

LEMMA NoOrderType == NoOrder \in OrderRow
  BY DEF NoOrder, OrderRow, OrderStatus, GoneStatus

LEMMA InitTypes == Init => TypeOK
<1> SUFFICES ASSUME Init PROVE TypeOK
  OBVIOUS
<1>1. stock \in Ledger
  BY EmptyLedgerLaws, ShelfAssumption DEF Init, LedgerLaws
<1>2. item \in [Item -> ItemRow]
  BY DEF Init, ItemRow
<1>3. task \in [Task -> TaskRow]
  BY TaskParts, NoTaskType DEF Init
<1>4. order \in [Order -> OrderRow]
  BY NoOrderType DEF Init
<1> QED
  BY <1>1, <1>2, <1>3, <1>4 DEF TypeOK

\* A row written over with a status of its kind is a row.
LEMMA OrderStatusType ==
  ASSUME NEW ord \in [Order -> OrderRow], NEW o \in Order, NEW status \in OrderStatus
  PROVE  [ord EXCEPT ![o].status = status] \in [Order -> OrderRow]
<1>1. [ord[o] EXCEPT !.status = status] \in OrderRow
  BY DEF OrderRow
<1> QED
  BY <1>1

LEMMA TaskStatusType ==
  ASSUME NEW t \in Task, NEW status \in TaskStatus, task \in [Task -> TaskRow]
  PROVE  [task EXCEPT ![t].status = status] \in [Task -> TaskRow]
<1>1. [task[t] EXCEPT !.status = status] \in TaskRow
  BY DEF TaskRow
<1> QED
  BY <1>1

LEMMA SyncType ==
  ASSUME NEW ord \in [Order -> OrderRow], NEW tsk, NEW o \in Order
  PROVE  Sync(ord, tsk, o) \in [Order -> OrderRow]
<1>1. "picking_complete" \in OrderStatus
  BY DEF OrderStatus
<1> QED
  BY <1>1, OrderStatusType DEF Sync

-----------------------------------------------------------------------------
(* Planning *)

LEMMA ItemOfTaskType == ItemOfTask \in [Task -> Item]
  BY TaskParts DEF ItemOfTask

LEMMA TrialsAreNew ==
  ASSUME TypeOK, NEW ord, NEW O, NEW t \in Trials(ord, O)
  PROVE  t \in Task /\ task[t].status = "none"
<1>1. t \in Task /\ ToPlan(ord, t[1], t[2])
  BY DEF Trials
<1>2. t \notin LinePicks(task, t[1], t[2])
  BY <1>1 DEF ToPlan
<1> QED
  BY <1>1, <1>2 DEF LinePicks, Picks

\* What planning does to the ledger, the tasks and the orders.
LEMMA PlanningStep ==
  ASSUME IInv, NEW ord \in [Order -> OrderRow], NEW O,
         NEW take \in [Trials(ord, O) -> 0 .. MaxNeed],
         CanReserveAll(stock, ItemOfTask, take)
  PROVE  LET after == ReserveAll(stock, ItemOfTask, take)
             tasks == WithTasks(take)
         IN  /\ LedgerLaws(after, Shelf)
             /\ tasks \in [Task -> TaskRow]
             /\ AfterPlanning(ord, O, take) \in [Order -> OrderRow]
             /\ \A t \in Task : tasks[t].status = "none" => after.state[t] = "none"
             /\ \A t \in Task : after.state[t] = "active" =>
                   /\ tasks[t].status \notin {"none"} \cup ConsumingStatus \cup ReleasingStatus
                   /\ after.source[t] = tasks[t].item
                   /\ after.amount[t] = tasks[t].quantity
<1> DEFINE D     == Trials(ord, O)
           after == ReserveAll(stock, ItemOfTask, take)
           tasks == WithTasks(take)
<1> USE DEF IInv
<1>1. /\ D \in SUBSET Task
      /\ \A t \in D : task[t].status = "none" /\ stock.state[t] = "none"
  BY TrialsAreNew DEF NewTasksHoldNothing
<1>2. take \in [D -> Nat]
  BY NeedsAssumption
<1>3. LedgerLaws(after, Shelf)
  BY <1>1, <1>2, ReserveAllKeepsLaws, ItemOfTaskType, ShelfAssumption DEF StockLaws
<1>4. ASSUME NEW t \in Task, t \in D, take[t] > 0
      PROVE  /\ tasks[t] \in TaskRow
             /\ tasks[t].status = "pending"
             /\ tasks[t].item = t[3]
             /\ tasks[t].quantity = take[t]
             /\ after.state[t] = "active"
             /\ after.source[t] = t[3]
             /\ after.amount[t] = take[t]
  <2>1. tasks[t] = [NoTask(t[3]) EXCEPT !.status = "pending", !.quantity = take[t]]
    BY <1>2, <1>4 DEF WithTasks
  <2>2. NoTask(t[3]) \in TaskRow /\ take[t] \in Nat /\ "pending" \in TaskStatus
    BY <1>2, <1>4, TaskParts, NoTaskType DEF TaskStatus
  <2>3. tasks[t] \in TaskRow /\ tasks[t].status = "pending" /\ tasks[t].quantity = take[t]
    BY <2>1, <2>2 DEF TaskRow
  <2>4. tasks[t].item = t[3]
    BY <2>1 DEF NoTask
  <2>5. /\ after.state[t] = "active"
        /\ after.source[t] = t[3]
        /\ after.amount[t] = take[t]
    BY <1>2, <1>4 DEF ReserveAll, ItemOfTask
  <2> QED
    BY <2>3, <2>4, <2>5
<1>5. ASSUME NEW t \in Task, ~(t \in D /\ take[t] > 0)
      PROVE  /\ tasks[t] = task[t]
             /\ after.state[t] = stock.state[t]
             /\ after.source[t] = stock.source[t]
             /\ after.amount[t] = stock.amount[t]
  BY <1>2, <1>5 DEF WithTasks, ReserveAll
<1>6. tasks \in [Task -> TaskRow]
  <2>1. \A t \in Task : tasks[t] \in TaskRow
    BY <1>4, <1>5 DEF TypeOK
  <2>2. tasks = [t \in Task |-> tasks[t]]
    BY DEF WithTasks
  <2> QED
    BY <2>1, <2>2
<1>7. AfterPlanning(ord, O, take) \in [Order -> OrderRow]
  <2>1. ASSUME NEW o \in Order, NEW short \in SUBSET Line, NEW status \in OrderStatus
        PROVE  [ord[o] EXCEPT !.shortage = short, !.status = status] \in OrderRow
    BY DEF OrderRow
  <2>2. "picking" \in OrderStatus /\ \A o \in Order : ord[o].status \in OrderStatus
    BY DEF OrderStatus, OrderRow
  <2> QED
    BY <2>1, <2>2 DEF AfterPlanning
<1> HIDE DEF after, tasks, D
<1>8. ASSUME NEW t \in Task
      PROVE  tasks[t].status = "none" => after.state[t] = "none"
  BY <1>4, <1>5 DEF NewTasksHoldNothing
<1>9. ASSUME NEW t \in Task, after.state[t] = "active"
      PROVE  /\ tasks[t].status \notin {"none"} \cup ConsumingStatus \cup ReleasingStatus
             /\ after.source[t] = tasks[t].item
             /\ after.amount[t] = tasks[t].quantity
  <2>1. CASE t \in D /\ take[t] > 0
    BY <2>1, <1>4 DEF ConsumingStatus, ReleasingStatus
  <2>2. CASE ~(t \in D /\ take[t] > 0)
    BY <2>2, <1>5, <1>9 DEF ReservationFollowsTask
  <2> QED
    BY <2>1, <2>2
<1> QED
  BY <1>3, <1>6, <1>7, <1>8, <1>9 DEF after, tasks

-----------------------------------------------------------------------------
(* What the ledger operations do to the rows of the tasks.                 *)

SameRow(r, s, u) ==
    r.state[u] = s.state[u] /\ r.source[u] = s.source[u] /\ r.amount[u] = s.amount[u]

LEMMA ReleaseRows ==
  ASSUME NEW s \in Ledger, NEW t \in Task
  PROVE  LET r == Release(s, t)
         IN  /\ r.state[t] # "active"
             /\ s.state[t] = "none" => r.state[t] = "none"
             /\ \A u \in Task \ {t} : SameRow(r, s, u)
  BY DEF Release, Ledger, SameRow

LEMMA ConsumeRows ==
  ASSUME NEW s \in Ledger, NEW t \in Task, NEW n
  PROVE  LET r == Consume(s, t, n)
         IN  /\ r.state[t] # "active"
             /\ s.state[t] = "none" => r.state[t] = "none"
             /\ \A u \in Task \ {t} : SameRow(r, s, u)
  BY DEF Consume, Ledger, SameRow

LEMMA ReserveRows ==
  ASSUME NEW s \in Ledger, NEW t \in Task, NEW i, NEW n
  PROVE  \A u \in Task \ {t} : SameRow(Reserve(s, t, i, n), s, u)
  BY DEF Reserve, Ledger, SameRow

LEMMA ApplyStatusRows ==
  ASSUME NEW s \in Ledger, NEW t \in Task, NEW status
  PROVE  LET r == ApplyStatus(s, t, status)
         IN  /\ status \in ConsumingStatus \cup ReleasingStatus => r.state[t] # "active"
             /\ status \notin ConsumingStatus \cup ReleasingStatus => r = s
             /\ s.state[t] = "none" => r.state[t] = "none"
             /\ \A u \in Task \ {t} : SameRow(r, s, u)
<1>1. CASE status \in ConsumingStatus
  <2>1. ApplyStatus(s, t, status) = Consume(s, t, s.amount[t])
    BY <1>1 DEF ApplyStatus, ConsumeAll, ConsumingStatus, ReleasingStatus
  <2> QED
    BY <1>1, <2>1, ConsumeRows
<1>2. CASE status \in ReleasingStatus
  <2>1. ApplyStatus(s, t, status) = Release(s, t)
    BY <1>2 DEF ApplyStatus, ConsumingStatus, ReleasingStatus
  <2> QED
    BY <1>2, <2>1, ReleaseRows
<1>3. CASE status \notin ConsumingStatus \cup ReleasingStatus
  <2>1. ApplyStatus(s, t, status) = s
    BY <1>3 DEF ApplyStatus
  <2> QED
    BY <1>3, <2>1 DEF SameRow
<1> QED
  BY <1>1, <1>2, <1>3

\* A step that gives one task another row, and settles what the ledger holds
\* for it, keeps the parts of the invariant that relate tasks and ledger.
LEMMA OneTaskStep ==
  ASSUME IInv, NEW t \in Task,
         \A u \in Task \ {t} : task'[u] = task[u] /\ SameRow(stock', stock, u),
         task'[t].status # "none",
         stock'.state[t] = "active" =>
            /\ task'[t].status \notin ConsumingStatus \cup ReleasingStatus
            /\ stock'.source[t] = task'[t].item
            /\ stock'.amount[t] = task'[t].quantity
  PROVE  NewTasksHoldNothing' /\ ReservationFollowsTask'
<1> USE DEF IInv
<1>1. NewTasksHoldNothing'
  BY DEF NewTasksHoldNothing, SameRow
<1>2. ASSUME NEW u \in Task, stock'.state[u] = "active"
      PROVE  /\ task'[u].status \notin {"none"} \cup ConsumingStatus \cup ReleasingStatus
             /\ stock'.source[u] = task'[u].item
             /\ stock'.amount[u] = task'[u].quantity
  <2>1. CASE u = t
    BY <1>2, <2>1
  <2>2. CASE u # t
    <3>1. task'[u] = task[u] /\ SameRow(stock', stock, u)
      BY <2>2
    <3>2. stock.state[u] = "active"
      BY <1>2, <3>1 DEF SameRow
    <3> QED
      BY <3>1, <3>2 DEF ReservationFollowsTask, SameRow
  <2> QED
    BY <2>1, <2>2
<1> QED
  BY <1>1, <1>2 DEF ReservationFollowsTask

-----------------------------------------------------------------------------
(* One lemma per action: each keeps the invariant.                         *)

LEMMA PlanPicksStep ==
  ASSUME IInv, NEW ord \in [Order -> OrderRow], NEW O, PlanPicks(ord, O)
  PROVE  IInv'
<1>1. PICK take \in [Trials(ord, O) -> 0 .. MaxNeed] :
        /\ CanReserveAll(stock, ItemOfTask, take)
        /\ stock' = ReserveAll(stock, ItemOfTask, take)
        /\ task'  = WithTasks(take)
        /\ order' = AfterPlanning(ord, O, take)
        /\ UNCHANGED item
  BY DEF PlanPicks
<1>2. /\ LedgerLaws(stock', Shelf)
      /\ task' \in [Task -> TaskRow]
      /\ order' \in [Order -> OrderRow]
      /\ NewTasksHoldNothing'
      /\ ReservationFollowsTask'
  BY <1>1, PlanningStep DEF NewTasksHoldNothing, ReservationFollowsTask
<1> QED
  BY <1>1, <1>2 DEF IInv, TypeOK, StockLaws, LedgerLaws

LEMMA CreateOrderStep ==
  ASSUME IInv, NEW o \in Order, NEW status \in CreatedStatus, NEW need \in Needs,
         CreateOrder(o, status, need)
  PROVE  IInv'
<1> DEFINE new == [NoOrder EXCEPT !.status = status, !.need = need]
<1>1. need \in [Line -> Nat] /\ status \in OrderStatus
  BY NeedsAssumption DEF OrderStatus
<1>2. new \in OrderRow
  BY <1>1, NoOrderType DEF OrderRow
<1>3. [order EXCEPT ![o] = new] \in [Order -> OrderRow]
  BY <1>2 DEF IInv, TypeOK
<1> QED
  BY <1>3, PlanPicksStep DEF CreateOrder

\* What a body may make of a row is a row, with the same status if it carries none.
LEMMA PatchedRow ==
  ASSUME NEW row \in OrderRow, NEW a \in WithStatus(row), NEW b \in WithLines(a),
         NEW new \in WithExtra(b)
  PROVE  /\ new \in OrderRow
         /\ new.status \in {row.status} \cup PatchedOrderStatus
<1>1. a \in OrderRow /\ a.status \in {row.status} \cup PatchedOrderStatus
  BY DEF WithStatus, OrderRow, OrderStatus
<1>2. b \in OrderRow /\ b.status = a.status
  <2>1. ASSUME NEW need \in PatchedNeeds,
               b = [a EXCEPT !.need = need, !.picked = [l \in Line |-> 0]]
        PROVE  b \in OrderRow /\ b.status = a.status
    <3>1. need \in [Line -> Nat]
      BY NeedsAssumption
    <3> QED
      BY <1>1, <2>1, <3>1 DEF OrderRow
  <2> QED
    BY <1>1, <2>1 DEF WithLines
<1>3. new \in OrderRow /\ new.status = b.status
  BY <1>2 DEF WithExtra, OrderRow
<1> QED
  BY <1>1, <1>2, <1>3

LEMMA PatchOrderStep ==
  ASSUME IInv, NEW o \in Order, PatchOrder(o)
  PROVE  IInv'
<1>0. order \in [Order -> OrderRow]
  BY DEF IInv, TypeOK
<1>1. PICK a \in WithStatus(order[o]) : \E b \in WithLines(a) : \E row \in WithExtra(b) :
         PlanPicks([order EXCEPT ![o] = row], {o})
  BY DEF PatchOrder
<1>2. PICK b \in WithLines(a) : \E row \in WithExtra(b) :
         PlanPicks([order EXCEPT ![o] = row], {o})
  BY <1>1
<1>3. PICK row \in WithExtra(b) : PlanPicks([order EXCEPT ![o] = row], {o})
  BY <1>2
<1>4. row \in OrderRow
  BY <1>0, PatchedRow
<1>5. [order EXCEPT ![o] = row] \in [Order -> OrderRow]
  BY <1>0, <1>4
<1> QED
  BY <1>3, <1>5, PlanPicksStep

LEMMA DeleteOrderStep ==
  ASSUME IInv, NEW o \in Order, DeleteOrder(o)
  PROVE  IInv'
<1>1. [NoOrder EXCEPT !.status = "deleted"] \in OrderRow
  BY NoOrderType DEF OrderRow, OrderStatus, GoneStatus
<1>2. order' \in [Order -> OrderRow]
  BY <1>1 DEF DeleteOrder, IInv, TypeOK
<1> QED
  BY <1>2 DEF DeleteOrder, IInv, TypeOK, StockLaws, NewTasksHoldNothing, ReservationFollowsTask

LEMMA ConfirmNoStockStep ==
  ASSUME IInv, NEW o \in Order, NEW t \in Task, ConfirmNoStock(o, t)
  PROVE  IInv'
<1> USE DEF IInv
<1>1. LedgerLaws(stock', Shelf)
  BY ReleaseKeepsLaws, ShelfAssumption DEF ConfirmNoStock, StockLaws
<1>2. task' \in [Task -> TaskRow]
  <2>1. [task[t] EXCEPT !.status = "blocked", !.incident = "open", !.confirmed = 0] \in TaskRow
    BY DEF TypeOK, TaskRow, TaskStatus
  <2> QED
    BY <2>1 DEF ConfirmNoStock, TypeOK
<1>3. order' \in [Order -> OrderRow]
  <2>1. ASSUME NEW status \in OrderStatus
        PROVE  [order[o] EXCEPT !.incidents = @ \cup {t}, !.status = status] \in OrderRow
    BY DEF TypeOK, OrderRow
  <2>2. order[o].status \in OrderStatus /\ "picking" \in OrderStatus
    BY DEF TypeOK, OrderRow, OrderStatus
  <2>3. [order[o] EXCEPT
           !.incidents = @ \cup {t},
           !.status    = IF @ \in {"open", "picking_complete"} THEN "picking" ELSE @] \in OrderRow
    BY <2>1, <2>2
  <2> QED
    BY <2>3 DEF ConfirmNoStock, TypeOK
<1>4. NewTasksHoldNothing' /\ ReservationFollowsTask'
  <2>1. stock' = Release(stock, t) /\ stock \in Ledger
    BY DEF ConfirmNoStock, TypeOK
  <2>2. stock'.state[t] # "active" /\ \A u \in Task \ {t} : SameRow(stock', stock, u)
    BY <2>1, ReleaseRows
  <2>3. task'[t].status = "blocked" /\ \A u \in Task \ {t} : task'[u] = task[u]
    BY DEF ConfirmNoStock, TypeOK, TaskRow
  <2> QED
    BY <2>2, <2>3, OneTaskStep
<1> QED
  BY <1>1, <1>2, <1>3, <1>4 DEF ConfirmNoStock, TypeOK, StockLaws, LedgerLaws

LEMMA PackOrderStep ==
  ASSUME IInv, NEW o \in Order, PackOrder(o)
  PROVE  IInv'
<1>1. [order[o] EXCEPT !.status = "packed", !.packedAt = TRUE] \in OrderRow
  BY DEF IInv, TypeOK, OrderRow, OrderStatus
<1>2. order' \in [Order -> OrderRow]
  BY <1>1 DEF PackOrder, IInv, TypeOK
<1> QED
  BY <1>2 DEF PackOrder, IInv, TypeOK, StockLaws, NewTasksHoldNothing, ReservationFollowsTask

LEMMA ShipOrderStep ==
  ASSUME IInv, NEW o \in Order, ShipOrder(o)
  PROVE  IInv'
<1>1. order' \in [Order -> OrderRow]
  BY OrderStatusType DEF ShipOrder, IInv, TypeOK, OrderStatus
<1>2. \A i \in Item : [item[i] EXCEPT !.status = "shipped", !.slotted = FALSE] \in ItemRow
  BY DEF IInv, TypeOK, ItemRow
<1>3. item' \in [Item -> ItemRow]
  BY <1>2 DEF ShipOrder, IInv, TypeOK
<1> QED
  BY <1>1, <1>3 DEF ShipOrder, IInv, TypeOK, StockLaws, NewTasksHoldNothing, ReservationFollowsTask

LEMMA ItemStepStep ==
  ASSUME IInv, NEW i \in Item, UpdateItemStatus(i) \/ Expire(i)
  PROVE  IInv'
<1>1. item' \in [Item -> ItemRow]
  <2>1. CASE UpdateItemStatus(i)
    <3>1. NextItemStatus[item[i].status] \in {"shipment", "shipped"}
      BY <2>1 DEF UpdateItemStatus, NextItemStatus
    <3>2. [item[i] EXCEPT !.status = NextItemStatus[@]] \in ItemRow
      BY <3>1 DEF IInv, TypeOK, ItemRow
    <3> QED
      BY <2>1, <3>2 DEF UpdateItemStatus, IInv, TypeOK
  <2>2. CASE Expire(i)
    <3>1. [item[i] EXCEPT !.expired = TRUE] \in ItemRow
      BY DEF IInv, TypeOK, ItemRow
    <3> QED
      BY <2>2, <3>1 DEF Expire, IInv, TypeOK
  <2> QED
    BY <2>1, <2>2
<1> QED
  BY <1>1 DEF UpdateItemStatus, Expire, IInv, TypeOK, StockLaws, NewTasksHoldNothing,
              ReservationFollowsTask

LEMMA PatchTaskStep ==
  ASSUME IInv, NEW t \in Task, NEW status \in PatchedTaskStatus, PatchTask(t, status)
  PROVE  IInv'
<1> USE DEF IInv
<1> DEFINE changed == [task EXCEPT ![t].status = status]
<1>1. stock \in Ledger /\ t[1] \in Order /\ order \in [Order -> OrderRow]
  BY TaskParts DEF TypeOK
<1>2. LedgerLaws(stock', Shelf)
  BY ApplyStatusKeepsLaws, ShelfAssumption DEF PatchTask, StockLaws
<1>3. task' \in [Task -> TaskRow] /\ task' = changed
  BY TaskStatusType DEF PatchTask, TypeOK, TaskStatus
<1>4. order' \in [Order -> OrderRow]
  BY <1>1, SyncType DEF PatchTask
<1>5. /\ task'[t].status = status
      /\ task'[t].item = task[t].item
      /\ task'[t].quantity = task[t].quantity
      /\ \A u \in Task \ {t} : task'[u] = task[u]
  BY <1>3 DEF TypeOK, TaskRow
<1>6. /\ status \in ConsumingStatus \cup ReleasingStatus => stock'.state[t] # "active"
      /\ status \notin ConsumingStatus \cup ReleasingStatus => stock' = stock
      /\ \A u \in Task \ {t} : SameRow(stock', stock, u)
  BY <1>1, ApplyStatusRows DEF PatchTask
<1>7. status # "none"
  BY StatusAssumption
<1>8. ASSUME stock'.state[t] = "active"
      PROVE  /\ task'[t].status \notin ConsumingStatus \cup ReleasingStatus
             /\ stock'.source[t] = task'[t].item
             /\ stock'.amount[t] = task'[t].quantity
  <2>1. status \notin ConsumingStatus \cup ReleasingStatus /\ stock' = stock
    BY <1>6, <1>8
  <2> QED
    BY <1>5, <1>8, <2>1 DEF ReservationFollowsTask
<1>9. NewTasksHoldNothing' /\ ReservationFollowsTask'
  BY <1>5, <1>6, <1>7, <1>8, OneTaskStep
<1> QED
  BY <1>2, <1>3, <1>4, <1>9 DEF PatchTask, TypeOK, StockLaws, LedgerLaws

LEMMA DoneType ==
  ASSUME TypeOK, NEW t \in Task, NEW source \in Item, NEW n \in Nat
  PROVE  /\ Done(t, source, n) \in [Task -> TaskRow]
         /\ Done(t, source, n)[t].status = "completed"
         /\ \A u \in Task \ {t} : Done(t, source, n)[u] = task[u]
<1> DEFINE new(inc) == [task[t] EXCEPT !.status = "completed", !.item = source,
                                       !.confirmed = n, !.incident = inc]
<1>1. \A inc \in {"none", "open", "resolved"} :
         new(inc) \in TaskRow /\ new(inc).status = "completed"
  BY DEF TypeOK, TaskRow, TaskStatus
<1>2. Done(t, source, n) =
        [task EXCEPT ![t] = new(IF task[t].incident = "none" THEN "none" ELSE "resolved")]
  BY DEF Done, TypeOK
<1> QED
  BY <1>1, <1>2 DEF TypeOK

LEMMA CountedType ==
  ASSUME TypeOK, NEW o \in Order, NEW t \in Task, NEW n \in Nat
  PROVE  Counted(o, t, n) \in [Order -> OrderRow]
<1> DEFINE bumped == [order[o].picked EXCEPT ![t[2]] = @ + n]
<1>1. t[2] \in Line /\ order[o] \in OrderRow
  BY TaskParts DEF TypeOK
<1>2. bumped \in [Line -> Nat]
  BY <1>1 DEF OrderRow
<1>3. ASSUME NEW status \in OrderStatus, NEW open \in SUBSET Task, NEW counts \in [Line -> Nat]
      PROVE  [order[o] EXCEPT !.picked = counts, !.incidents = open, !.status = status]
                 \in OrderRow
  BY <1>1 DEF OrderRow
<1>4. /\ order[o].status \in OrderStatus /\ "picking" \in OrderStatus
      /\ order[o].incidents \ {t} \in SUBSET Task
  BY <1>1 DEF OrderRow, OrderStatus
<1> HIDE DEF bumped
<1>5. [order[o] EXCEPT !.picked = bumped, !.incidents = @ \ {t},
                       !.status = IF @ = "open" THEN "picking" ELSE @] \in OrderRow
  BY <1>2, <1>3, <1>4
<1>6. Counted(o, t, n) =
        [order EXCEPT ![o] = [order[o] EXCEPT !.picked = bumped, !.incidents = @ \ {t},
                                              !.status = IF @ = "open" THEN "picking" ELSE @]]
  BY DEF Counted, TypeOK, bumped
<1> QED
  BY <1>5, <1>6 DEF TypeOK

LEMMA ConfirmOkStep ==
  ASSUME IInv, NEW o \in Order, NEW t \in Task, NEW i \in Item,
         NEW n \in {task[t].quantity} \cup OtherQuantity, ConfirmOk(o, t, i, n)
  PROVE  IInv'
<1> USE DEF IInv
<1> DEFINE blocked  == task[t].status = "blocked"
           source   == IF Reassigned(t, i) THEN i ELSE task[t].item
           freed    == IF Reassigned(t, i) THEN Release(stock, t) ELSE stock
           reserved == IF blocked THEN Reserve(freed, t, source, n) ELSE stock
           done     == Done(t, source, n)
<1>1. n \in Nat /\ source \in Item
  BY QuantityAssumption DEF TypeOK, TaskRow
<1>2. /\ blocked => CanReserve(freed, t, source, n)
      /\ stock' = Consume(reserved, t, n)
      /\ task'  = done
      /\ order' = Sync(Counted(o, t, n), done, o)
      /\ UNCHANGED item
  BY DEF ConfirmOk
<1> HIDE DEF source, done
<1>3. LedgerLaws(freed, Shelf)
  BY ReleaseKeepsLaws, ShelfAssumption DEF StockLaws
<1> HIDE DEF freed
<1>4. LedgerLaws(reserved, Shelf)
  BY <1>1, <1>2, <1>3, ReserveKeepsLaws, ShelfAssumption DEF StockLaws
<1> HIDE DEF reserved
<1>5. LedgerLaws(stock', Shelf)
  BY <1>1, <1>2, <1>4, ConsumeKeepsLaws, ShelfAssumption
<1>6. task' \in [Task -> TaskRow]
  BY <1>1, <1>2, DoneType DEF done
<1>7. order' \in [Order -> OrderRow]
  BY <1>1, <1>2, CountedType, SyncType
<1>8. NewTasksHoldNothing' /\ ReservationFollowsTask'
  <2>1. stock \in Ledger /\ freed \in Ledger /\ reserved \in Ledger
    BY <1>3, <1>4 DEF StockLaws, LedgerLaws
  <2>2. \A u \in Task \ {t} : SameRow(freed, stock, u)
    BY <2>1, ReleaseRows DEF freed, SameRow
  <2>3. \A u \in Task \ {t} : SameRow(reserved, stock, u)
    BY <2>1, <2>2, ReserveRows DEF reserved, SameRow
  <2>4. stock'.state[t] # "active" /\ \A u \in Task \ {t} : SameRow(stock', stock, u)
    BY <1>2, <2>1, <2>3, ConsumeRows DEF SameRow
  <2>5. task'[t].status = "completed" /\ \A u \in Task \ {t} : task'[u] = task[u]
    BY <1>1, <1>2, DoneType DEF done
  <2> QED
    BY <2>4, <2>5, OneTaskStep
<1> QED
  BY <1>2, <1>5, <1>6, <1>7, <1>8 DEF TypeOK, StockLaws, LedgerLaws

LEMMA PlanWaveStep ==
  ASSUME IInv, NEW O, PlanWave(O)
  PROVE  IInv'
<1>1. PICK take \in [Trials(order, O) -> 0 .. MaxNeed] :
        /\ CanReserveAll(stock, ItemOfTask, take)
        /\ stock' = ReserveAll(stock, ItemOfTask, take)
        /\ \E marked :
              task' = [t \in Task |-> IF t \in marked
                                      THEN [WithTasks(take)[t] EXCEPT !.via = "outbound_wave"]
                                      ELSE WithTasks(take)[t]]
        /\ order' = AfterPlanning(order, O, take)
        /\ UNCHANGED item
  BY Zenon DEF PlanWave
<1> DEFINE planned == WithTasks(take)
<1>2. /\ LedgerLaws(stock', Shelf)
      /\ planned \in [Task -> TaskRow]
      /\ order' \in [Order -> OrderRow]
      /\ \A t \in Task : planned[t].status = "none" => stock'.state[t] = "none"
      /\ \A t \in Task : stock'.state[t] = "active" =>
            /\ planned[t].status \notin {"none"} \cup ConsumingStatus \cup ReleasingStatus
            /\ stock'.source[t] = planned[t].item
            /\ stock'.amount[t] = planned[t].quantity
  BY <1>1, PlanningStep DEF IInv, TypeOK
<1> HIDE DEF planned
<1>3. ASSUME NEW t \in Task
      PROVE  /\ task'[t] \in TaskRow
             /\ task'[t].status = planned[t].status
             /\ task'[t].item = planned[t].item
             /\ task'[t].quantity = planned[t].quantity
  <2>1. [planned[t] EXCEPT !.via = "outbound_wave"] \in TaskRow
    BY <1>2 DEF TaskRow
  <2>2. planned[t] \in TaskRow
    BY <1>2
  <2>3. task'[t] \in {planned[t], [planned[t] EXCEPT !.via = "outbound_wave"]}
    BY <1>1 DEF planned
  <2> QED
    BY <2>1, <2>2, <2>3 DEF TaskRow
<1>4. task' \in [Task -> TaskRow]
  <2>1. task' = [t \in Task |-> task'[t]]
    BY <1>1
  <2> QED
    BY <1>3, <2>1
<1>5. NewTasksHoldNothing' /\ ReservationFollowsTask'
  BY <1>2, <1>3 DEF NewTasksHoldNothing, ReservationFollowsTask
<1> QED
  BY <1>1, <1>2, <1>4, <1>5 DEF IInv, TypeOK, StockLaws, LedgerLaws

-----------------------------------------------------------------------------
(* The invariant *)

LEMMA InvInit == Init => IInv
<1> SUFFICES ASSUME Init PROVE IInv
  OBVIOUS
<1>1. LedgerLaws(EmptyLedger(Shelf), Shelf)
  BY EmptyLedgerLaws, ShelfAssumption
<1>2. \A t \in Task : stock.state[t] = "none"
  BY DEF Init, EmptyLedger
<1> QED
  BY <1>1, <1>2, InitTypes
     DEF Init, IInv, StockLaws, NewTasksHoldNothing, ReservationFollowsTask

LEMMA InvStep == IInv /\ [Next]_vars => IInv'
<1> SUFFICES ASSUME IInv, [Next]_vars PROVE IInv'
  OBVIOUS
<1>1. CASE UNCHANGED vars
  BY <1>1 DEF vars, IInv, TypeOK, StockLaws, NewTasksHoldNothing, ReservationFollowsTask
<1>2. CASE PickStep
  <2>1. ASSUME NEW t \in Task, ConfirmNoStock(t[1], t) PROVE IInv'
    BY <2>1, TaskParts, ConfirmNoStockStep
  <2>2. ASSUME NEW t \in Task, NEW i \in Item,
               NEW n \in {task[t].quantity} \cup OtherQuantity, ConfirmOk(t[1], t, i, n)
        PROVE  IInv'
    BY <2>2, TaskParts, ConfirmOkStep
  <2>3. ASSUME NEW t \in Task, NEW status \in PatchedTaskStatus, PatchTask(t, status)
        PROVE  IInv'
    BY <2>3, PatchTaskStep
  <2> QED
    BY <1>2, <2>1, <2>2, <2>3 DEF PickStep
<1>3. CASE OrderStep
  BY <1>3, CreateOrderStep, PatchOrderStep, DeleteOrderStep, PackOrderStep,
     ShipOrderStep, PlanWaveStep DEF OrderStep
<1>4. CASE ItemStep
  BY <1>4, ItemStepStep, ItemSetsAssumption DEF ItemStep
<1> QED
  BY <1>1, <1>2, <1>3, <1>4 DEF Next

LEMMA Invariant == Spec => []IInv
  BY InvInit, InvStep, PTL DEF Spec

\* The type invariant.
THEOREM TypeTheorem == Spec => []TypeOK
<1>1. IInv => TypeOK
  BY DEF IInv
<1> QED
  BY <1>1, Invariant, PTL

\* Whatever the handlers of outbound orders do, in any order, reserved_quantity
\* is the sum of the active reservations, within the shelf, and the shelf is
\* short of exactly what picks wrote off.
THEOREM StockLawsTheorem == Spec => []StockLaws
<1>1. IInv => StockLaws
  BY DEF IInv
<1> QED
  BY <1>1, Invariant, PTL

\* A reservation is held only for a task still to be done, on the item and in
\* the quantity the task names.
THEOREM ReservationFollowsTaskTheorem == Spec => []ReservationFollowsTask
<1>1. IInv => ReservationFollowsTask
  BY DEF IInv
<1> QED
  BY <1>1, Invariant, PTL

-----------------------------------------------------------------------------
(* Shipping.  No user writes a status over that of an order.               *)

\* What a step may do to the status of an order.
StatusStep(o) ==
    \/ order'[o].status = order[o].status
    \/ order'[o].status = "deleted"
    \/ order[o].status = "absent" /\ order'[o].status \in CreatedStatus \cup {"picking"}
    \/ order[o].status # "shipped" /\ order'[o].status \in {"open", "picking", "picking_complete"}
    \/ PackOrder(o) /\ order[o].status # "shipped" /\ order'[o].status = "packed"
    \/ ShipOrder(o) /\ order[o].status = "packed" /\ order'[o].status = "shipped"

\* Planning changes the status of orders still to be picked only.
LEMMA PlanningStatus ==
  ASSUME NEW ord, NEW O, NEW take, NEW o \in Order, order' = AfterPlanning(ord, O, take),
         ord \in [Order -> OrderRow]
  PROVE  \/ order'[o].status = ord[o].status
         \/ ord[o].status \in PlanStatus /\ order'[o].status = "picking"
<1>1. CASE o \in O /\ ord[o].status \in PlanStatus
  <2>1. ASSUME NEW short, NEW status
        PROVE  [ord[o] EXCEPT !.shortage = short, !.status = status].status = status
    BY DEF OrderRow
  <2>2. \E short : \E status \in {"picking", ord[o].status} :
          order'[o] = [ord[o] EXCEPT !.shortage = short, !.status = status]
    <3> DEFINE got   == \E l \in Line : Planned(take, o, l) > 0
               short == {l \in Line : ToPlan(ord, o, l) /\ Planned(take, o, l) < ord[o].need[l]}
    <3>1. order'[o] = [ord[o] EXCEPT !.shortage = short, !.status = IF got THEN "picking" ELSE @]
      BY <1>1 DEF AfterPlanning
    <3> HIDE DEF got, short
    <3> QED
      BY <3>1
  <2> QED
    BY <1>1, <2>1, <2>2
<1>2. CASE ~(o \in O /\ ord[o].status \in PlanStatus)
  BY <1>2 DEF AfterPlanning
<1> QED
  BY <1>1, <1>2

LEMMA SyncStatus ==
  ASSUME NEW ord \in [Order -> OrderRow], NEW tsk, NEW o \in Order, NEW p \in Order
  PROVE  \/ Sync(ord, tsk, o)[p].status = ord[p].status
         \/ /\ ord[p].status \notin {"shipped", "packed"}
            /\ Sync(ord, tsk, o)[p].status = "picking_complete"
  BY DEF Sync, FinalStatus, OrderRow

LEMMA CountedStatus ==
  ASSUME TypeOK, NEW o \in Order, NEW t \in Task, NEW n, NEW p \in Order
  PROVE  \/ Counted(o, t, n)[p].status = order[p].status
         \/ order[p].status = "open" /\ Counted(o, t, n)[p].status = "picking"
<1>1. CASE p = o
  <2>1. ASSUME NEW counts, NEW open, NEW status
        PROVE  [order[o] EXCEPT !.picked = counts, !.incidents = open, !.status = status].status
                 = status
    BY DEF TypeOK, OrderRow
  <2>2. Counted(o, t, n)[o] =
          [order[o] EXCEPT !.picked = [order[o].picked EXCEPT ![t[2]] = @ + n],
                           !.incidents = order[o].incidents \ {t},
                           !.status = IF order[o].status = "open" THEN "picking"
                                      ELSE order[o].status]
    BY DEF Counted, TypeOK
  <2> QED
    BY <1>1, <2>1, <2>2
<1>2. CASE p # o
  BY <1>2 DEF Counted, TypeOK
<1> QED
  BY <1>1, <1>2

LEMMA EveryStatusStep ==
  ASSUME PatchedOrderStatus = {}, TypeOK, [Next]_vars, NEW o \in Order
  PROVE  StatusStep(o)
<1>0. order \in [Order -> OrderRow]
  BY DEF TypeOK
<1>1. CASE UNCHANGED vars
  BY <1>1 DEF vars, StatusStep
<1>2. CASE PickStep
  <2>1. ASSUME NEW t \in Task, ConfirmNoStock(t[1], t) PROVE StatusStep(o)
    <3>1. order'[o].status = order[o].status
            \/ (order[o].status # "shipped" /\ order'[o].status = "picking")
      BY <1>0, <2>1 DEF ConfirmNoStock, OrderRow
    <3> QED
      BY <3>1 DEF StatusStep
  <2>2. ASSUME NEW t \in Task, NEW i \in Item,
               NEW n \in {task[t].quantity} \cup OtherQuantity, ConfirmOk(t[1], t, i, n)
        PROVE  StatusStep(o)
    <3>1. n \in Nat /\ t[1] \in Order
      BY QuantityAssumption, TaskParts DEF TypeOK, TaskRow
    <3>2. PICK done : order' = Sync(Counted(t[1], t, n), done, t[1])
      BY <2>2 DEF ConfirmOk
    <3>3. Counted(t[1], t, n) \in [Order -> OrderRow]
      BY <3>1, CountedType
    <3> QED
      BY <3>1, <3>2, <3>3, SyncStatus, CountedStatus DEF StatusStep
  <2>3. ASSUME NEW t \in Task, NEW status \in PatchedTaskStatus, PatchTask(t, status)
        PROVE  StatusStep(o)
    BY <1>0, <2>3, TaskParts, SyncStatus DEF PatchTask, StatusStep
  <2> QED
    BY <1>2, <2>1, <2>2, <2>3 DEF PickStep
<1>3. CASE OrderStep
  <2>1. ASSUME NEW p \in Order, NEW status \in CreatedStatus, NEW need \in Needs,
               CreateOrder(p, status, need)
        PROVE  StatusStep(o)
    <3> DEFINE new     == [NoOrder EXCEPT !.status = status, !.need = need]
               created == [order EXCEPT ![p] = new]
    <3>0. need \in [Line -> Nat] /\ status \in OrderStatus
      BY NeedsAssumption DEF OrderStatus
    <3>1. new \in OrderRow /\ new.status = status
      BY <3>0, NoOrderType DEF OrderRow
    <3>2. /\ \E take : order' = AfterPlanning(created, {p}, take)
          /\ order[p].status = "absent"
      BY <2>1 DEF CreateOrder, PlanPicks
    <3> HIDE DEF new
    <3>3. /\ created \in [Order -> OrderRow]
          /\ created[o].status = (IF o = p THEN status ELSE order[o].status)
      BY <1>0, <3>1
    <3> HIDE DEF created
    <3>4. PICK take : order' = AfterPlanning(created, {p}, take)
      BY <3>2
    <3>5. \/ order'[o].status = created[o].status
          \/ created[o].status \in PlanStatus /\ order'[o].status = "picking"
      BY <3>3, <3>4, PlanningStatus
    <3> QED
      BY <3>2, <3>3, <3>5 DEF StatusStep, PlanStatus
  <2>2. ASSUME NEW p \in Order, PatchOrder(p) PROVE StatusStep(o)
    <3>1. PICK a \in WithStatus(order[p]) : \E b \in WithLines(a) : \E row \in WithExtra(b) :
             PlanPicks([order EXCEPT ![p] = row], {p})
      BY <2>2 DEF PatchOrder
    <3>2. PICK b \in WithLines(a) : \E row \in WithExtra(b) :
             PlanPicks([order EXCEPT ![p] = row], {p})
      BY <3>1
    <3>3. PICK row \in WithExtra(b) : PlanPicks([order EXCEPT ![p] = row], {p})
      BY <3>2
    <3>4. row \in OrderRow /\ row.status = order[p].status
      BY <1>0, PatchedRow
    <3> DEFINE changed == [order EXCEPT ![p] = row]
    <3>5. changed \in [Order -> OrderRow] /\ changed[o].status = order[o].status
      BY <1>0, <3>4
    <3>6. \E take : order' = AfterPlanning(changed, {p}, take)
      BY <3>3 DEF PlanPicks
    <3> HIDE DEF changed
    <3>7. PICK take : order' = AfterPlanning(changed, {p}, take)
      BY <3>6
    <3>8. \/ order'[o].status = changed[o].status
          \/ changed[o].status \in PlanStatus /\ order'[o].status = "picking"
      BY <3>5, <3>7, PlanningStatus
    <3> QED
      BY <3>5, <3>8 DEF StatusStep, PlanStatus
  <2>3. ASSUME NEW p \in Order, DeleteOrder(p) PROVE StatusStep(o)
    <3>1. [NoOrder EXCEPT !.status = "deleted"].status = "deleted"
      BY NoOrderType DEF OrderRow
    <3> QED
      BY <1>0, <2>3, <3>1 DEF DeleteOrder, StatusStep
  <2>4. ASSUME NEW p \in Order, PackOrder(p) PROVE StatusStep(o)
    <3>1. IF o = p THEN order'[o].status = "packed" ELSE order'[o] = order[o]
      BY <1>0, <2>4 DEF PackOrder, OrderRow
    <3> QED
      BY <2>4, <3>1 DEF StatusStep, PackOrder, NoMorePicking, FinalStatus
  <2>5. ASSUME NEW p \in Order, ShipOrder(p) PROVE StatusStep(o)
    <3>1. IF o = p THEN order'[o].status = "shipped" ELSE order'[o] = order[o]
      BY <1>0, <2>5 DEF ShipOrder, OrderRow
    <3>2. order[p].status = "packed"
      BY <2>5 DEF ShipOrder, Ready
    <3> QED
      BY <2>5, <3>1, <3>2 DEF StatusStep
  <2>6. ASSUME NEW O, PlanWave(O) PROVE StatusStep(o)
    <3>1. \E take : order' = AfterPlanning(order, O, take)
      BY <2>6 DEF PlanWave
    <3> QED
      BY <1>0, <3>1, PlanningStatus DEF StatusStep, PlanStatus
  <2> QED
    BY <1>3, <2>1, <2>2, <2>3, <2>4, <2>5, <2>6 DEF OrderStep
<1>4. CASE ItemStep
  BY <1>4 DEF ItemStep, UpdateItemStatus, Expire, StatusStep
<1> QED
  BY <1>1, <1>2, <1>3, <1>4 DEF Next

\* Nothing but deletion ends a shipped order.
THEOREM ShippedIsFinalTheorem ==
  ASSUME PatchedOrderStatus = {}
  PROVE  Spec => ShippedIsFinal
<1>1. IInv /\ [Next]_vars =>
        [\A o \in Order : order[o].status = "shipped" =>
            order'[o].status \in {"shipped", "deleted"}]_vars
  BY EveryStatusStep DEF IInv, StatusStep
<1> QED
  BY <1>1, Invariant, PTL DEF Spec, ShippedIsFinal

\* Without waves, the pick tasks of an order are those shipment_blockers looks
\* at, and a packed order has some.
AllPlanned ==
    /\ \A t \in Task : task[t].via = "outbound_planning"
    /\ \A o \in Order : order[o].status = "packed" => Picks(task, o) # {}

StaysPlanned(t) ==
    /\ task[t].status # "none" => task'[t].status # "none"
    /\ task[t].via = "outbound_planning" => task'[t].via = "outbound_planning"

\* Tasks are never deleted, and only waves mark them.
LEMMA TasksStay ==
  ASSUME Waves = {}, TypeOK, [Next]_vars, NEW t \in Task
  PROVE  StaysPlanned(t)
<1>0. task \in [Task -> TaskRow]
  BY DEF TypeOK
<1>1. ASSUME task' = task PROVE StaysPlanned(t)
  BY <1>1 DEF StaysPlanned
<1>2. ASSUME NEW ord, NEW O, PlanPicks(ord, O) PROVE StaysPlanned(t)
  <2>1. PICK take : task' = WithTasks(take)
    BY <1>2 DEF PlanPicks
  <2>2. task'[t] = task[t] \/ \E n : task'[t] = [NoTask(t[3]) EXCEPT !.status = "pending", !.quantity = n]
    BY <2>1 DEF WithTasks
  <2>3. ASSUME NEW n
        PROVE  LET new == [NoTask(t[3]) EXCEPT !.status = "pending", !.quantity = n]
               IN  new.status = "pending" /\ new.via = "outbound_planning"
    BY DEF NoTask
  <2> QED
    BY <2>2, <2>3 DEF StaysPlanned
<1>3. ASSUME NEW u \in Task, ConfirmNoStock(u[1], u) PROVE StaysPlanned(t)
  <2>1. LET new == [task[u] EXCEPT !.status = "blocked", !.incident = "open", !.confirmed = 0]
        IN  new.status = "blocked" /\ new.via = task[u].via
    BY <1>0 DEF TaskRow
  <2>2. task' = [task EXCEPT ![u] =
                   [task[u] EXCEPT !.status = "blocked", !.incident = "open", !.confirmed = 0]]
    BY <1>0, <1>3 DEF ConfirmNoStock
  <2> QED
    BY <1>0, <2>1, <2>2 DEF StaysPlanned
<1>4. ASSUME NEW u \in Task, NEW i \in Item, NEW n, ConfirmOk(u[1], u, i, n)
      PROVE  StaysPlanned(t)
  <2> DEFINE new(source, inc) ==
               [task[u] EXCEPT !.status = "completed", !.item = source,
                               !.confirmed = n, !.incident = inc]
  <2>1. \A source, inc : new(source, inc).status = "completed" /\ new(source, inc).via = task[u].via
    BY <1>0 DEF TaskRow
  <2>2. \E source : task' = Done(u, source, n)
    BY <1>4 DEF ConfirmOk
  <2>3. \A source : Done(u, source, n) =
          [task EXCEPT ![u] = new(source, IF task[u].incident = "none" THEN "none" ELSE "resolved")]
    BY <1>0 DEF Done
  <2> HIDE DEF new
  <2> QED
    BY <1>0, <2>1, <2>2, <2>3 DEF StaysPlanned
<1>5. ASSUME NEW u \in Task, NEW status \in PatchedTaskStatus, PatchTask(u, status)
      PROVE  StaysPlanned(t)
  <2>1. [task[u] EXCEPT !.status = status].status = status
        /\ [task[u] EXCEPT !.status = status].via = task[u].via
    BY <1>0 DEF TaskRow
  <2>2. task' = [task EXCEPT ![u] = [task[u] EXCEPT !.status = status]]
    BY <1>0, <1>5 DEF PatchTask
  <2>3. status # "none"
    BY StatusAssumption
  <2> QED
    BY <1>0, <2>1, <2>2, <2>3 DEF StaysPlanned
<1>6. CASE PickStep
  BY <1>3, <1>4, <1>5, <1>6 DEF PickStep
<1>7. CASE OrderStep
  BY <1>1, <1>2, <1>7
     DEF OrderStep, CreateOrder, PatchOrder, DeleteOrder, PackOrder, ShipOrder
<1>8. CASE ItemStep \/ UNCHANGED vars
  BY <1>1, <1>8 DEF ItemStep, UpdateItemStatus, Expire, vars
<1> QED
  BY <1>6, <1>7, <1>8 DEF Next

LEMMA AllPlannedInit == Init => AllPlanned
  BY TaskParts DEF Init, AllPlanned, NoTask, NoOrder

LEMMA AllPlannedStep ==
  ASSUME Waves = {}, PatchedOrderStatus = {}, CreatedStatus = {"open"}
  PROVE  TypeOK /\ AllPlanned /\ [Next]_vars => AllPlanned'
<1> SUFFICES ASSUME TypeOK, AllPlanned, [Next]_vars PROVE AllPlanned'
  OBVIOUS
<1>1. \A t \in Task : task'[t].via = "outbound_planning"
  BY TasksStay DEF AllPlanned, StaysPlanned
<1>2. ASSUME NEW o \in Order, Picks(task, o) # {}
      PROVE  Picks(task', o) # {}
  BY <1>2, TasksStay DEF Picks, StaysPlanned
<1>3. ASSUME NEW o \in Order, order'[o].status = "packed"
      PROVE  Picks(task', o) # {}
  <2>1. order[o].status = "packed" \/ PackOrder(o)
    BY <1>3, EveryStatusStep DEF StatusStep
  <2>2. Picks(task, o) # {}
    BY <2>1 DEF AllPlanned, PackOrder
  <2> QED
    BY <1>2, <2>2
<1> QED
  BY <1>1, <1>3 DEF AllPlanned

\* No order is ever shipped short, as long as picks are not planned by waves
\* (the feature is off by default) and nobody writes a status but open:
\* whatever scans, incidents, cancellations and re-planning went before, when
\* ship_order lets an order go, confirmed scans cover each of its lines.
THEOREM ShippedIsPickedTheorem ==
  ASSUME Waves = {}, PatchedOrderStatus = {}, CreatedStatus = {"open"}
  PROVE  Spec => ShippedIsPicked
<1>1. IInv /\ AllPlanned /\ [Next]_vars => AllPlanned'
  BY AllPlannedStep DEF IInv
<1>2. IInv /\ AllPlanned /\ [Next]_vars =>
        [\A o \in Order : order[o].status # "shipped" /\ order'[o].status = "shipped" =>
            \A l \in Line : ConfirmedOn(task, Picks(task, o), l) >= order[o].need[l]]_vars
  <2> SUFFICES ASSUME IInv, AllPlanned, [Next]_vars, NEW o \in Order,
                      order[o].status # "shipped", order'[o].status = "shipped"
               PROVE  LinesComplete(o, Picks(task, o))
    BY DEF LinesComplete
  <2>1. ShipOrder(o) /\ order[o].status = "packed"
    BY EveryStatusStep DEF StatusStep, IInv
  <2>2. OpsPicks(o) = Picks(task, o) /\ Picks(task, o) # {}
    BY <2>1 DEF AllPlanned, OpsPicks, Picks
  <2> QED
    BY <2>1, <2>2 DEF ShipOrder, NoBlockers
<1> QED
  BY <1>1, <1>2, Invariant, AllPlannedInit, PTL DEF Spec, ShippedIsPicked

-----------------------------------------------------------------------------
\* What the kind of a request says of it.
Shape(c) ==
    /\ c.kind \in {"none", "scan", "incident", "patch"} \/ c.pick = NoPick
    /\ c.kind \in {"scan", "incident", "patch"} => c.pick \in Pick
    /\ c.kind = "scan" => c.quantity > 0
    /\ c.kind = "none" => c = Idle
    /\ c.kind = "scan" => c.step \in {"task", "write", "select", "commit"}
    /\ c.kind = "incident" => c.step \in {"task", "commit"}
    /\ c.kind = "patch" => c.step \in {"write", "order", "select", "commit"}
    /\ c.kind \in {"pack", "ship"} => c.step \in {"check", "commit"}
    /\ c.kind \in {"status", "lines"} => c.step = "commit"

\* Only a scan and a PATCH of the lines write the lines.
WrittenAsKind(c) ==
    /\ c.step \in {"task", "write", "order", "check"} => c.wrote = {}
    /\ "lines" \in c.wrote => c.kind \in {"scan", "lines"}
    /\ c.kind = "lines" => c.seen.picked = NothingPicked /\ "status" \notin c.wrote

\* A scanned pick is done, unless it was taken back.
ScannedIsDone == \A p \in Pick : scanned[p] > 0 => p \in reopened \/ pickRow[p].status \in DonePick

\* How far ahead the copy c has the counter of line l: by the scan it is.
CopyCounts(c, l) ==
    /\ c.kind = "scan" /\ c.step = "task" => c.seen.picked[l] <= Total(scanned, PicksOf(l))
    /\ c.kind = "scan" /\ c.step # "task" /\ LineOf[c.pick] # l =>
         c.seen.picked[l] <= Total(scanned, PicksOf(l))
    /\ c.kind = "scan" /\ c.step = "write" /\ LineOf[c.pick] = l =>
         c.seen.picked[l] <= Total(scanned, PicksOf(l) \ {c.pick})
    /\ c.kind = "scan" /\ c.step \in {"select", "commit"} /\ LineOf[c.pick] = l =>
         c.seen.picked[l] <= Total(scanned, PicksOf(l) \ {c.pick}) + c.quantity

CountsRight(c) == \A l \in OrderLine : PicksOf(l) \cap reopened = {} => CopyCounts(c, l)

OnlyScanned == patched \cup reopened = {}

AllScanned == \A p \in Pick : pickRow[p].status = "completed"

OthersScanned(c) == \A p \in Pick \ {c.pick} : pickRow[p].status = "completed"

\* A copy that is past picking was made when all picks were scanned; a scan that found its
\* own pick open has a copy in picking, and knows at its end whether it was the last.
KnowsOfPicks(c) ==
    /\ c.kind = "scan" /\ c.step = "task" =>
         /\ c.seen.status \in {"picking", "picking_complete", "packed"}
         /\ c.seen.status # "picking" => AllScanned
    /\ c.kind = "scan" /\ c.step \in {"write", "select"} =>
         c.seen.status = "picking" /\ "status" \notin c.wrote
    /\ c.kind = "scan" /\ c.step = "commit" =>
         \/ c.seen.status = "picking_complete" /\ "status" \in c.wrote /\ OthersScanned(c)
         \/ "status" \notin c.wrote /\ ~OthersScanned(c)
    /\ c.kind = "incident" /\ "status" \in c.wrote => c.seen.status = "picking"
    /\ c.kind = "pack" /\ c.step = "commit" => AllScanned /\ c.seen.status = "packed"
    /\ c.kind = "ship" /\ c.step = "commit" => c.seen.status = "shipped"
    /\ c.kind = "status" /\ "status" \in c.wrote => c.seen.status \in Ended

OrderKnows ==
    /\ \A p \in Pick : pickRow[p].status \in {"pending", "blocked", "completed"}
    /\ orderRow.status \in {"picking", "picking_complete", "packed"} \cup Ended
    /\ orderRow.status \in {"picking_complete", "packed"} => AllScanned
    /\ AllScanned => orderRow.status # "picking"

\* Good(c): what holds of the copy of every request.
Good(c) ==
    /\ Shape(c) /\ WrittenAsKind(c)
    /\ CountsRight(c)
    /\ OnlyScanned /\ PatchedStatus \subseteq Ended => KnowsOfPicks(c)

RowsInv ==
    /\ RowsTypeOK
    /\ ScannedIsDone
    /\ CountedOnce
    /\ OnlyScanned /\ PatchedStatus \subseteq Ended => OrderKnows
    /\ \A w \in Worker : Good(work[w])

-----------------------------------------------------------------------------
Steps == {"idle", "task", "write", "order", "check", "select", "commit"}

\* c is a request of kind k at step s, with these values.
Has(c, s, k, p, n, o, W) ==
    /\ c \in Work
    /\ c.step = s /\ c.kind = k /\ c.pick = p /\ c.quantity = n /\ c.seen = o /\ c.wrote = W

\* It may be there.
GoodAt(s, k, p, n, o, W) == \A c : Has(c, s, k, p, n, o, W) => Good(c)

LEMMA IdleWork == Idle \in Work /\ Good(Idle)
<1>1. Idle \in Work
  BY DEF Idle, Work, NothingPicked, PickStatus, OrderCopy, OrderStatuses
<1>2. Idle.kind = "none" /\ Idle.step = "idle" /\ Idle.wrote = {} /\ Idle.pick = NoPick
  BY DEF Idle
<1> QED
  BY <1>1, <1>2 DEF Good, Shape, WrittenAsKind, CountsRight, CopyCounts, KnowsOfPicks

LEMMA StepTo ==
  ASSUME NEW c, NEW s0, NEW k, NEW p, NEW n, NEW o, NEW W, Has(c, s0, k, p, n, o, W), NEW s \in Steps
  PROVE  Has([c EXCEPT !.step = s], s, k, p, n, o, W)
<1>1. PICK d : d = [c EXCEPT !.step = s]
  OBVIOUS
<1>2. Has(d, s, k, p, n, o, W)
  BY <1>1 DEF Has, Work, Steps
<1> QED
  BY <1>1, <1>2

LEMMA StatusSet ==
  ASSUME NEW c, NEW s, NEW k, NEW p, NEW n, NEW o, NEW W, Has(c, s, k, p, n, o, W),
         NEW new \in OrderStatuses
  PROVE  Has(WithOrderStatus(c, new), s, k, p, n, [o EXCEPT !.status = new],
             IF new = o.status THEN W ELSE W \cup {"status"})
<1>1. o \in OrderCopy /\ o = c.seen
  BY DEF Has, Work
<1>2. PICK o1 : o1 = [o EXCEPT !.status = new]
  OBVIOUS
<1>3. o1 \in OrderCopy /\ (new = o.status => o1 = o)
  BY <1>1, <1>2 DEF OrderCopy
<1>4. CASE new = o.status
  <2>1. WithOrderStatus(c, new) = c
    BY <1>1, <1>4 DEF WithOrderStatus
  <2> QED
    BY <1>2, <1>3, <1>4, <2>1
<1>5. CASE new # o.status
  <2>1. PICK d1 : d1 = [c EXCEPT !.seen = o1]
    OBVIOUS
  <2>2. Has(d1, s, k, p, n, o1, W)
    BY <1>3, <2>1 DEF Has, Work
  <2>3. PICK d : d = [d1 EXCEPT !.wrote = W \cup {"status"}]
    OBVIOUS
  <2>4. W \cup {"status"} \in SUBSET {"status", "lines"}
    BY DEF Has, Work
  <2>5. Has(d, s, k, p, n, o1, W \cup {"status"})
    BY <2>2, <2>3, <2>4 DEF Has, Work
  <2>6. WithOrderStatus(c, new) = [c EXCEPT !.seen.status = new, !.wrote = @ \cup {"status"}]
    BY <1>1, <1>5 DEF WithOrderStatus
  <2>7. d1 = [c EXCEPT !.seen.status = new]
    BY <1>1, <1>2, <2>1
  <2>8. d = [d1 EXCEPT !.wrote = @ \cup {"status"}]
    BY <2>2, <2>3 DEF Has, Work
  <2>9. d = WithOrderStatus(c, new)
    BY <2>6, <2>7, <2>8
  <2> QED
    BY <1>2, <1>5, <2>5, <2>9
<1> QED
  BY <1>4, <1>5

LEMMA RowsInit1 == RowsInit => RowsInv
<1> SUFFICES ASSUME RowsInit PROVE RowsInv
  OBVIOUS
<1> USE DEF RowsInit
<1>1. RowsTypeOK
  BY IdleWork DEF RowsTypeOK, OrderCopy, PickCopy, OrderStatuses, PickStatus, NothingPicked
<1>2. ScannedIsDone
  BY DEF ScannedIsDone
<1>3. ASSUME NEW l \in OrderLine PROVE Total(scanned, PicksOf(l)) = 0
  BY TotalZero DEF PicksOf
<1>4. CountedOnce
  BY <1>3 DEF CountedOnce, NothingPicked
<1>5. \A w \in Worker : work[w] = Idle
  OBVIOUS
<1>6. OrderKnows
  BY PickAssumption DEF OrderKnows, AllScanned
<1> QED
  BY <1>1, <1>2, <1>4, <1>5, <1>6, IdleWork DEF RowsInv

\* A request that changes only what it knows.
LEMMA LocalStep ==
  ASSUME RowsInv, NEW w \in Worker, NEW d \in Work, Good(d), work' = [work EXCEPT ![w] = d],
         begun' \in Nat, UNCHANGED <<orderRow, pickRow, scanned, patched, reopened>>
  PROVE  RowsInv'
<1>1. RowsTypeOK'
  BY DEF RowsInv, RowsTypeOK
<1>2. (ScannedIsDone /\ CountedOnce /\ (OnlyScanned /\ PatchedStatus \subseteq Ended => OrderKnows))'
  BY DEF RowsInv, ScannedIsDone, CountedOnce, OnlyScanned, OrderKnows, AllScanned
<1>3. ASSUME NEW v \in Worker PROVE Good(work[v])'
  <2>1. PICK e : e = work'[v]
    OBVIOUS
  <2>2. Good(e)
    BY <2>1 DEF RowsInv, RowsTypeOK
  <2> QED
    BY <2>1, <2>2 DEF Good, CountsRight, CopyCounts, OnlyScanned, KnowsOfPicks, AllScanned, OthersScanned,
                      Shape, WrittenAsKind
<1> QED
  BY <1>1, <1>2, <1>3 DEF RowsInv

LEMMA BeginStep ==
  ASSUME RowsInv, NEW w \in Worker, NEW c, NEW s0, NEW k, NEW p, NEW n, NEW o, NEW W,
         Has(c, s0, k, p, n, o, W), NEW s \in Steps, GoodAt(s, k, p, n, o, W),
         Begin(w, c, s) \/ Becomes(w, c, s)
  PROVE  RowsInv'
<1>1. PICK d : d = [c EXCEPT !.step = s]
  OBVIOUS
<1>2. Has(d, s, k, p, n, o, W)
  BY <1>1, StepTo
<1>3. Good(d) /\ d \in Work
  BY <1>2 DEF GoodAt, Has
<1>4. begun' \in Nat
  BY DEF Begin, Becomes, RowsInv, RowsTypeOK
<1>5. work' = [work EXCEPT ![w] = d] /\ UNCHANGED <<orderRow, pickRow, scanned, patched, reopened>>
  BY <1>1 DEF Begin, Becomes
<1> QED
  BY <1>3, <1>4, <1>5, LocalStep

LEMMA QuitStep == ASSUME RowsInv, NEW w \in Worker, Quit(w) PROVE RowsInv'
<1>1. begun' \in Nat
  BY DEF Quit, RowsInv, RowsTypeOK
<1> QED
  BY <1>1, IdleWork, LocalStep DEF Quit

\* A request that has loaded the order.
LEMMA WithOrderWork ==
  ASSUME RowsInv, NEW k \in {"scan", "incident", "pack", "ship", "status", "lines"}
  PROVE  Has(WithOrder(k), "idle", k, NoPick, 0, orderRow, {})
<1> DEFINE none == {}
<1>1. orderRow \in OrderCopy
  BY DEF RowsInv, RowsTypeOK
<1>2. PICK c : c = [Idle EXCEPT !.kind = k]
  OBVIOUS
<1>3. Idle \in Work /\ Idle.pick = NoPick /\ Idle.wrote = none /\ Idle.step = "idle" /\ Idle.quantity = 0
  BY IdleWork DEF Idle
<1> HIDE DEF none
<1>4. /\ c \in Work
      /\ c.kind = k /\ c.pick = NoPick /\ c.wrote = none /\ c.step = "idle" /\ c.quantity = 0
  BY <1>2, <1>3 DEF Work
<1>5. PICK d : d = [c EXCEPT !.seen = orderRow]
  OBVIOUS
<1>6. Has(d, "idle", k, NoPick, 0, orderRow, none)
  BY <1>1, <1>4, <1>5 DEF Has, Work
<1>7. d = WithOrder(k)
  BY <1>2, <1>5 DEF WithOrder
<1> QED
  BY <1>6, <1>7 DEF none

\* The same for a pick.
LEMMA WithPick ==
  ASSUME NEW c, NEW s, NEW k, NEW p0, NEW n0, NEW o, NEW W, Has(c, s, k, p0, n0, o, W),
         NEW p \in Pick, NEW n \in Nat
  PROVE  /\ Has([c EXCEPT !.pick = p], s, k, p, n0, o, W)
         /\ Has([c EXCEPT !.pick = p, !.quantity = n], s, k, p, n, o, W)
<1>1. PICK d : d = [c EXCEPT !.pick = p]
  OBVIOUS
<1>2. PICK e : e = [c EXCEPT !.pick = p, !.quantity = n]
  OBVIOUS
<1>3. Has(d, s, k, p, n0, o, W)
  BY <1>1 DEF Has, Work
<1>4. Has(e, s, k, p, n, o, W)
  BY <1>2 DEF Has, Work
<1> QED
  BY <1>1, <1>2, <1>3, <1>4

LEMMA StartScanStep ==
  ASSUME RowsInv, NEW w \in Worker, NEW p \in Pick, NEW n \in ScanQuantity, StartScan(w, p, n)
  PROVE  RowsInv'
<1> DEFINE c == [WithOrder("scan") EXCEPT !.pick = p, !.quantity = n]
<1>1. n \in Nat /\ n > 0
  BY ScanAssumption
<1>2. Has(c, "idle", "scan", p, n, orderRow, {})
  BY <1>1, WithOrderWork, WithPick
<1>3. Begin(w, c, "task") /\ orderRow.status \notin Ended
  BY DEF StartScan
<1>4. GoodAt("task", "scan", p, n, orderRow, {})
  <2> SUFFICES ASSUME NEW e, Has(e, "task", "scan", p, n, orderRow, {}) PROVE Good(e)
    BY DEF GoodAt
  <2> USE DEF Has
  <2>1. Shape(e) /\ WrittenAsKind(e)
    BY <1>1 DEF Shape, WrittenAsKind
  <2>2. CountsRight(e)
    BY DEF RowsInv, CountedOnce, CountsRight, CopyCounts
  <2>3. OnlyScanned /\ PatchedStatus \subseteq Ended => KnowsOfPicks(e)
    BY <1>3 DEF RowsInv, OrderKnows, KnowsOfPicks
  <2> QED
    BY <2>1, <2>2, <2>3 DEF Good
<1> HIDE DEF c
<1> QED
  BY <1>2, <1>3, <1>4, BeginStep DEF Steps

LEMMA StartIncidentStep ==
  ASSUME RowsInv, NEW w \in Worker, NEW p \in Pick, StartIncident(w, p)
  PROVE  RowsInv'
<1> DEFINE c == [WithOrder("incident") EXCEPT !.pick = p]
<1>1. Has(c, "idle", "incident", p, 0, orderRow, {})
  BY WithOrderWork, WithPick
<1>2. Begin(w, c, "task")
  BY DEF StartIncident
<1>3. GoodAt("task", "incident", p, 0, orderRow, {})
  BY DEF GoodAt, Has, Good, Shape, WrittenAsKind, CountsRight, CopyCounts, KnowsOfPicks
<1> HIDE DEF c
<1> QED
  BY <1>1, <1>2, <1>3, BeginStep DEF Steps

LEMMA StartPatchStep ==
  ASSUME RowsInv, NEW w \in Worker, NEW p \in Pick, NEW status \in PatchedPickStatus,
         StartPatch(w, p, status)
  PROVE  RowsInv'
<1> DEFINE none == {}
<1>1. PICK f : f = pickRow[p].status
  OBVIOUS
<1>2. f \in PickStatus /\ status \in PickStatus
  BY <1>1 DEF RowsInv, RowsTypeOK, PickCopy, PickStatus
<1>3. PICK c1 : c1 = [Idle EXCEPT !.kind = "patch", !.pick = p]
  OBVIOUS
<1>4. Idle.wrote = none /\ Idle.quantity = 0 /\ Idle.step = "idle"
  BY DEF Idle
<1>5. PICK o : o = Idle.seen
  OBVIOUS
<1>6. PICK c : c = [Idle EXCEPT !.kind = "patch", !.pick = p, !.status = status, !.found = f]
  OBVIOUS
<1> HIDE DEF none
<1>7. Has(c1, "idle", "patch", p, 0, o, none)
  BY <1>3, <1>4, <1>5, IdleWork DEF Has, Work
<1>8. c = [c1 EXCEPT !.status = status, !.found = f]
  BY <1>3, <1>6
<1>9. Has(c, "idle", "patch", p, 0, o, none)
  BY <1>2, <1>7, <1>8 DEF Has, Work
<1>10. Begin(w, c, "write")
  BY <1>1, <1>6 DEF StartPatch
<1>11. GoodAt("write", "patch", p, 0, o, none)
  BY DEF none, GoodAt, Has, Good, Shape, WrittenAsKind, CountsRight, CopyCounts, KnowsOfPicks
<1> QED
  BY <1>9, <1>10, <1>11, BeginStep DEF Steps

LEMMA StartStatusStep ==
  ASSUME RowsInv, NEW w \in Worker, NEW status \in PatchedStatus, StartStatus(w, status)
  PROVE  RowsInv'
<1> DEFINE o == [orderRow EXCEPT !.status = status]
           W == IF status = orderRow.status THEN {} ELSE {} \cup {"status"}
<1>1. Has(WithOrder("status"), "idle", "status", NoPick, 0, orderRow, {})
  BY WithOrderWork
<1>2. status \in OrderStatuses
  BY DEF OrderStatuses
<1>3. Has(WithOrderStatus(WithOrder("status"), status), "idle", "status", NoPick, 0, o, W)
  BY <1>1, <1>2, StatusSet
<1>4. Begin(w, WithOrderStatus(WithOrder("status"), status), "commit")
  BY DEF StartStatus
<1>5. o.status = status /\ W \subseteq {"status"}
  BY DEF RowsInv, RowsTypeOK, OrderCopy
<1> HIDE DEF o, W
<1>6. GoodAt("commit", "status", NoPick, 0, o, W)
  BY <1>5 DEF GoodAt, Has, Good, Shape, WrittenAsKind, CountsRight, CopyCounts, KnowsOfPicks
<1> QED
  BY <1>3, <1>4, <1>6, BeginStep DEF Steps

LEMMA StartLinesStep == ASSUME RowsInv, NEW w \in Worker, StartLines(w) PROVE RowsInv'
<1>1. PICK c : c = WithOrder("lines")
  OBVIOUS
<1>2. Has(c, "idle", "lines", NoPick, 0, orderRow, {})
  BY <1>1, WithOrderWork
<1>3. PICK o : o = [orderRow EXCEPT !.picked = NothingPicked]
  OBVIOUS
<1>4. o \in OrderCopy /\ o.picked = NothingPicked
  BY <1>3 DEF RowsInv, RowsTypeOK, OrderCopy, NothingPicked
<1>5. PICK d1 : d1 = [c EXCEPT !.seen = o]
  OBVIOUS
<1>6. Has(d1, "idle", "lines", NoPick, 0, o, {})
  BY <1>2, <1>4, <1>5 DEF Has, Work
<1>7. PICK d : d = [d1 EXCEPT !.wrote = {"lines"}]
  OBVIOUS
<1>8. Has(d, "idle", "lines", NoPick, 0, o, {"lines"})
  BY <1>6, <1>7 DEF Has, Work
<1>9. d1 = [c EXCEPT !.seen.picked = NothingPicked]
  BY <1>2, <1>3, <1>5 DEF Has
<1>10. Begin(w, d, "commit")
  BY <1>1, <1>7, <1>9 DEF StartLines
<1>11. GoodAt("commit", "lines", NoPick, 0, o, {"lines"})
  BY <1>4 DEF GoodAt, Has, Good, Shape, WrittenAsKind, CountsRight, CopyCounts, KnowsOfPicks
<1> QED
  BY <1>8, <1>10, <1>11, BeginStep DEF Steps

LEMMA StartPackShipStep ==
  ASSUME RowsInv, NEW w \in Worker, StartPack(w) \/ StartShip(w) PROVE RowsInv'
<1>1. PICK k \in {"pack", "ship"} : Begin(w, WithOrder(k), "check")
  BY DEF StartPack, StartShip
<1>2. Has(WithOrder(k), "idle", k, NoPick, 0, orderRow, {})
  BY WithOrderWork
<1>3. GoodAt("check", k, NoPick, 0, orderRow, {})
  BY DEF GoodAt, Has, Good, Shape, WrittenAsKind, CountsRight, CopyCounts, KnowsOfPicks
<1> QED
  BY <1>1, <1>2, <1>3, BeginStep DEF Steps

-----------------------------------------------------------------------------
(* Requests under way                                                      *)

LEMMA WorkHas ==
  ASSUME RowsInv, NEW w \in Worker
  PROVE  \E c : /\ c = work[w] /\ Good(c)
                /\ Has(c, c.step, c.kind, c.pick, c.quantity, c.seen, c.wrote)
  BY DEF RowsInv, RowsTypeOK, Has

LEMMA LoadScannedStep == ASSUME RowsInv, NEW w \in Worker, LoadScanned(w) PROVE RowsInv'
<1>1. PICK c : /\ c = work[w] /\ Good(c)
               /\ Has(c, c.step, c.kind, c.pick, c.quantity, c.seen, c.wrote)
  BY WorkHas
<1>2. c.kind = "scan" /\ c.step = "task" /\ c.pick \in Pick /\ c.quantity > 0 /\ c.wrote = {}
  BY <1>1 DEF LoadScanned, AtStep, Good, Shape, WrittenAsKind
<1>3. CASE Quit(w)
  BY <1>3, QuitStep
<1>4. CASE pickRow[c.pick].status \in ScanStatus /\ Becomes(w, c, "write")
  <2>1. pickRow[c.pick].status \notin DonePick
    BY <1>4 DEF ScanStatus, DonePick
  <2>2. GoodAt("write", "scan", c.pick, c.quantity, c.seen, c.wrote)
    <3> SUFFICES ASSUME NEW e, Has(e, "write", "scan", c.pick, c.quantity, c.seen, c.wrote) PROVE Good(e)
      BY DEF GoodAt
    <3> USE DEF Has
    <3>1. Shape(e) /\ WrittenAsKind(e)
      BY <1>2 DEF Shape, WrittenAsKind
    <3>2. ASSUME NEW l \in OrderLine, PicksOf(l) \cap reopened = {} PROVE CopyCounts(e, l)
      <4>1. c.seen.picked[l] <= Total(scanned, PicksOf(l))
        BY <1>1, <1>2, <3>2 DEF Good, CountsRight, CopyCounts
      <4>2. CASE LineOf[c.pick] # l
        BY <4>1, <4>2 DEF CopyCounts
      <4>3. CASE LineOf[c.pick] = l
        <5>1. c.pick \in PicksOf(l) /\ PicksOf(l) \subseteq Pick
          BY <1>2, <4>3 DEF PicksOf
        <5>2. scanned \in [Pick -> Nat] /\ IsFiniteSet(Pick)
          BY PickAssumption DEF RowsInv, RowsTypeOK
        <5>3. scanned[c.pick] = 0
          BY <1>2, <2>1, <3>2, <5>1, <5>2 DEF RowsInv, ScannedIsDone
        <5>4. Total(scanned, PicksOf(l)) = Total(scanned, PicksOf(l) \ {c.pick}) + scanned[c.pick]
          BY <5>1, <5>2, TotalRemove
        <5>5. Total(scanned, PicksOf(l) \ {c.pick}) \in Nat
          BY <5>1, <5>2, TotalType
        <5> QED
          BY <4>1, <4>3, <5>3, <5>4, <5>5 DEF CopyCounts
      <4> QED
        BY <4>2, <4>3
    <3>3. OnlyScanned /\ PatchedStatus \subseteq Ended => KnowsOfPicks(e)
      BY <1>1, <1>2, <2>1 DEF Good, KnowsOfPicks, AllScanned, DonePick
    <3> QED
      BY <3>1, <3>2, <3>3 DEF Good, CountsRight
  <2> QED
    BY <1>1, <1>2, <1>4, <2>2, BeginStep DEF Steps
<1> QED
  BY <1>1, <1>3, <1>4 DEF LoadScanned

LEMMA FlushScanStep == ASSUME RowsInv, NEW w \in Worker, FlushScan(w) PROVE RowsInv'
<1>1. PICK c : /\ c = work[w] /\ Good(c)
               /\ Has(c, c.step, c.kind, c.pick, c.quantity, c.seen, c.wrote)
  BY WorkHas
<1>2. c.kind = "scan" /\ c.step = "write" /\ c.pick \in Pick /\ c.quantity > 0 /\ c.wrote = {}
  BY <1>1 DEF FlushScan, AtStep, Good, Shape, WrittenAsKind
<1>3. PICK l : l = LineOf[c.pick]
  OBVIOUS
<1>4. l \in OrderLine
  BY <1>2, <1>3, PickAssumption
<1>5. c \in Work /\ c.quantity \in Nat /\ c.seen \in OrderCopy
  BY <1>1 DEF Has, Work
<1>6. PICK new : new = IF c.seen.status = "open" THEN "picking" ELSE c.seen.status
  OBVIOUS
<1>7. PICK o : o = [c.seen EXCEPT !.picked = [c.seen.picked EXCEPT ![l] = @ + c.quantity]]
  OBVIOUS
<1>8. /\ o \in OrderCopy /\ o.status = c.seen.status /\ new \in OrderStatuses
      /\ \A k \in OrderLine : o.picked[k] = IF k = l THEN c.seen.picked[l] + c.quantity ELSE c.seen.picked[k]
  BY <1>4, <1>5, <1>6, <1>7 DEF OrderCopy, OrderStatuses
<1>9. PICK d1 : d1 = [c EXCEPT !.seen = o]
  OBVIOUS
<1>10. Has(d1, "write", "scan", c.pick, c.quantity, o, {})
  BY <1>1, <1>2, <1>8, <1>9 DEF Has, Work
<1>11. PICK d : d = [d1 EXCEPT !.wrote = {"lines"}]
  OBVIOUS
<1>12. Has(d, "write", "scan", c.pick, c.quantity, o, {"lines"})
  BY <1>10, <1>11 DEF Has, Work
<1>13. d1 = [c EXCEPT !.seen.picked[l] = @ + c.quantity]
  BY <1>7, <1>9
<1>14. d = [d1 EXCEPT !.wrote = @ \cup {"lines"}]
  BY <1>10, <1>11 DEF Has
<1>15. d = [c EXCEPT !.seen.picked[l] = @ + c.quantity, !.wrote = @ \cup {"lines"}]
  BY <1>13, <1>14
<1>16. Becomes(w, WithOrderStatus(d, new), "select")
  BY <1>1, <1>3, <1>6, <1>15 DEF FlushScan, Bumped
<1>17. PICK o2 : o2 = [o EXCEPT !.status = new]
  OBVIOUS
<1>18. PICK W : W = IF new = o.status THEN {"lines"} ELSE {"lines"} \cup {"status"}
  OBVIOUS
<1>19. Has(WithOrderStatus(d, new), "write", "scan", c.pick, c.quantity, o2, W)
  BY <1>8, <1>12, <1>17, <1>18, StatusSet
<1>20. o2.picked = o.picked /\ o2.status = new
  BY <1>8, <1>17 DEF OrderCopy
<1>21. GoodAt("select", "scan", c.pick, c.quantity, o2, W)
  <2> SUFFICES ASSUME NEW e, Has(e, "select", "scan", c.pick, c.quantity, o2, W) PROVE Good(e)
    BY DEF GoodAt
  <2> USE DEF Has
  <2>1. Shape(e) /\ WrittenAsKind(e)
    BY <1>2 DEF Shape, WrittenAsKind
  <2>2. ASSUME NEW k \in OrderLine, PicksOf(k) \cap reopened = {} PROVE CopyCounts(e, k)
    <3>1. CopyCounts(c, k)
      BY <1>1, <2>2 DEF Good, CountsRight
    <3>2. CASE k # l
      <4>1. c.seen.picked[k] <= Total(scanned, PicksOf(k))
        BY <1>2, <1>3, <3>1, <3>2 DEF CopyCounts
      <4>2. e.seen.picked[k] = c.seen.picked[k] /\ LineOf[e.pick] # k
        BY <1>3, <1>8, <1>20, <3>2
      <4> QED
        BY <4>1, <4>2 DEF CopyCounts
    <3>3. CASE k = l
      <4>1. c.seen.picked[k] <= Total(scanned, PicksOf(k) \ {c.pick})
        BY <1>2, <1>3, <3>1, <3>3 DEF CopyCounts
      <4>2. e.seen.picked[k] = c.seen.picked[k] + c.quantity /\ LineOf[e.pick] = k
        BY <1>3, <1>8, <1>20, <3>3
      <4>3. c.seen.picked[k] \in Nat /\ Total(scanned, PicksOf(k) \ {c.pick}) \in Nat
        <5>1. scanned \in [Pick -> Nat] /\ IsFiniteSet(Pick) /\ PicksOf(k) \ {c.pick} \subseteq Pick
          BY PickAssumption DEF RowsInv, RowsTypeOK, PicksOf
        <5>2. c.seen.picked \in [OrderLine -> Nat]
          BY <1>5 DEF OrderCopy
        <5> QED
          BY <5>1, <5>2, TotalType
      <4> QED
        BY <1>5, <4>1, <4>2, <4>3 DEF CopyCounts
    <3> QED
      BY <3>2, <3>3
  <2>3. OnlyScanned /\ PatchedStatus \subseteq Ended => KnowsOfPicks(e)
    BY <1>1, <1>2, <1>6, <1>8, <1>18, <1>20 DEF Good, KnowsOfPicks
  <2> QED
    BY <2>1, <2>2, <2>3 DEF Good, CountsRight
<1> QED
  BY <1>16, <1>19, <1>21, BeginStep DEF Steps

LEMMA LoadIncidentStep == ASSUME RowsInv, NEW w \in Worker, LoadIncident(w) PROVE RowsInv'
<1>1. PICK c : /\ c = work[w] /\ Good(c)
               /\ Has(c, c.step, c.kind, c.pick, c.quantity, c.seen, c.wrote)
  BY WorkHas
<1>2. c.kind = "incident" /\ c.step = "task" /\ c.pick \in Pick /\ c.wrote = {}
  BY <1>1 DEF LoadIncident, AtStep, Good, Shape, WrittenAsKind
<1>3. CASE Quit(w)
  BY <1>3, QuitStep
<1>4. CASE Becomes(w, c, "commit")
  <2>1. GoodAt("commit", "incident", c.pick, c.quantity, c.seen, c.wrote)
    BY <1>2 DEF GoodAt, Has, Good, Shape, WrittenAsKind, CountsRight, CopyCounts, KnowsOfPicks
  <2> QED
    BY <1>1, <1>2, <1>4, <2>1, BeginStep DEF Steps
<1>5. CASE Becomes(w, WithOrderStatus(c, "picking"), "commit")
  <2> DEFINE o == [c.seen EXCEPT !.status = "picking"]
             W == IF "picking" = c.seen.status THEN c.wrote ELSE c.wrote \cup {"status"}
  <2>1. "picking" \in OrderStatuses
    BY DEF OrderStatuses
  <2>2. Has(WithOrderStatus(c, "picking"), c.step, c.kind, c.pick, c.quantity, o, W)
    BY <1>1, <2>1, StatusSet
  <2>3. o.status = "picking" /\ W \subseteq {"status"}
    BY <1>1, <1>2 DEF Has, Work, OrderCopy
  <2> HIDE DEF o, W
  <2>4. GoodAt("commit", "incident", c.pick, c.quantity, o, W)
    BY <1>2, <2>3 DEF GoodAt, Has, Good, Shape, WrittenAsKind, CountsRight, CopyCounts, KnowsOfPicks
  <2> QED
    BY <1>2, <1>5, <2>2, <2>4, BeginStep DEF Steps
<1> QED
  BY <1>1, <1>3, <1>4, <1>5 DEF LoadIncident

LEMMA FlushPatchStep == ASSUME RowsInv, NEW w \in Worker, FlushPatch(w) PROVE RowsInv'
<1>1. PICK c : /\ c = work[w] /\ Good(c)
               /\ Has(c, c.step, c.kind, c.pick, c.quantity, c.seen, c.wrote)
  BY WorkHas
<1>2. c.kind = "patch" /\ c.step = "write" /\ c.pick \in Pick /\ c.wrote = {}
  BY <1>1 DEF FlushPatch, AtStep, Good, Shape, WrittenAsKind
<1>3. GoodAt("order", "patch", c.pick, c.quantity, c.seen, c.wrote)
  BY <1>2 DEF GoodAt, Has, Good, Shape, WrittenAsKind, CountsRight, CopyCounts, KnowsOfPicks
<1> QED
  BY <1>1, <1>2, <1>3, BeginStep DEF FlushPatch, Steps

LEMMA LoadOrderStep == ASSUME RowsInv, NEW w \in Worker, LoadOrder(w) PROVE RowsInv'
<1>1. PICK c : /\ c = work[w] /\ Good(c)
               /\ Has(c, c.step, c.kind, c.pick, c.quantity, c.seen, c.wrote)
  BY WorkHas
<1>2. c.kind = "patch" /\ c.step = "order" /\ c.pick \in Pick /\ c.wrote = {}
  BY <1>1 DEF LoadOrder, AtStep, Good, Shape, WrittenAsKind
<1>3. PICK d : d = [c EXCEPT !.seen = orderRow]
  OBVIOUS
<1>4. orderRow \in OrderCopy
  BY DEF RowsInv, RowsTypeOK
<1>5. Has(d, "order", "patch", c.pick, c.quantity, orderRow, c.wrote)
  BY <1>1, <1>2, <1>3, <1>4 DEF Has, Work
<1>6. GoodAt("select", "patch", c.pick, c.quantity, orderRow, c.wrote)
  BY <1>2 DEF GoodAt, Has, Good, Shape, WrittenAsKind, CountsRight, CopyCounts, KnowsOfPicks
<1>7. Becomes(w, d, "select")
  BY <1>1, <1>3 DEF LoadOrder
<1> QED
  BY <1>5, <1>6, <1>7, BeginStep DEF Steps

LEMMA SyncOrderStep == ASSUME RowsInv, NEW w \in Worker, SyncOrder(w) PROVE RowsInv'
<1>1. PICK c : /\ c = work[w] /\ Good(c)
               /\ Has(c, c.step, c.kind, c.pick, c.quantity, c.seen, c.wrote)
  BY WorkHas
<1>2. c.step = "select" /\ c.kind \in {"scan", "patch"} /\ c.pick \in Pick
  <2>1. c.step = "select" /\ Shape(c) /\ c \in Work
    BY <1>1 DEF SyncOrder, Good, Has
  <2>2. c.kind \in {"none", "scan", "incident", "patch", "pack", "ship", "status", "lines"}
    BY <2>1 DEF Work
  <2>3. c.kind # "none"
    BY <2>1 DEF Shape, Idle
  <2> QED
    BY <2>1, <2>2, <2>3 DEF Shape
<1>3. PICK new : new = IF c.seen.status \notin NotSynced /\ AllPicksDone(w)
                       THEN "picking_complete" ELSE c.seen.status
  OBVIOUS
<1>4. c.seen \in OrderCopy /\ new \in OrderStatuses
  BY <1>1, <1>3 DEF Has, Work, OrderCopy, OrderStatuses
<1>5. Becomes(w, WithOrderStatus(c, new), "commit")
  BY <1>1, <1>3 DEF SyncOrder, WithOrderStatus
<1> DEFINE o == [c.seen EXCEPT !.status = new]
           W == IF new = c.seen.status THEN c.wrote ELSE c.wrote \cup {"status"}
<1>6. Has(WithOrderStatus(c, new), c.step, c.kind, c.pick, c.quantity, o, W)
  BY <1>1, <1>4, StatusSet
<1>7. /\ o.status = new /\ o.picked = c.seen.picked
      /\ c.wrote \subseteq W /\ W \subseteq c.wrote \cup {"status"}
      /\ new # c.seen.status => "status" \in W
      /\ new = c.seen.status => W = c.wrote
  BY <1>4 DEF OrderCopy
<1> HIDE DEF o, W
<1>8. GoodAt("commit", c.kind, c.pick, c.quantity, o, W)
  <2> SUFFICES ASSUME NEW e, Has(e, "commit", c.kind, c.pick, c.quantity, o, W) PROVE Good(e)
    BY DEF GoodAt
  <2> USE DEF Has
  <2>1. Shape(e) /\ WrittenAsKind(e)
    BY <1>1, <1>2, <1>7 DEF Good, Shape, WrittenAsKind
  <2>2. CountsRight(e)
    BY <1>1, <1>2, <1>7 DEF Good, CountsRight, CopyCounts
  <2>3. ASSUME OnlyScanned, PatchedStatus \subseteq Ended, c.kind = "scan" PROVE KnowsOfPicks(e)
    <3>1. c.seen.status = "picking" /\ "status" \notin c.wrote
      BY <1>1, <1>2, <2>3 DEF Good, KnowsOfPicks
    <3>2. OrderKnows
      BY <2>3 DEF RowsInv
    <3>3. AllPicksDone(w) <=> OthersScanned(c)
      BY <1>1, <1>2, <2>3, <3>2 DEF AllPicksDone, OthersScanned, SelectedStatus, OrderKnows, DonePick
    <3>4. c.seen.status \notin NotSynced
      BY <3>1 DEF NotSynced, Ended
    <3>5. OthersScanned(e) <=> OthersScanned(c)
      BY DEF OthersScanned
    <3>6. CASE OthersScanned(c)
      <4>1. new = "picking_complete" /\ "status" \in W
        BY <1>3, <1>7, <3>1, <3>3, <3>4, <3>6
      <4> QED
        BY <1>7, <2>3, <3>5, <3>6, <4>1 DEF KnowsOfPicks
    <3>7. CASE ~OthersScanned(c)
      <4>1. W = c.wrote
        BY <1>3, <1>7, <3>3, <3>7
      <4> QED
        BY <2>3, <3>1, <3>5, <3>7, <4>1 DEF KnowsOfPicks
    <3> QED
      BY <3>6, <3>7
  <2>4. c.kind = "patch" => KnowsOfPicks(e)
    BY DEF KnowsOfPicks
  <2> QED
    BY <1>2, <2>1, <2>2, <2>3, <2>4 DEF Good
<1> QED
  BY <1>5, <1>6, <1>8, BeginStep DEF Steps

LEMMA CheckStep ==
  ASSUME RowsInv, NEW w \in Worker, CheckPack(w) \/ CheckShip(w) PROVE RowsInv'
<1>1. PICK c : /\ c = work[w] /\ Good(c)
               /\ Has(c, c.step, c.kind, c.pick, c.quantity, c.seen, c.wrote)
  BY WorkHas
<1>2. PICK new : /\ new \in {"packed", "shipped"} /\ Becomes(w, WithOrderStatus(c, new), "commit")
                 /\ c.kind = IF new = "packed" THEN "pack" ELSE "ship"
                 /\ c.step = "check"
                 /\ new = "packed" => \A p \in Pick : \/ pickRow[p].status = "cancelled"
                                                       \/ pickRow[p].status = "completed"
  BY <1>1 DEF CheckPack, CheckShip, AtStep
<1>3. c.wrote = {} /\ c.pick = NoPick /\ new \in OrderStatuses /\ c.seen \in OrderCopy
  BY <1>1, <1>2 DEF Good, Shape, WrittenAsKind, OrderStatuses, Has, Work
<1> DEFINE o == [c.seen EXCEPT !.status = new]
           W == IF new = c.seen.status THEN c.wrote ELSE c.wrote \cup {"status"}
<1>4. Has(WithOrderStatus(c, new), c.step, c.kind, c.pick, c.quantity, o, W)
  BY <1>1, <1>3, StatusSet
<1>5. o.status = new /\ W \subseteq {"status"}
  BY <1>3 DEF OrderCopy
<1> HIDE DEF o, W
<1>6. OnlyScanned /\ PatchedStatus \subseteq Ended /\ new = "packed" => AllScanned
  BY <1>2 DEF RowsInv, OrderKnows, AllScanned
<1>7. GoodAt("commit", c.kind, c.pick, c.quantity, o, W)
  BY <1>2, <1>3, <1>5, <1>6 DEF GoodAt, Has, Good, Shape, WrittenAsKind, CountsRight, CopyCounts, KnowsOfPicks
<1> QED
  BY <1>2, <1>4, <1>7, BeginStep DEF Steps

-----------------------------------------------------------------------------
(* Commit                                                                  *)

LEMMA TotalMono ==
  ASSUME NEW S, IsFiniteSet(S), NEW f \in [S -> Nat], NEW g \in [S -> Nat], NEW T \in SUBSET S,
         \A t \in T : f[t] <= g[t]
  PROVE  Total(f, T) <= Total(g, T) /\ Total(f, T) \in Nat /\ Total(g, T) \in Nat
<1>1. Units(f, T) \subseteq Units(g, T)
  <2> SUFFICES ASSUME NEW t \in T, NEW u \in {t} \X (1 .. f[t]) PROVE u \in {t} \X (1 .. g[t])
    BY DEF Units
  <2>1. f[t] \in Nat /\ g[t] \in Nat /\ f[t] <= g[t]
    OBVIOUS
  <2> QED
    BY <2>1
<1>2. IsFiniteSet(Units(g, T)) /\ Total(f, T) \in Nat /\ Total(g, T) \in Nat
  BY TotalType
<1> QED
  BY <1>1, <1>2, FS_Subset DEF Total

LEMMA CommitWorkStep == ASSUME RowsInv, NEW w \in Worker, CommitWork(w) PROVE RowsInv'
<1>1. PICK c : /\ c = work[w] /\ Good(c)
               /\ Has(c, c.step, c.kind, c.pick, c.quantity, c.seen, c.wrote)
  BY WorkHas
<1>2. PICK row : row = Committed(w)
  OBVIOUS
<1>3. /\ c.step = "commit"
      /\ c.kind = "scan" => OrderFree(w)
      /\ orderRow' = [status |-> IF "status" \in c.wrote THEN c.seen.status ELSE orderRow.status,
                      picked |-> IF "lines" \in c.wrote THEN c.seen.picked ELSE orderRow.picked]
      /\ pickRow'  = [p \in Pick |-> IF p = c.pick THEN row ELSE pickRow[p]]
      /\ scanned'  = [p \in Pick |-> IF c.kind = "scan" /\ p = c.pick /\ c.quantity > scanned[p]
                                     THEN c.quantity ELSE scanned[p]]
      /\ patched'  = IF c.kind = "patch" THEN patched \cup {c.pick} ELSE patched
      /\ reopened' = reopened \cup {p \in Pick : /\ pickRow[p].status \in DonePick
                                                 /\ pickRow'[p].status \notin DonePick}
      /\ work' = [work EXCEPT ![w] = Idle]
      /\ begun' = begun
  BY <1>1, <1>2 DEF CommitWork
<1>4. /\ c.kind \in {"scan", "incident", "patch", "pack", "ship", "status", "lines"}
      /\ c.kind \in {"scan", "incident", "patch"} => c.pick \in Pick
      /\ c.kind \notin {"scan", "incident", "patch"} => c.pick \notin Pick
      /\ c \in Work /\ c.seen \in OrderCopy /\ c.quantity \in Nat /\ c.wrote \subseteq {"status", "lines"}
  <2>1. c \in Work /\ Shape(c)
    BY <1>1 DEF Good, Has
  <2>2. c.kind # "none"
    BY <1>3, <2>1 DEF Shape, Idle
  <2> QED
    BY <2>1, <2>2, PickAssumption DEF Work, Shape
<1>5. /\ c.kind = "scan" => row = [status |-> "completed", confirmed |-> c.quantity]
      /\ c.kind = "incident" => row = [status |-> "blocked", confirmed |-> 0]
      /\ c.kind = "patch" => row = IF c.status = c.found THEN pickRow[c.pick]
                                   ELSE [pickRow[c.pick] EXCEPT !.status = c.status]
  BY <1>1, <1>2 DEF Committed
<1>6. orderRow \in OrderCopy /\ pickRow \in [Pick -> PickCopy] /\ scanned \in [Pick -> Nat]
  BY DEF RowsInv, RowsTypeOK
<1>7. c.pick \in Pick => row \in PickCopy
  BY <1>4, <1>5, <1>6 DEF PickCopy, PickStatus, Work
<1>8. RowsTypeOK'
  <2>1. orderRow' \in OrderCopy
    BY <1>3, <1>4, <1>6 DEF OrderCopy
  <2>2. pickRow' \in [Pick -> PickCopy] /\ scanned' \in [Pick -> Nat]
    BY <1>3, <1>4, <1>6, <1>7
  <2>3. work' \in [Worker -> Work]
    BY <1>3, IdleWork DEF RowsInv, RowsTypeOK
  <2> QED
    BY <1>3, <1>4, <2>1, <2>2, <2>3 DEF RowsInv, RowsTypeOK
<1>9. scanned' \in [Pick -> Nat] /\ \A p \in Pick : scanned[p] <= scanned'[p]
  BY <1>3, <1>4, <1>6, <1>8 DEF RowsTypeOK
<1>10. ASSUME NEW T \in SUBSET Pick
       PROVE  /\ Total(scanned, T) <= Total(scanned', T)
              /\ Total(scanned, T) \in Nat /\ Total(scanned', T) \in Nat
  BY <1>6, <1>9, PickAssumption, TotalMono
<1>11. ScannedIsDone'
  <2> SUFFICES ASSUME NEW p \in Pick, scanned'[p] > 0
               PROVE  p \in reopened' \/ pickRow'[p].status \in DonePick
    BY DEF ScannedIsDone
  <2>1. CASE c.kind = "scan" /\ p = c.pick
    BY <1>3, <1>5, <2>1 DEF DonePick
  <2>2. CASE ~(c.kind = "scan" /\ p = c.pick)
    <3>1. scanned[p] > 0
      BY <1>3, <2>2
    <3> QED
      BY <1>3, <3>1 DEF RowsInv, ScannedIsDone
  <2> QED
    BY <2>1, <2>2
<1>12. CountedOnce'
  <2> SUFFICES ASSUME NEW l \in OrderLine, PicksOf(l) \cap reopened' = {}
               PROVE  orderRow'.picked[l] <= Total(scanned', PicksOf(l))
    BY DEF CountedOnce, PicksOf
  <2>1. PicksOf(l) \cap reopened = {} /\ PicksOf(l) \subseteq Pick
    BY <1>3 DEF PicksOf
  <2>2. orderRow.picked[l] \in Nat /\ c.seen.picked[l] \in Nat
    BY <1>4, <1>6 DEF OrderCopy
  <2>3. CASE "lines" \notin c.wrote
    BY <1>3, <1>10, <2>1, <2>2, <2>3 DEF RowsInv, CountedOnce
  <2>4. CASE c.kind = "lines"
    <3>1. orderRow'.picked[l] = 0 \/ "lines" \notin c.wrote
      BY <1>1, <1>3, <2>4 DEF Good, WrittenAsKind, NothingPicked
    <3> QED
      BY <1>10, <2>1, <2>3, <3>1
  <2>5. CASE c.kind = "scan" /\ "lines" \in c.wrote
    <3>1. orderRow'.picked[l] = c.seen.picked[l] /\ CopyCounts(c, l)
      BY <1>1, <1>3, <2>1, <2>5 DEF Good, CountsRight
    <3>2. CASE LineOf[c.pick] # l
      <4>1. c.seen.picked[l] <= Total(scanned, PicksOf(l))
        BY <1>3, <2>5, <3>1, <3>2 DEF CopyCounts
      <4> QED
        BY <1>10, <2>1, <2>2, <3>1, <4>1
    <3>3. CASE LineOf[c.pick] = l
      <4>1. c.seen.picked[l] <= Total(scanned, PicksOf(l) \ {c.pick}) + c.quantity
        BY <1>3, <2>5, <3>1, <3>3 DEF CopyCounts
      <4>2. c.pick \in PicksOf(l) /\ c.quantity <= scanned'[c.pick] /\ scanned'[c.pick] \in Nat
        BY <1>3, <1>4, <1>6, <1>9, <2>5, <3>3 DEF PicksOf
      <4>3. Total(scanned', PicksOf(l)) = Total(scanned', PicksOf(l) \ {c.pick}) + scanned'[c.pick]
        BY <1>9, <2>1, <4>2, PickAssumption, TotalRemove
      <4>4. /\ Total(scanned, PicksOf(l) \ {c.pick}) <= Total(scanned', PicksOf(l) \ {c.pick})
            /\ Total(scanned, PicksOf(l) \ {c.pick}) \in Nat
            /\ Total(scanned', PicksOf(l) \ {c.pick}) \in Nat
        BY <1>10, <2>1
      <4> QED
        BY <1>4, <2>2, <3>1, <4>1, <4>2, <4>3, <4>4
    <3> QED
      BY <3>2, <3>3
  <2>6. "lines" \in c.wrote => c.kind \in {"scan", "lines"}
    BY <1>1 DEF Good, WrittenAsKind
  <2> QED
    BY <2>3, <2>4, <2>5, <2>6
\* From here on, of orders that only scans have finished.
<1>13. ASSUME OnlyScanned', PatchedStatus \subseteq Ended
       PROVE  /\ OnlyScanned /\ c.kind # "patch" /\ KnowsOfPicks(c) /\ OrderKnows
              /\ \A p \in Pick : pickRow[p].status = "completed" => pickRow'[p].status = "completed"
              /\ \A p \in Pick : /\ p # c.pick => pickRow'[p] = pickRow[p]
                                 /\ c.kind = "scan" /\ p = c.pick => pickRow'[p].status = "completed"
                                 /\ c.kind = "incident" /\ p = c.pick => pickRow'[p].status = "blocked"
  <2>1. OnlyScanned /\ c.kind # "patch"
    BY <1>3, <1>13 DEF OnlyScanned
  <2>2. KnowsOfPicks(c) /\ OrderKnows
    BY <1>1, <1>13, <2>1 DEF Good, RowsInv
  <2>3. \A p \in Pick : /\ p # c.pick => pickRow'[p] = pickRow[p]
                        /\ c.kind = "scan" /\ p = c.pick => pickRow'[p].status = "completed"
                        /\ c.kind = "incident" /\ p = c.pick => pickRow'[p].status = "blocked"
    BY <1>3, <1>5
  <2>4. ASSUME NEW p \in Pick, pickRow[p].status = "completed" PROVE pickRow'[p].status = "completed"
    <3>1. pickRow'[p].status \in DonePick
      BY <1>3, <1>13, <2>4 DEF OnlyScanned, DonePick
    <3>2. c.kind \in {"scan", "incident"} \/ p # c.pick
      BY <1>4, <2>1
    <3> QED
      BY <2>3, <2>4, <3>1, <3>2 DEF DonePick
  <2> QED
    BY <2>1, <2>2, <2>3, <2>4
<1>14. ASSUME OnlyScanned', PatchedStatus \subseteq Ended PROVE OrderKnows'
  <2>1. \A p \in Pick : pickRow'[p].status \in {"pending", "blocked", "completed"}
    BY <1>4, <1>13, <1>14 DEF OrderKnows
  <2>2. AllScanned => AllScanned'
    BY <1>13, <1>14 DEF AllScanned
  <2>3. orderRow'.status = IF "status" \in c.wrote THEN c.seen.status ELSE orderRow.status
    BY <1>3
  <2>4. CASE c.kind = "scan" /\ "status" \in c.wrote
    <3>1. c.seen.status = "picking_complete" /\ OthersScanned(c)
      BY <1>3, <1>13, <1>14, <2>4 DEF KnowsOfPicks
    <3>2. AllScanned'
      BY <1>13, <1>14, <2>4, <3>1 DEF AllScanned, OthersScanned
    <3> QED
      BY <2>1, <2>3, <2>4, <3>1, <3>2 DEF OrderKnows
  <2>5. CASE c.kind = "scan" /\ "status" \notin c.wrote
    <3>1. ~OthersScanned(c)
      BY <1>3, <1>13, <1>14, <2>5 DEF KnowsOfPicks
    <3>2. ~AllScanned /\ ~AllScanned'
      BY <1>13, <1>14, <3>1 DEF AllScanned, OthersScanned
    <3> QED
      BY <1>13, <1>14, <2>1, <2>3, <2>5, <3>2 DEF OrderKnows
  <2>6. CASE c.kind = "incident"
    <3>1. ~AllScanned'
      BY <1>4, <1>13, <1>14, <2>6 DEF AllScanned
    <3>2. "status" \in c.wrote => c.seen.status = "picking"
      BY <1>13, <1>14, <2>6 DEF KnowsOfPicks
    <3> QED
      BY <1>13, <1>14, <2>1, <2>2, <2>3, <3>1, <3>2 DEF OrderKnows
  <2>7. CASE c.kind \in {"pack", "ship", "status", "lines"}
    <3>1. AllScanned' <=> AllScanned
      BY <1>4, <1>13, <1>14, <2>7 DEF AllScanned
    <3>2. "status" \in c.wrote => \/ c.seen.status = "packed" /\ AllScanned
                                  \/ c.seen.status \in Ended
      BY <1>1, <1>3, <1>13, <1>14, <2>7 DEF KnowsOfPicks, Good, WrittenAsKind, Ended
    <3> QED
      BY <1>13, <1>14, <2>1, <2>3, <3>1, <3>2 DEF OrderKnows, Ended
  <2> QED
    BY <1>4, <1>13, <1>14, <2>4, <2>5, <2>6, <2>7
<1>15. ASSUME NEW v \in Worker \ {w} PROVE Good(work[v])'
  <2>1. PICK e : /\ e = work[v] /\ Good(e)
                 /\ Has(e, e.step, e.kind, e.pick, e.quantity, e.seen, e.wrote)
    BY WorkHas
  <2>2. work'[v] = e
    BY <1>3, <2>1
  <2>3. Shape(e)' /\ WrittenAsKind(e)'
    BY <2>1 DEF Good, Shape, WrittenAsKind
  <2>4. ASSUME NEW l \in OrderLine, PicksOf(l) \cap reopened' = {} PROVE CopyCounts(e, l)'
    <3>1. CopyCounts(e, l)
      BY <1>3, <2>1, <2>4 DEF Good, CountsRight
    <3>2. PicksOf(l) \subseteq Pick /\ PicksOf(l) \ {e.pick} \subseteq Pick
      BY DEF PicksOf
    <3>3. /\ Total(scanned, PicksOf(l)) <= Total(scanned', PicksOf(l))
          /\ Total(scanned, PicksOf(l)) \in Nat /\ Total(scanned', PicksOf(l)) \in Nat
      BY <1>10, <3>2
    <3>4. /\ Total(scanned, PicksOf(l) \ {e.pick}) <= Total(scanned', PicksOf(l) \ {e.pick})
          /\ Total(scanned, PicksOf(l) \ {e.pick}) \in Nat /\ Total(scanned', PicksOf(l) \ {e.pick}) \in Nat
      BY <1>10, <3>2
    <3>5. e.seen.picked[l] \in Nat /\ e.quantity \in Nat
      BY <2>1 DEF Has, Work, OrderCopy
    <3>6. PicksOf(l)' = PicksOf(l)
      BY DEF PicksOf
    <3> QED
      BY <3>1, <3>3, <3>4, <3>5, <3>6 DEF CopyCounts
  <2>5. ASSUME OnlyScanned', PatchedStatus \subseteq Ended PROVE KnowsOfPicks(e)'
    <3>1. KnowsOfPicks(e)
      BY <1>13, <2>1, <2>5 DEF Good
    <3>2. AllScanned => AllScanned'
      BY <1>13, <2>5 DEF AllScanned
    <3>3. OthersScanned(e) => OthersScanned(e)'
      BY <1>13, <2>5 DEF OthersScanned
    <3>4. ASSUME e.kind = "scan", e.step = "commit", ~OthersScanned(e) PROVE ~OthersScanned(e)'
      <4>1. c.kind # "scan"
        BY <1>3, <2>1, <3>4 DEF OrderFree, LocksOrder
      <4>2. ASSUME NEW p \in Pick, pickRow[p].status # "completed" PROVE pickRow'[p].status # "completed"
        BY <1>4, <1>13, <2>5, <4>1, <4>2
      <4> QED
        BY <3>4, <4>2 DEF OthersScanned
    <3> QED
      BY <3>1, <3>2, <3>3, <3>4 DEF KnowsOfPicks
  <2> QED
    BY <2>2, <2>3, <2>4, <2>5 DEF Good, CountsRight, PicksOf
<1>16. Good(work[w])'
  <2>1. work'[w] = Idle /\ Idle.kind = "none" /\ Idle.step = "idle" /\ Idle.wrote = {} /\ Idle.pick = NoPick
    BY <1>3 DEF RowsInv, RowsTypeOK, Idle
  <2>2. PICK e : e = work'[w]
    OBVIOUS
  <2> QED
    BY <2>1, <2>2 DEF Good, Shape, WrittenAsKind, CountsRight, CopyCounts, KnowsOfPicks
<1> QED
  BY <1>8, <1>11, <1>12, <1>14, <1>15, <1>16 DEF RowsInv

LEMMA RowsInvStep == RowsInv /\ [RowsNext]_rowVars => RowsInv'
<1> SUFFICES ASSUME RowsInv, [RowsNext]_rowVars PROVE RowsInv'
  OBVIOUS
<1>1. CASE UNCHANGED rowVars
  BY <1>1 DEF rowVars, RowsInv, RowsTypeOK, ScannedIsDone, CountedOnce, OnlyScanned, OrderKnows, AllScanned,
              Good, Shape, WrittenAsKind, CountsRight, CopyCounts, KnowsOfPicks, OthersScanned
<1>2. ASSUME NEW w \in Worker, NEW p \in Pick, NEW n \in ScanQuantity, StartScan(w, p, n) PROVE RowsInv'
  BY <1>2, StartScanStep
<1>3. ASSUME NEW w \in Worker, NEW p \in Pick, StartIncident(w, p) PROVE RowsInv'
  BY <1>3, StartIncidentStep
<1>4. ASSUME NEW w \in Worker, NEW p \in Pick, NEW status \in PatchedPickStatus, StartPatch(w, p, status)
      PROVE  RowsInv'
  BY <1>4, StartPatchStep
<1>5. ASSUME NEW w \in Worker, NEW status \in PatchedStatus, StartStatus(w, status) PROVE RowsInv'
  BY <1>5, StartStatusStep
<1>6. ASSUME NEW w \in Worker, StartLines(w) \/ StartPack(w) \/ StartShip(w) PROVE RowsInv'
  BY <1>6, StartLinesStep, StartPackShipStep
<1>7. ASSUME NEW w \in Worker, LoadScanned(w) \/ FlushScan(w) \/ LoadIncident(w) PROVE RowsInv'
  BY <1>7, LoadScannedStep, FlushScanStep, LoadIncidentStep
<1>8. ASSUME NEW w \in Worker, FlushPatch(w) \/ LoadOrder(w) \/ SyncOrder(w) PROVE RowsInv'
  BY <1>8, FlushPatchStep, LoadOrderStep, SyncOrderStep
<1>9. ASSUME NEW w \in Worker, CheckPack(w) \/ CheckShip(w) PROVE RowsInv'
  BY <1>9, CheckStep
<1>10. ASSUME NEW w \in Worker, CommitWork(w) \/ GiveUp(w) PROVE RowsInv'
  BY <1>10, CommitWorkStep, QuitStep DEF GiveUp
<1> QED
  BY <1>1, <1>2, <1>3, <1>4, <1>5, <1>6, <1>7, <1>8, <1>9, <1>10 DEF RowsNext

LEMMA RowsInvariant == RowsSpec => []RowsInv
BY RowsInit1, RowsInvStep, PTL DEF RowsSpec

\* Whatever requests about the order overlap, its row, the rows of its picks and what the
\* requests have loaded keep their types (confirm_pick, patch_warehouse_task, pack, ship).
THEOREM RowsTypeTheorem == RowsSpec => []RowsTypeOK
<1>1. RowsInv => RowsTypeOK
  BY DEF RowsInv
<1> QED
  BY <1>1, RowsInvariant, PTL

\* For any number of picks, lines and requests: a repeated scan of a pick, overlapping or
\* late, does not count it again.  confirm_pick flushes the task before it commits the
\* counters, which it took from a copy of the order that is as old as the task it found open.
THEOREM CountedOnceTheorem == RowsSpec => []CountedOnce
<1>1. RowsInv => CountedOnce
  BY DEF RowsInv
<1> QED
  BY <1>1, RowsInvariant, PTL

\* For any number of picks and requests, however they overlap: once all picks are finished by
\* scans the order is past picking.  The domain event of a scan flushes the order before
\* sync_outbound_status_from_tasks selects the tasks, so of two scans the second sees both.
THEOREM LastScanIsNoticedTheorem ==
  ASSUME PatchedStatus \subseteq Ended PROVE RowsSpec => []LastScanIsNoticed
<1>1. RowsInv => LastScanIsNoticed
  BY DEF RowsInv, LastScanIsNoticed, OnlyScanned, OrderKnows, AllScanned, Ended
<1> QED
  BY <1>1, RowsInvariant, PTL

=============================================================================

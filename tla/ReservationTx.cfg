\* Three requests at once, out of every kind, on items that are patched, scanned and planned.
SPECIFICATION TxSpec
CONSTANTS
  i1 = i1
  i2 = i2
  i3 = i3
  i4 = i4
  r1 = r1
  r2 = r2
  r3 = r3
  NoItem = NoItem
  Nobody = Nobody
  Item = {i1, i2, i3, i4}
  Task = {1, 2, 3, 4, 5, 6, 7, 8, 9}
  Request = {r1, r2, r3}
  Calls <- MCCalls
  Shelf <- MCShelf
  PlannedBefore = {1, 2, 3, 4, 5}
  ItemOf <- MCItemOf
  QuantityOf <- MCQuantityOf
SYMMETRY MCSymmetry
INVARIANTS
  NeverTakenTwice
  DeadlocksAreItemsFirst
PROPERTIES
  AtomicService
CHECK_DEADLOCK FALSE

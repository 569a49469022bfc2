\* The reservation service with the two other writers of the item row.
SPECIFICATION WritersSpec
CONSTANTS
  i1 = i1
  i2 = i2
  t1 = t1
  t2 = t2
  t3 = t3
  NoItem = NoItem
  Item = {i1, i2}
  Task = {t1, t2, t3}
  Shelf <- MCShelf
  Found <- MCFound
  Requested = {1, 2}
  Edited = {1, 2}
  CountedFacts = {0, 1, 3}
INVARIANTS
  ReservedAtMostHeld
PROPERTIES
  ConsumedIsFinal

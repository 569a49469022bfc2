\* Two flushes and one call of the dialog, two picks in the queue.
SPECIFICATION FairSpec
CONSTANTS
  f1 = f1
  f2 = f2
  c1 = c1
  Flusher = {f1, f2}
  Call = {c1}
  MaxPicks = 2
INVARIANTS
  TypeOK
  KeptUntilSent
  SentInOrder
PROPERTIES
  SlotIsScanned
  QueuedIsSent
CHECK_DEADLOCK FALSE

\* Two workers, batches of two, one of which may die.
SPECIFICATION Spec
CONSTANTS
  t = t
  w1 = w1
  w2 = w2
  NoTask = NoTask
  Message = {1, 2, 3, 4}
  Task = {t}
  TaskOf <- MCTaskOf
  Creating = {1, 2}
  Bad = {}
  Worker = {w1, w2}
  Limit = 2
  MaxCrashes = 1
INVARIANTS
  TypeOK
  AppliedOnce
  TaskFollowsOrder
  FailedForCause
PROPERTIES
  EveryMessageEnds
CHECK_DEADLOCK FALSE

\* A queue of two messages, two commits, one early message.
SPECIFICATION FairSpec
CONSTANTS
  MaxQueue = 2
  MaxCommits = 2
  MaxEarly = 1
INVARIANTS
  TypeOK
  WakeUpComes
PROPERTIES
  Converges
CHECK_DEADLOCK FALSE

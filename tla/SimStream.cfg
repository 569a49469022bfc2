\* A queue of two frames, three versions, one late answer, one restart.
SPECIFICATION FairSpec
CONSTANTS
  MaxQueue = 2
  MaxVersion = 2
  MaxAnswers = 1
  MaxRestarts = 1
INVARIANTS
  TypeOK
  InSync
PROPERTIES
  CatchesUp
CHECK_DEADLOCK FALSE

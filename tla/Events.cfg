\* Two dispatchers, one crash, two replays; one event of unknown equipment.
SPECIFICATION Spec
CONSTANTS
  x = x
  y = y
  w1 = w1
  w2 = w2
  Event = {1, 2, 3}
  Equipment = {x, y}
  Known = {x}
  About <- MCAbout
  Raising <- MCRaising
  Worker = {w1, w2}
  Named <- MCNamed
  Limit = 2
  MaxAttempts = 2
  MaxReplays = 2
  MaxCrashes = 1
INVARIANTS
  TypeOK
  ClaimIsOneRun
  DoneIsDelivered
  ClaimedPoseIsShown
PROPERTIES
  HealthyQueueDrains
CHECK_DEADLOCK FALSE

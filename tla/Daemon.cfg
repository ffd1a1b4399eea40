SPECIFICATION FairSpec
CONSTANTS
  Requests = {r1, r2}
  HealthTimeout = 2
  Polls = 2
INVARIANTS NoOrphan ReadyFirst
PROPERTIES GoesDown
CHECK_DEADLOCK FALSE

SPECIFICATION Spec
CONSTANTS
  A = A
  B = B
  None = None
  Models = {A, B}
  Start = A
  Requests <- TokenRequests
  Owners = {1, 2, 3, 4}
  Order <- TwoBackends
  Cpu = "cpu"
  Batch = FALSE
  Hangs = TRUE
  Discovered = {A}
  Registered = {A, B}
  Dims <- OwnDims
  MaxFail = 1
  MaxSlots = 2
  MaxTokens = 2
INVARIANTS OwnContext BosSkipped
PROPERTY HealthyAnswered

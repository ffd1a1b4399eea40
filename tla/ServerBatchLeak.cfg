SPECIFICATION Spec
CONSTANTS
  A = A
  B = B
  None = None
  Models = {A, B}
  Start = A
  Requests <- BatchRequests
  Owners = {1, 2, 3}
  Order <- TwoBackends
  Cpu = "cpu"
  Batch = TRUE
  Hangs = FALSE
  Discovered = {A, B}
  Registered = {A}
  Dims <- OwnDims
  MaxFail = 0
  MaxSlots = 2
  MaxTokens = 2
INVARIANT OwnContext

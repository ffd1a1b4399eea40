SPECIFICATION FairSpec
CONSTANTS
  A = A
  B = B
  None = None
  Models = {A, B}
  Start = A
  Requests <- BatchRequests
  Owners = {1, 2, 3}
  Order <- OneBackend
  Cpu = "acc"
  Batch = TRUE
  Hangs = FALSE
  Discovered = {A, B}
  Registered = {A}
  Dims <- OwnDims
  MaxFail = 2
  MaxSlots = 2
  MaxTokens = 2
INVARIANTS SingleOccupancy OwnContextIfReset
PROPERTY RequestAnswered

SPECIFICATION FairSpec
CONSTANTS
  A = A
  B = B
  None = None
  Models = {A, B}
  Start = A
  Requests <- MixedRequests
  Owners = {1, 2, 3}
  Order <- TwoBackends
  Cpu = "cpu"
  Batch = FALSE
  Hangs = FALSE
  Discovered = {A, B}
  Registered = {A, B}
  Dims <- OwnDims
  MaxFail = 1
  MaxSlots = 2
  MaxTokens = 2
INVARIANTS TypeOK OwnContext AnswerMatchesModel
PROPERTY RequestAnswered

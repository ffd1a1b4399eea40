SPECIFICATION FairSpec
CONSTANTS
  NIds = 3
  MaxCtx = 2
  MaxBacklog = 2
  MaxUnread = 3
  MaxCrash = 1
  Slow = TRUE
  Recurrent = TRUE
INVARIANTS TypeOK AnswerIsOwn ContextComplete
PROPERTIES CallReturns

SPECIFICATION FairSpec
CONSTANTS
  Nodes = {a, b}
  MaxFaults = 1
INVARIANTS TypeOK GreetedHasAsk AnswerVisible NoRepeatedAsk
PROPERTIES EventuallyIntegrated
CHECK_DEADLOCK FALSE

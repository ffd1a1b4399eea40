SPECIFICATION FairSpec
CONSTANTS
  Tok <- MCTok
  Bos = 3
  Eos = 2
  NDraft = 2
  MaxTokens = 4
  Prompts <- MCPrompts
  Models <- MCModels
  Argmax <- MCArgmax
INVARIANTS TypeOK CachesAgree GreedyTokens
PROPERTIES Finishes

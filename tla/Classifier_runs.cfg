SPECIFICATION Spec
CONSTANTS
  Inputs <- Runs
  Token <- Tokens
  Versions <- Saved
  max_tokens = 4
  HASH_FULL = 75
  K_TOKEN_COUNT_MAX = 4
  MAX_TOKEN_LINE_STACK = 2
  MAX_SIGNALS = 2
INVARIANTS
  ScoresItsDocument
  EmpiricalSound
  CountedAsScored
  MissesAreScored
  EachFileJudged
PROPERTIES
  NoFurtherInput
  EveryRunEnds
CHECK_DEADLOCK FALSE

CONSTANTS
  Inputs <- TwiceInputs
  MAX_TOKEN_LEN = 4
  MAX_SUBMATCH = 5
  EXTRA_TOKEN_LEN = 4
  MAX_RE = 4
SPECIFICATION Spec
INVARIANTS
  CapturesAsAsked

SPECIFICATION FairSpec
CONSTANTS
  a = a
  b = b
  r = r
  Learners = {a, b}
  Readers = {r}
  Temps = {0, 1}
  Pieces = 2
  Buffer = 1
  OptionSets <- Stdio
  MayCrash = TRUE
  MayQuit = TRUE
  DiskMayFill = FALSE
  Past = {}
  None = None
INVARIANTS
  TypeOK
  TempsHeld
PROPERTIES
  SavesAtomically
  EveryRunEnds
CHECK_DEADLOCK FALSE

SPECIFICATION Spec
CONSTANTS
  a = a
  b = b
  r = r
  Learners = {a, b}
  Readers = {r}
  Temps = {0, 1}
  Pieces = 2
  Buffer = 1
  OptionSets <- Merging
  MayCrash = FALSE
  MayQuit = FALSE
  DiskMayFill = FALSE
  Past = {}
  None = None
INVARIANTS
  CategoryWhole
CHECK_DEADLOCK FALSE

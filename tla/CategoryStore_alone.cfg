SPECIFICATION Spec
CONSTANTS
  a = a
  Learners = {a}
  Readers = {}
  Temps = {0, 1}
  Pieces = 3
  Buffer = 2
  OptionSets <- Alone
  MayCrash = FALSE
  MayQuit = TRUE
  DiskMayFill = TRUE
  Past = {"foreign", "leftovers"}
  None = None
INVARIANTS
  CategoryWhole
CHECK_DEADLOCK FALSE

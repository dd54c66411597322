SPECIFICATION Spec
CONSTANTS
  a = a
  b = b
  c = c
  x = x
  y = y
  z = z
  Learners = {a, b, c}
  Ids = {x, y}
  OptionSets <- AllOptions
  Others <- SomeOthers
  MaxInput = 2
  Capacity = 1
  MaxCapacity = 2
  ListGrow = 2
  Margin = 1
  Overlap = FALSE
  MapMayFail = TRUE
  MayCrash = TRUE
  MappedMayFail = FALSE
  None = None
SYMMETRY Symmetry
INVARIANTS
  DumpConsistent
  EveryTokenWeighed
PROPERTIES
  LearnsIncrementally
CHECK_DEADLOCK FALSE

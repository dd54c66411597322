SPECIFICATION Spec
CONSTANTS
  Ids <- WithZero
  OrderOf <- ZeroOrders
  MaxOrder = 2
  InitSize = 2
  Limits = {0, 8}
  HashFull = 50
  CountMax = 5
  WordSize = 65536
  AllocMayFail = TRUE
  Sessions = 2
INVARIANTS
  WrittenOnce
  AnEmptySlotRemains
CHECK_DEADLOCK FALSE

SPECIFICATION FairSpec
CONSTANTS
  Ids <- Colliding
  OrderOf <- OddOrders
  MaxOrder = 2
  InitSize = 2
  Limits = {0, 4, 8}
  HashFull = 50
  CountMax = 8
  WordSize = 65536
  AllocMayFail = FALSE
  Sessions = 0
INVARIANTS
  TypeOK
  Findable
  UniqueCounts
PROPERTIES
  ImplementsBag
  GrowthEnds
CHECK_DEADLOCK FALSE

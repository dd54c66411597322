SPECIFICATION Spec
CONSTANTS
  Inputs <- Messages
  Damaged = TRUE
  HlinesMax = 2
  TextMax = 16
  BufLen = 8
INVARIANTS
  TypeOK
  StackedWhole
  StrictAsStandard
  LibertiesOnlyAdd
  TransportIsFormat
  HangsOnlyAtComma
  PrintedInFull
CHECK_DEADLOCK FALSE

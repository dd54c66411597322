SPECIFICATION Spec
CONSTANTS
  Lines <- MailLines
  OptionSets <- MailOptions
  Decoded <- MailText
  TailLen = 1
  PageLen = 2
  MaxCached = 6
  CheckLines = 1
  Interrupted = FALSE
INVARIANTS
  CachesInStep
  EveryWordShown
  FilteredAsItsPart
PROPERTIES
  TextConserved
  MessageCounted
CHECK_DEADLOCK FALSE

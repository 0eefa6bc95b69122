SPECIFICATION Spec
CONSTANTS
  MaxUpdates = 2
  Replies <- MCReplies
  Https <- MCHttps
  Faults = {"lookup", "refused", "stall", "disk", "fin"}
  ResetAllowed = TRUE
INVARIANTS
  TypeOK
  HandleAlive
  OneWaker
  WholeRules
PROPERTY UpdateEnds
CHECK_DEADLOCK FALSE

SPECIFICATION Spec
CONSTANTS
  Size = 3
  Byte = {"x", "y"}
  Texts <- MCTexts
  Clients = {"c1", "c2"}
  Queries <- MCQueries
  ServerIP = 3
  BuiltIn = "self"
  Resolved <- MCResolved
  MIN_ID = 1
  MAX_ID = 4
  MAX_LOGS = 2
  LastId = 3
  MaxNamed = 3
  RuleLines <- MCRuleLines
  ListLines <- MCListLines
  Hosts <- MCHosts
  Items <- MCItems
  Key <- MCKey
  NULL = 0
INVARIANTS
  Fifo
  MapSound
  RulesMatch
  RightAnswer
  LogTold
CHECK_DEADLOCK FALSE

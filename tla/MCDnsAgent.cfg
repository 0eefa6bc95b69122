SPECIFICATION DnsSpec
CONSTANTS
  Clients = {"c1", "c2"}
  Queries <- MCQueries
  ServerIP = 3
  BuiltIn = "self"
  Resolved <- MCResolved
  MIN_ID = 1
  MAX_ID = 2
  MAX_LOGS = 2
  LastId = 2
  MaxNamed = 3
INVARIANT IdsInArray
CHECK_DEADLOCK FALSE

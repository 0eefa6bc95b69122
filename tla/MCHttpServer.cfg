SPECIFICATION Spec
CONSTANTS
  RingSize = 3
  SegSize = 2
  MaxTries = 3
  Requests <- MCRequests
  Responses <- MCResponses
  HeaderLen = 1
  LastKinds = {"keep", "close"}
  Windows = {1, 9}
INVARIANTS
  TypeOK
  StreamsIntact
  ResponseUndisturbed
  TimerArmed
PROPERTY EveryAnswer
CHECK_DEADLOCK FALSE

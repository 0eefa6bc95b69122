SPECIFICATION Spec
CONSTANTS
  AuthKind = "http"
  ReqLen = 1
  GreetLen = 1
  BufSize = 3
  GreetReply = 2
  ReplyHead = 2
  SeqWrap = 4
  ISNs = {3}
  AckNos = {0, 1}
  FlagSets <- MCFlagSets
  Lens = {0, 1}
  Windows = {1}
PROPERTY TimeoutOnlyWhenExpired

SPECIFICATION FairSpec
CONSTANTS
  AuthKind = "sock5"
  ReqLen = 1
  GreetLen = 1
  BufSize = 4
  GreetReply = 2
  ReplyHead = 3
  SeqWrap = 2
  ISNs = {1}
  AckNos = {0, 1}
  FlagSets <- MCFlagSets
  Lens = {0, 1, 2}
  Windows = {1}
INVARIANT AuthHeld
PROPERTIES ImplementsLifecycle EventuallyOver

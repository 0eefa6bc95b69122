SPECIFICATION MCSpec
CONSTANTS
  AuthKind = "sock5"
  ReqLen = 1
  GreetLen = 1
  BufSize = 4
  GreetReply = 1
  ReplyHead = 2
  SeqWrap = 32
  ISNs = {}
  AckNos = {}
  FlagSets = {}
  Lens = {}
  Windows = {}
  Bytes <- MCBytes
  Reply <- MCReply
  ClientStream <- MCClient
  ServerStream <- MCServer
  ClientISN = 29
  ProxyISN = 30
  Coalesce = FALSE
INVARIANTS
  ProxyHearsRequestThenClient
  ClientHearsServer
  EndToEndAcks
  WindowGate
  CountsHonest
CHECK_DEADLOCK FALSE

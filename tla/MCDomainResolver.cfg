SPECIFICATION Spec
CONSTANTS
  h1 = h1
  h2 = h2
  h3 = h3
  lan = lan
  proxyHost = proxyHost
  NoHost = NoHost
  Hosts <- MCHosts
  Clients <- MCClients
  Rules <- MCRules
  Bases = {0, 1}
  AddrMax = 4
INVARIANTS TypeOK MapsAgree AnswersKept Recoverable
PROPERTY ImplementsDirectory

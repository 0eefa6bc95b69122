SPECIFICATION Spec
CONSTANTS
  Clients <- MCClients
  Targets <- MCTargets
  FlagSets = {{"SYN"}, {"SYN", "ACK"}, {"ACK"}, {"RST"}}
  VirtualIPs = {5}
  Proxy <- MCProxy
  Servers <- MCServers
  Sockets <- MCSockets
  AgentBase = 10
  PortMin = 1
  PortMax = 2
  LastAgentIP = 12
INVARIANTS
  KeysUnique
  OneHandler
PROPERTY NeverReused
CHECK_DEADLOCK FALSE

---------------------------- MODULE TransTable ----------------------------
(***************************************************************************)
(* How packets of the TUN device find the one that handles them: the       *)
(* protocols that IPv4 passes every packet through, each as the one before *)
(* left it, and the two tables of TransTCP, in which a connection is found *)
(* by the client's pair of addresses and by the agent address that stands  *)
(* for the client at the upstream proxy.  What a connection makes of a     *)
(* packet (module TransConnection) is here one of Handlings: it drops it,  *)
(* sends it on, or answers it with a request of its own to the proxy, as   *)
(* the SOCKS5 authenticator does when the greeting is accepted.            *)
(*                                                                         *)
(* An address is a pair of an IP and a port.  A checksum is what it is     *)
(* summed over: a sum does not change when source and destination change   *)
(* places.  Bounds: clients, addresses and flags from small sets, and the  *)
(* last agent IP.                                                          *)
(***************************************************************************)
EXTENDS Integers, Sequences, FiniteSets

CONSTANTS
  Clients,           \* bound: the addresses clients send from
  Targets,           \* bound: the addresses they send to
  FlagSets,          \* bound: the flags their TCP packets carry
  VirtualIPs,        \* what ddns knows
  Proxy,             \* _proxy
  Servers, Sockets,  \* _servers and _sockets: where TCP and UDP listen
  AgentBase,         \* the first agent IP
  PortMin, PortMax,  \* AGENT_PORT_MIN and AGENT_PORT_MAX
  LastAgentIP        \* bound: no connection is opened when this IP is used up

ServerIPs == {s[1] : s \in Servers}
AgentIPs == AgentBase..LastAgentIP
Addr == Nat \X Nat

ASSUME TableAssumption ==
  /\ Clients \subseteq Addr /\ Targets \subseteq Addr /\ Servers \subseteq Addr
  /\ Sockets \subseteq Addr /\ Proxy \in Addr
  /\ AgentBase \in Nat /\ LastAgentIP \in Nat /\ AgentBase <= LastAgentIP
  /\ PortMin \in Nat \ {0} /\ PortMax \in Nat /\ PortMin <= PortMax
  /\ \A f \in FlagSets : f \subseteq {"SYN", "ACK", "RST"}

\* The network settings keep the addresses of clients, of the servers, of names and of
\* agents apart from each other.
ASSUME ApartAssumption ==
  /\ \A c \in Clients \cup {Proxy} : c[1] \notin ServerIPs \cup VirtualIPs \cup AgentIPs
  /\ \A t \in Targets : t[1] \notin AgentIPs
  /\ VirtualIPs \cap ServerIPs = {} /\ AgentIPs \cap (ServerIPs \cup VirtualIPs) = {}

VARIABLES
  conns,     \* the connections in _addrPairMap and _agentMap
  agentAddr, \* _agentAddr
  maxCount,  \* _maxConnCount
  served,    \* _connections of TCP: who talks to a server
  used       \* history: the agent addresses given out

vars == <<conns, agentAddr, maxCount, served, used>>

Connection == [pair : Addr \X Addr, agent : Addr]
Flags == SUBSET {"SYN", "ACK", "RST"}
Protocols == {"tcp", "udp", "icmp"}
Handlings == {"drop", "forward", "answer"}

Sum(p) == [ends |-> {p.src, p.dst}, flags |-> p.flags]

Packet(proto, src, dst, flags) ==
  [proto |-> proto, src |-> src, dst |-> dst, flags |-> flags,
   sum |-> [ends |-> {src, dst}, flags |-> flags]]

Init ==
  /\ conns = {} /\ maxCount = 0
  /\ agentAddr = <<AgentBase, PortMin - 1>>
  /\ served = {}
  /\ used = {}

-----------------------------------------------------------------------------
(* The protocols, from the state s to the state after.                       *)

Has(p, f) == f \in p.flags

Send(s, p) == [s EXCEPT !.p = p, !.out = Append(@, p)]

\* fillChecksum.
Filled(p) == [p EXCEPT !.sum = Sum(p)]

\* Both ends change places, and the checksum stays.
Reflected(p) == [p EXCEPT !.src = p.dst, !.dst = p.src]

\* A packet nobody knows is turned into a reset, in place.
Reset(s) == Send(s, Reflected([s.p EXCEPT !.flags = {"RST"}]))

\* (A wrong variant: the port starts over at the same IP.)
AllocAgentAddressAgain(a) ==
  IF a[2] = PortMax THEN <<a[1], PortMin>> ELSE <<a[1], a[2] + 1>>

\* _allocAgentAddress: the next port, or the first one of the next IP.
AllocAgentAddress(a) ==
  IF a[2] = PortMax THEN <<a[1] + 1, PortMin>> ELSE <<a[1], a[2] + 1>>

\* _sendPacket: the addresses are those of the other side.
ToProxy(s, c) == Send(s, Filled([s.p EXCEPT !.src = c.agent, !.dst = Proxy]))
ToClient(s, c) == Send(s, Filled([s.p EXCEPT !.src = c.pair[2], !.dst = c.pair[1]]))

\* sendAuthRequest from within onAuthResponse: a packet of its own; the one that
\* arrived stays as it is for the protocols that come next.
AnswerProxy(s, c) == [s EXCEPT !.out = Append(@, Packet("tcp", c.agent, Proxy, {"ACK"}))]

\* _Connection::dispatchPacket; only AUTH answers, and only the proxy (no answer to
\* a client: _authDispatchPacket does nothing there).
FromClient(s, c, how) == IF how = "forward" THEN ToProxy(s, c) ELSE s
FromProxy(s, c, how) ==
  CASE how = "forward" -> ToClient(s, c)
    [] how = "answer" -> AnswerProxy(s, c)
    [] OTHER -> s

\* new _Connection puts itself into both tables.
Open(s, addr) ==
  LET agent == AllocAgentAddress(s.agentAddr)
      c == [pair |-> addr, agent |-> agent]
  IN ToProxy([s EXCEPT !.conns = @ \cup {c}, !.agentAddr = agent,
                       !.maxCount = IF Cardinality(s.conns) + 1 > @
                                    THEN Cardinality(s.conns) + 1 ELSE @], c)

\* (A wrong variant: an address of a name is looked at before the tables.)
TransTCPNameFirst(s, how) ==
  LET addr == <<s.p.src, s.p.dst>>
      byPair == {c \in s.conns : c.pair = addr}
      byAgent == {c \in s.conns : c.agent = s.p.dst}
  IN CASE s.p.proto # "tcp" -> s
       [] s.p.proto = "tcp" /\ s.p.dst[1] \in VirtualIPs ->
            IF Has(s.p, "SYN") /\ ~Has(s.p, "ACK") THEN Open(s, addr)
            ELSE IF byPair # {} THEN FromClient(s, CHOOSE c \in byPair : TRUE, how)
            ELSE Reset(s)
       [] s.p.proto = "tcp" /\ s.p.dst[1] \notin VirtualIPs /\ byAgent # {} ->
            FromProxy(s, CHOOSE c \in byAgent : TRUE, how)
       [] OTHER -> s

\* TransTCP::dispatchPacket; how: what the connection makes of the packet.
TransTCP(s, how) ==
  LET addr == <<s.p.src, s.p.dst>>
      byPair == {c \in s.conns : c.pair = addr}
      byAgent == {c \in s.conns : c.agent = s.p.dst}
  IN CASE s.p.proto # "tcp" -> s
       [] s.p.proto = "tcp" /\ byPair # {} ->
            FromClient(s, CHOOSE c \in byPair : TRUE, how)
       [] s.p.proto = "tcp" /\ byPair = {} /\ byAgent # {} ->
            FromProxy(s, CHOOSE c \in byAgent : TRUE, how)
       [] s.p.proto = "tcp" /\ byPair = {} /\ byAgent = {} /\ s.p.dst[1] \in VirtualIPs ->
            IF Has(s.p, "SYN") /\ ~Has(s.p, "ACK") THEN Open(s, addr) ELSE Reset(s)
       [] OTHER -> s

\* (A wrong variant: whatever no connection and no server takes is reset, the packets
\* of others included.)
TCPResetsAny(s) ==
  LET addr == <<s.p.src, s.p.dst>> IN
  CASE s.p.proto # "tcp" \/ addr \in s.served -> s
    [] s.p.proto = "tcp" /\ addr \notin s.served /\ s.p.dst \in Servers ->
         IF Has(s.p, "SYN") THEN [s EXCEPT !.served = @ \cup {addr}] ELSE s
    [] OTHER -> Reset(s)

\* TCP::dispatchPacket: a connection, a server, or an address of one (module
\* ServerTcp has what they do; nothing leaves before the loop goes on).
TCP(s) ==
  LET addr == <<s.p.src, s.p.dst>> IN
  CASE s.p.proto # "tcp" \/ addr \in s.served -> s
    [] s.p.proto = "tcp" /\ addr \notin s.served /\ s.p.dst \in Servers ->
         IF Has(s.p, "SYN") THEN [s EXCEPT !.served = @ \cup {addr}] ELSE s
    [] /\ s.p.proto = "tcp" /\ addr \notin s.served
       /\ s.p.dst \notin Servers /\ s.p.dst[1] \in ServerIPs -> Reset(s)
    [] OTHER -> s

\* UDP::dispatchPacket: a socket's listener is called; DNS answers from there.
UDP(s) ==
  IF s.p.proto = "udp" /\ s.p.dst \in Sockets
  THEN Send(s, Packet("udp", s.p.dst, s.p.src, {})) ELSE s

\* Ping::dispatchPacket: whatever ICMP packet goes back to where it came from.
Ping(s) == IF s.p.proto = "icmp" THEN Send(s, Reflected(s.p)) ELSE s

\* IPv4::dispatchPacket: the protocol that was added last comes first.
Dispatch(p, how) ==
  LET s == [conns |-> conns, agentAddr |-> agentAddr, maxCount |-> maxCount,
            served |-> served, p |-> p, out |-> <<>>]
  IN Ping(UDP(TCP(TransTCP(s, how))))

-----------------------------------------------------------------------------
\* Packets of clients, and of the proxy to every agent it ever heard of.
Arriving ==
  {Packet("tcp", src, dst, flags) : src \in Clients, dst \in Targets, flags \in FlagSets}
  \cup {Packet(proto, src, dst, {}) : proto \in {"udp", "icmp"}, src \in Clients, dst \in Targets}
  \cup {Packet("tcp", Proxy, a, flags) : a \in used, flags \in FlagSets}

Opens(p) ==
  /\ p.proto = "tcp" /\ p.dst[1] \in VirtualIPs
  /\ ~\E c \in conns : c.pair = <<p.src, p.dst>>

\* TunMac::onTunReceived.
Receive(p, how) ==
  LET s == Dispatch(p, how) IN
  /\ Opens(p) => agentAddr # <<LastAgentIP, PortMax>>
  /\ conns' = s.conns /\ agentAddr' = s.agentAddr /\ maxCount' = s.maxCount
  /\ served' = s.served
  /\ used' = used \cup {c.agent : c \in s.conns \ conns}

\* ~_Connection: out of both tables.
Delete(c) ==
  /\ conns' = conns \ {c}
  /\ UNCHANGED <<agentAddr, maxCount, served, used>>

\* ~TcpConnection.
Leave(addr) ==
  /\ served' = served \ {addr}
  /\ UNCHANGED <<conns, agentAddr, maxCount, used>>

Next ==
  \/ \E p \in Arriving, how \in Handlings : Receive(p, how)
  \/ \E c \in conns : Delete(c)
  \/ \E addr \in served : Leave(addr)

Spec == Init /\ [][Next]_vars

-----------------------------------------------------------------------------
(* Properties.                                                              *)

\* A client's pair and an agent address each name one connection: the two lookups
\* of dispatchPacket find the one they are meant to.
KeysUnique ==
  \A c, d \in conns : c.pair = d.pair \/ c.agent = d.agent => c = d

\* What may leave for a packet: one with a checksum that fits, and with the addresses
\* of the connection that knows the packet: on to the other end, or, for a packet to
\* its agent, the connection's own next request to the proxy; or one back to the
\* sender, which for TCP is only so when no connection knows the packet.
Fitting(in, s) ==
  /\ Len(s.out) <= 1
  /\ \A k \in DOMAIN s.out :
       LET o == s.out[k] IN
       \/ \E c \in s.conns :
            /\ o.sum = Sum(o)
            /\ \/ <<in.src, in.dst>> = c.pair /\ o.src = c.agent /\ o.dst = Proxy
               \/ in.dst = c.agent /\ o.src = c.pair[2] /\ o.dst = c.pair[1]
               \/ in.dst = c.agent /\ o.src = c.agent /\ o.dst = Proxy
       \/ /\ o.src = in.dst /\ o.dst = in.src
          /\ in.proto = "tcp" => \A c \in s.conns : <<in.src, in.dst>> # c.pair /\ in.dst # c.agent

\* One packet has one handler, although every protocol sees it and is given it as
\* the one before has rewritten it, or as it came when the one before has answered
\* it with a packet of its own, whatever may arrive now.
OneHandler == \A p \in Arriving, how \in Handlings : Fitting(p, Dispatch(p, how))

\* A new connection never gets an address the proxy has heard of: a late packet for
\* a connection that is gone reaches no other one.
NeverReused == [][\A c \in conns' \ conns : c.agent \notin used]_vars
===========================================================================

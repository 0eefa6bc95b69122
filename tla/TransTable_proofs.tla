------------------------- MODULE TransTable_proofs -------------------------
(***************************************************************************)
(* The tables of TransTCP, for any clients, targets, settings and number of *)
(* connections: an agent address leads to one connection, and once given    *)
(* out it is never given out again.  Both rest on the counter being ahead,  *)
(* in the order of address and port, of all it has given out.               *)
(***************************************************************************)
EXTENDS TransTable, TLAPS

\* The counter is an address whose port has not passed the last.
CounterOK == agentAddr \in Addr /\ agentAddr[2] <= PortMax /\ used \subseteq Addr

\* Nothing in use is ahead of the counter.
Ahead ==
  \A a \in used : a[1] < agentAddr[1] \/ (a[1] = agentAddr[1] /\ a[2] <= agentAddr[2])

\* What connections have was given out.
Given == \A c \in conns : c.agent \in used

\* Agent addresses lie in the agents' range.
InRange == agentAddr[1] \in AgentIPs /\ \A a \in used : a[1] \in AgentIPs

\* A connection stands between a client and an address of a name.
Named == \A c \in conns : c.pair[1] \in Clients /\ c.pair[2][1] \in VirtualIPs

IInv == CounterOK /\ Ahead /\ Given /\ KeysUnique /\ InRange /\ Named

\* What the protocols hand on to each other has its six fields.
Shape(s) == DOMAIN s = {"conns", "agentAddr", "maxCount", "served", "p", "out"}

-----------------------------------------------------------------------------
(* The counter.                                                             *)

\* The next agent address is an address behind everything given out so far
\* (_allocAgentAddress, its carry included).
LEMMA AllocAhead ==
  ASSUME CounterOK, Ahead
  PROVE  LET next == AllocAgentAddress(agentAddr) IN
         /\ next \in Addr /\ next[2] <= PortMax
         /\ next \notin used
         /\ \A a \in used \cup {next} : a[1] < next[1] \/ (a[1] = next[1] /\ a[2] <= next[2])
<1> DEFINE next == AllocAgentAddress(agentAddr)
<1>1. /\ agentAddr[1] \in Nat /\ agentAddr[2] \in Nat /\ agentAddr[2] <= PortMax
      /\ PortMin \in Nat /\ PortMax \in Nat /\ PortMin <= PortMax
      /\ \A a \in used : a[1] \in Nat /\ a[2] \in Nat
  BY TableAssumption DEF CounterOK, Addr
<1>2. next = IF agentAddr[2] = PortMax THEN <<agentAddr[1] + 1, PortMin>>
             ELSE <<agentAddr[1], agentAddr[2] + 1>>
  BY DEF AllocAgentAddress
<1>3. next \in Addr /\ next[2] <= PortMax
  BY <1>1, <1>2 DEF Addr
<1> HIDE DEF next
<1>4. \A a \in used : a[1] < next[1] \/ (a[1] = next[1] /\ a[2] < next[2])
  BY <1>1, <1>2 DEF Ahead
<1>5. next \notin used
  <2> SUFFICES ASSUME next \in used PROVE FALSE
    OBVIOUS
  <2> QED BY <1>1, <1>4
<1>6. \A a \in used \cup {next} : a[1] < next[1] \/ (a[1] = next[1] /\ a[2] <= next[2])
  BY <1>1, <1>3, <1>4 DEF Addr
<1> QED BY <1>3, <1>5, <1>6 DEF next

-----------------------------------------------------------------------------
(* The protocols.                                                           *)

\* Sending a packet changes no table.
LEMMA SendKeeps ==
  ASSUME NEW s, Shape(s), NEW p
  PROVE  Shape(Send(s, p)) /\ Send(s, p).conns = s.conns /\ Send(s, p).agentAddr = s.agentAddr
BY DEF Shape, Send

\* Neither do the protocols behind TransTCP.
LEMMA OthersKeep ==
  ASSUME NEW s, Shape(s)
  PROVE  /\ Ping(UDP(TCP(s))).conns = s.conns
         /\ Ping(UDP(TCP(s))).agentAddr = s.agentAddr
<1>1. \A t : Shape(t) => Shape(TCP(t)) /\ TCP(t).conns = t.conns /\ TCP(t).agentAddr = t.agentAddr
  <2> SUFFICES ASSUME NEW t, Shape(t)
               PROVE  Shape(TCP(t)) /\ TCP(t).conns = t.conns /\ TCP(t).agentAddr = t.agentAddr
    OBVIOUS
  <2>1. CASE TCP(t) = t
    BY <2>1
  <2>2. ASSUME NEW addr, TCP(t) = [t EXCEPT !.served = @ \cup {addr}]
        PROVE  Shape(TCP(t)) /\ TCP(t).conns = t.conns /\ TCP(t).agentAddr = t.agentAddr
    BY <2>2 DEF Shape
  <2>3. CASE TCP(t) = Reset(t)
    BY <2>3, SendKeeps DEF Reset
  <2>4. \/ TCP(t) = t
        \/ \E addr : TCP(t) = [t EXCEPT !.served = @ \cup {addr}]
        \/ TCP(t) = Reset(t)
    <3> DEFINE addr == <<t.p.src, t.p.dst>>
               r == TCP(t)
               opened == [t EXCEPT !.served = @ \cup {addr}]
    <3>1. r = CASE t.p.proto # "tcp" \/ addr \in t.served -> t
            [] t.p.proto = "tcp" /\ addr \notin t.served /\ t.p.dst \in Servers ->
                 IF Has(t.p, "SYN") THEN opened ELSE t
            [] /\ t.p.proto = "tcp" /\ addr \notin t.served
               /\ t.p.dst \notin Servers /\ t.p.dst[1] \in ServerIPs -> Reset(t)
            [] OTHER -> t
      BY DEF TCP
    <3> HIDE DEF r, addr
    <3>2. opened = [t EXCEPT !.served = @ \cup {addr}]
      OBVIOUS
    <3> HIDE DEF opened
    <3>3. r = t \/ r = opened \/ r = Reset(t)
      BY <3>1
    <3> QED BY <3>2, <3>3 DEF r
  <2> QED BY <2>1, <2>2, <2>3, <2>4
<1>2. \A t : Shape(t) => Shape(UDP(t)) /\ UDP(t).conns = t.conns /\ UDP(t).agentAddr = t.agentAddr
  BY SendKeeps DEF UDP
<1>3. \A t : Shape(t) => Ping(t).conns = t.conns /\ Ping(t).agentAddr = t.agentAddr
  BY SendKeeps DEF Ping
<1> QED BY <1>1, <1>2, <1>3

\* TransTCP opens at most one connection, for a pair that has none, under the next
\* address of the counter.
LEMMA OpensOne ==
  ASSUME NEW s, Shape(s), NEW how
  PROVE  LET r == TransTCP(s, how)
             pair == <<s.p.src, s.p.dst>>
             next == AllocAgentAddress(s.agentAddr)
         IN /\ Shape(r)
            /\ \/ r.conns = s.conns /\ r.agentAddr = s.agentAddr
               \/ /\ \A c \in s.conns : c.pair # pair
                  /\ s.p.proto = "tcp" /\ s.p.dst[1] \in VirtualIPs
                  /\ r.conns = s.conns \cup {[pair |-> pair, agent |-> next]}
                  /\ r.agentAddr = next
<1> DEFINE r == TransTCP(s, how)
           pair == <<s.p.src, s.p.dst>>
<1>1. CASE r = s
  BY <1>1
<1>2. CASE \E p : r = Send(s, p) \/ r = [s EXCEPT !.out = Append(@, p)]
  <2>1. ASSUME NEW p, r = [s EXCEPT !.out = Append(@, p)]
        PROVE  Shape(r) /\ r.conns = s.conns /\ r.agentAddr = s.agentAddr
    BY <2>1 DEF Shape
  <2>2. CASE \E p : r = Send(s, p)
    BY <2>2, SendKeeps
  <2>3. CASE \E p : r = [s EXCEPT !.out = Append(@, p)]
    <3>1. Shape(r) /\ r.conns = s.conns /\ r.agentAddr = s.agentAddr
      BY <2>1, <2>3
    <3> QED BY <3>1
  <2> QED BY <1>2, <2>2, <2>3
<1>3. CASE /\ r = Open(s, pair) /\ \A c \in s.conns : c.pair # pair
           /\ s.p.proto = "tcp" /\ s.p.dst[1] \in VirtualIPs
  <2> DEFINE next == AllocAgentAddress(s.agentAddr)
             c == [pair |-> pair, agent |-> next]
             max == IF Cardinality(s.conns) + 1 > s.maxCount THEN Cardinality(s.conns) + 1
                    ELSE s.maxCount
             t == [s EXCEPT !.conns = @ \cup {c}, !.agentAddr = next, !.maxCount = max]
  <2>1. Open(s, pair) = ToProxy(t, c)
    BY DEF Open
  <2> HIDE DEF next, max, c
  <2>2. Shape(t) /\ t.conns = s.conns \cup {c} /\ t.agentAddr = next
    BY DEF Shape
  <2> HIDE DEF t
  <2>3. Shape(ToProxy(t, c)) /\ ToProxy(t, c).conns = t.conns
        /\ ToProxy(t, c).agentAddr = t.agentAddr
    BY <2>2, SendKeeps DEF ToProxy
  <2>4. /\ Shape(Open(s, pair))
        /\ Open(s, pair).conns = s.conns \cup {c} /\ Open(s, pair).agentAddr = next
    BY <2>1, <2>2, <2>3
  <2> QED BY <1>3, <2>4 DEF next, c
<1>4. \/ r = s \/ \E p : r = Send(s, p) \/ r = [s EXCEPT !.out = Append(@, p)]
      \/ /\ r = Open(s, pair) /\ \A c \in s.conns : c.pair # pair
         /\ s.p.proto = "tcp" /\ s.p.dst[1] \in VirtualIPs
  <2> DEFINE byPair == {c \in s.conns : c.pair = pair}
             byAgent == {c \in s.conns : c.agent = s.p.dst}
  <2>1. r = CASE s.p.proto # "tcp" -> s
              [] s.p.proto = "tcp" /\ byPair # {} ->
                   FromClient(s, CHOOSE c \in byPair : TRUE, how)
              [] s.p.proto = "tcp" /\ byPair = {} /\ byAgent # {} ->
                   FromProxy(s, CHOOSE c \in byAgent : TRUE, how)
              [] s.p.proto = "tcp" /\ byPair = {} /\ byAgent = {} /\ s.p.dst[1] \in VirtualIPs ->
                   IF Has(s.p, "SYN") /\ ~Has(s.p, "ACK") THEN Open(s, pair) ELSE Reset(s)
              [] OTHER -> s
    BY DEF TransTCP
  <2>2. \A c : FromClient(s, c, how) = s \/ \E p : FromClient(s, c, how) = Send(s, p)
    BY DEF FromClient, ToProxy
  <2>3. \A c : \/ FromProxy(s, c, how) = s
              \/ \E p : \/ FromProxy(s, c, how) = Send(s, p)
                       \/ FromProxy(s, c, how) = [s EXCEPT !.out = Append(@, p)]
    BY DEF FromProxy, ToClient, AnswerProxy
  <2>4. \E p : Reset(s) = Send(s, p)
    BY DEF Reset
  <2>5. byPair = {} => \A c \in s.conns : c.pair # pair
    OBVIOUS
  <2> HIDE DEF byPair, byAgent, r, pair
  <2> QED BY <2>1, <2>2, <2>3, <2>4, <2>5
<1> QED BY <1>1, <1>2, <1>3, <1>4

\* What a packet may do to the tables.
LEMMA ReceiveTable ==
  ASSUME NEW p, NEW how, Receive(p, how)
  PROVE  \/ conns' = conns /\ agentAddr' = agentAddr /\ used' = used
         \/ \E c : /\ c.agent = AllocAgentAddress(agentAddr)
                   /\ \A d \in conns : d.pair # c.pair
                   /\ c.pair = <<p.src, p.dst>> /\ Opens(p)
                   /\ conns' = conns \cup {c} /\ agentAddr' = c.agent
                   /\ used' = used \cup {c.agent}
<1> DEFINE s == [conns |-> conns, agentAddr |-> agentAddr, maxCount |-> maxCount,
                 served |-> served, p |-> p, out |-> <<>>]
           r == TransTCP(s, how)
           t == Ping(UDP(TCP(r)))
           pair == <<p.src, p.dst>>
           next == AllocAgentAddress(agentAddr)
           c == [pair |-> pair, agent |-> next]
<1>1. Shape(s)
  BY DEF Shape
<1>2. /\ Shape(r)
      /\ \/ r.conns = conns /\ r.agentAddr = agentAddr
         \/ /\ \A d \in conns : d.pair # pair
            /\ p.proto = "tcp" /\ p.dst[1] \in VirtualIPs
            /\ r.conns = conns \cup {c}
            /\ r.agentAddr = next
  BY <1>1, OpensOne
<1> HIDE DEF r, s
<1>3. t.conns = r.conns /\ t.agentAddr = r.agentAddr
  BY <1>2, OthersKeep
<1>4. /\ conns' = t.conns /\ agentAddr' = t.agentAddr
      /\ used' = used \cup {d.agent : d \in t.conns \ conns}
  BY DEF Receive, Dispatch, r, s
<1> HIDE DEF t, next
<1>5. CASE r.conns = conns /\ r.agentAddr = agentAddr
  BY <1>3, <1>4, <1>5
<1>6. CASE /\ \A d \in conns : d.pair # pair
           /\ p.proto = "tcp" /\ p.dst[1] \in VirtualIPs
           /\ r.conns = conns \cup {c}
           /\ r.agentAddr = next
  <2>0. Opens(p)
    BY <1>6 DEF Opens
  <2>1. c.pair = pair /\ c.agent = next /\ c \notin conns
    BY <1>6
  <2> HIDE DEF c, pair
  <2>2. {d.agent : d \in t.conns \ conns} = {next}
    BY <1>3, <1>6, <2>1
  <2>3. \A d \in conns : d.pair # c.pair
    BY <1>6, <2>1
  <2>4. c.pair = <<p.src, p.dst>>
    BY <2>1 DEF pair
  <2> QED BY <1>3, <1>4, <1>6, <2>0, <2>1, <2>2, <2>3, <2>4 DEF next
<1> QED BY <1>2, <1>5, <1>6

-----------------------------------------------------------------------------
(* The invariant.                                                           *)

\* The next address is one of the agents' as long as the last one is not given out.
LEMMA NextInRange ==
  ASSUME CounterOK, InRange, NEW p, NEW how, Receive(p, how), Opens(p)
  PROVE  AllocAgentAddress(agentAddr)[1] \in AgentIPs
<1>1. agentAddr # <<LastAgentIP, PortMax>>
  BY DEF Receive
<1>2. agentAddr = <<agentAddr[1], agentAddr[2]>> /\ agentAddr[1] \in AgentBase..LastAgentIP
  BY DEF CounterOK, Addr, InRange, AgentIPs
<1>3. agentAddr[2] = PortMax => agentAddr[1] # LastAgentIP
  BY <1>1, <1>2
<1> QED BY <1>2, <1>3, TableAssumption DEF AllocAgentAddress, AgentIPs

\* What arrives carries the addresses of a client, or of the proxy and an agent.
LEMMA Arrives ==
  ASSUME NEW p \in Arriving
  PROVE  /\ DOMAIN p = {"proto", "src", "dst", "flags", "sum"}
         /\ p.sum = Sum(p) /\ p.proto \in {"tcp", "udp", "icmp"}
         /\ \/ p.src \in Clients /\ p.dst \in Targets
            \/ p.src = Proxy /\ p.dst \in used /\ p.proto = "tcp"
<1>1. ASSUME NEW proto \in {"tcp", "udp", "icmp"}, NEW src, NEW dst, NEW flags,
             p = Packet(proto, src, dst, flags)
      PROVE  /\ DOMAIN p = {"proto", "src", "dst", "flags", "sum"}
             /\ p.sum = Sum(p) /\ p.proto = proto /\ p.src = src /\ p.dst = dst
  BY <1>1 DEF Packet, Sum
<1>2. \/ \E src \in Clients, dst \in Targets, flags \in FlagSets :
           p = Packet("tcp", src, dst, flags)
      \/ \E proto \in {"udp", "icmp"}, src \in Clients, dst \in Targets :
           p = Packet(proto, src, dst, {})
      \/ \E a \in used, flags \in FlagSets : p = Packet("tcp", Proxy, a, flags)
  BY DEF Arriving
<1>3. CASE \E src \in Clients, dst \in Targets, flags \in FlagSets :
             p = Packet("tcp", src, dst, flags)
  BY <1>1, <1>3
<1>4. CASE \E proto \in {"udp", "icmp"}, src \in Clients, dst \in Targets :
             p = Packet(proto, src, dst, {})
  BY <1>1, <1>4
<1>5. CASE \E a \in used, flags \in FlagSets : p = Packet("tcp", Proxy, a, flags)
  BY <1>1, <1>5
<1> QED BY <1>2, <1>3, <1>4, <1>5

\* Only a client's packet opens a connection: agents have no names.
LEMMA OpenedNamed ==
  ASSUME InRange, NEW p \in Arriving, Opens(p)
  PROVE  p.src \in Clients /\ p.dst[1] \in VirtualIPs
<1>1. p.dst[1] \in VirtualIPs
  BY DEF Opens
<1>2. p.dst \notin used
  BY <1>1, ApartAssumption DEF InRange
<1> QED BY <1>1, <1>2, Arrives

\* A step gives out no address that was given out before, and keeps the invariant.
LEMMA StepHolds ==
  ASSUME IInv, [Next]_vars
  PROVE  IInv' /\ \A c \in conns' \ conns : c.agent \notin used
<1>1. ASSUME NEW p \in Arriving, NEW how, Receive(p, how)
      PROVE  IInv' /\ \A c \in conns' \ conns : c.agent \notin used
  <2>1. CASE conns' = conns /\ agentAddr' = agentAddr /\ used' = used
    BY <2>1 DEF IInv, CounterOK, Ahead, Given, KeysUnique, InRange, Named
  <2>2. ASSUME NEW c, c.agent = AllocAgentAddress(agentAddr), \A d \in conns : d.pair # c.pair,
               c.pair = <<p.src, p.dst>>, Opens(p),
               conns' = conns \cup {c}, agentAddr' = c.agent, used' = used \cup {c.agent}
        PROVE  IInv' /\ \A d \in conns' \ conns : d.agent \notin used
    <3>1. /\ c.agent \in Addr /\ c.agent[2] <= PortMax /\ c.agent \notin used
          /\ \A a \in used \cup {c.agent} :
               a[1] < c.agent[1] \/ (a[1] = c.agent[1] /\ a[2] <= c.agent[2])
      BY <2>2, AllocAhead DEF IInv
    <3>2. CounterOK'
      BY <2>2, <3>1 DEF CounterOK, IInv
    <3>3. Ahead'
      BY <2>2, <3>1 DEF Ahead
    <3>4. Given'
      BY <2>2 DEF Given, IInv
    <3>5. KeysUnique'
      BY <2>2, <3>1 DEF KeysUnique, Given, IInv
    <3>6. InRange'
      BY <1>1, <2>2, NextInRange DEF IInv, InRange
    <3>7. Named'
      BY <2>2, OpenedNamed DEF IInv, Named
    <3> QED BY <2>2, <3>1, <3>2, <3>3, <3>4, <3>5, <3>6, <3>7 DEF IInv
  <2> QED BY <1>1, <2>1, <2>2, ReceiveTable
<1>2. ASSUME NEW c \in conns, Delete(c)
      PROVE  IInv' /\ \A d \in conns' \ conns : d.agent \notin used
  BY <1>2 DEF Delete, IInv, CounterOK, Ahead, Given, KeysUnique, InRange, Named
<1>3. ASSUME NEW addr \in served, Leave(addr)
      PROVE  IInv' /\ \A d \in conns' \ conns : d.agent \notin used
  BY <1>3 DEF Leave, IInv, CounterOK, Ahead, Given, KeysUnique, InRange, Named
<1>4. CASE UNCHANGED vars
  BY <1>4 DEF vars, IInv, CounterOK, Ahead, Given, KeysUnique, InRange, Named
<1> QED BY <1>1, <1>2, <1>3, <1>4 DEF Next

\* The tables of a process that has just started.
LEMMA InitHolds == Init => IInv
<1>1. Init => CounterOK
  BY TableAssumption DEF Init, CounterOK, Addr
<1>2. Init => InRange
  BY TableAssumption DEF Init, InRange, AgentIPs
<1> QED BY <1>1, <1>2 DEF Init, IInv, Ahead, Given, KeysUnique, Named

\* Each key of either table leads to one connection (KeysUnique), whatever arrives
\* and in whatever order connections end.
THEOREM TablesAgree == Spec => []KeysUnique
<1>1. IInv /\ [Next]_vars => IInv'
  BY StepHolds
<1>2. IInv => KeysUnique
  BY DEF IInv
<1> QED BY InitHolds, <1>1, <1>2, PTL DEF Spec

\* An agent address is given out once (NeverReused): what the proxy still sends to
\* an old one meets no new connection.
THEOREM AddressesFresh == Spec => NeverReused
<1>1. IInv /\ [Next]_vars => IInv'
  BY StepHolds
<1>2. IInv /\ [Next]_vars => [\A c \in conns' \ conns : c.agent \notin used]_vars
  BY StepHolds
<1> QED BY InitHolds, <1>1, <1>2, PTL DEF Spec, NeverReused

-----------------------------------------------------------------------------
(* One handler for a packet.                                                *)

\* A packet's fields.
Fields(q) == DOMAIN q = {"proto", "src", "dst", "flags", "sum"}

\* A packet under new addresses.
Toward(p, src, dst) == Filled([p EXCEPT !.src = src, !.dst = dst])

\* What leaves is what the next protocol sees.
Left(s, t, q) ==
  /\ Shape(t) /\ t.p = q /\ t.out = <<q>> /\ q.proto = s.p.proto

\* A packet with both ends changed and the checksum filled in.
LEMMA FilledIs ==
  ASSUME NEW p, Fields(p), NEW src, NEW dst,
         NEW q1, q1 = Toward(p, src, dst)
  PROVE  /\ Fields(q1) /\ q1.proto = p.proto /\ q1.src = src /\ q1.dst = dst
         /\ q1.sum = Sum(q1)
<1> DEFINE q0 == [p EXCEPT !.src = src, !.dst = dst]
           sum == Sum(q0)
           q == [q0 EXCEPT !.sum = sum]
<1>1. Fields(q0) /\ q0.proto = p.proto /\ q0.src = src /\ q0.dst = dst
  BY DEF Fields
<1>2. sum = [ends |-> {q0.src, q0.dst}, flags |-> q0.flags]
  BY DEF Sum
<1> HIDE DEF q0, sum
<1>3. /\ Fields(q) /\ q.proto = q0.proto /\ q.src = q0.src /\ q.dst = q0.dst
      /\ q.flags = q0.flags /\ q.sum = sum
  BY <1>1 DEF Fields
<1>4. q.sum = Sum(q)
  BY <1>2, <1>3 DEF Sum
<1>5. q1 = q
  BY DEF Toward, Filled, sum, q0
<1> HIDE DEF q
<1> QED BY <1>1, <1>3, <1>4, <1>5 DEF q0

\* A reset goes back to where its packet came from.
LEMMA ResetIs ==
  ASSUME NEW s, Shape(s), Fields(s.p), s.out = <<>>
  PROVE  \E q : /\ Left(s, Reset(s), q) /\ q.src = s.p.dst /\ q.dst = s.p.src
               /\ Reset(s).conns = s.conns
<1> DEFINE r == [s.p EXCEPT !.flags = {"RST"}]
           q == [r EXCEPT !.src = r.dst, !.dst = r.src]
<1>1. Fields(r) /\ r.src = s.p.src /\ r.dst = s.p.dst /\ r.proto = s.p.proto
  BY DEF Fields
<1> HIDE DEF r
<1>2. Fields(q) /\ q.src = r.dst /\ q.dst = r.src /\ q.proto = r.proto
  BY <1>1 DEF Fields
<1>3. Reset(s) = Send(s, q)
  BY DEF Reset, Reflected, r
<1> HIDE DEF q
<1>4. Left(s, Send(s, q), q) /\ Send(s, q).conns = s.conns
  BY <1>1, <1>2 DEF Left, Send, Shape
<1> QED BY <1>1, <1>2, <1>3, <1>4

\* What is sent under other addresses.
LEMMA SentToward ==
  ASSUME NEW s, Shape(s), Fields(s.p), s.out = <<>>, NEW src, NEW dst,
         NEW q, q = Toward(s.p, src, dst)
  PROVE  /\ Left(s, Send(s, q), q) /\ q.sum = Sum(q) /\ q.src = src /\ q.dst = dst
         /\ Send(s, q).conns = s.conns
<1>1. Fields(q) /\ q.proto = s.p.proto /\ q.src = src /\ q.dst = dst /\ q.sum = Sum(q)
  BY FilledIs
<1>2. Left(s, Send(s, q), q) /\ Send(s, q).conns = s.conns
  BY <1>1 DEF Left, Send, Shape
<1> QED BY <1>1, <1>2

\* A client's packet goes on under the agent's address.
LEMMA SentToProxy ==
  ASSUME NEW s, Shape(s), Fields(s.p), s.out = <<>>, NEW c
  PROVE  \E q : /\ Left(s, ToProxy(s, c), q) /\ q.sum = Sum(q)
               /\ q.src = c.agent /\ q.dst = Proxy
               /\ ToProxy(s, c).conns = s.conns
<1> DEFINE q == Toward(s.p, c.agent, Proxy)
<1>1. ToProxy(s, c) = Send(s, q)
  BY DEF ToProxy, Toward
<1> HIDE DEF q
<1>2. /\ Left(s, Send(s, q), q) /\ q.sum = Sum(q) /\ q.src = c.agent /\ q.dst = Proxy
      /\ Send(s, q).conns = s.conns
  BY SentToward DEF q
<1> QED BY <1>1, <1>2

\* The proxy's packet goes on to the client.
LEMMA SentToClient ==
  ASSUME NEW s, Shape(s), Fields(s.p), s.out = <<>>, NEW c
  PROVE  \E q : /\ Left(s, ToClient(s, c), q) /\ q.sum = Sum(q)
               /\ q.src = c.pair[2] /\ q.dst = c.pair[1]
               /\ ToClient(s, c).conns = s.conns
<1> DEFINE q == Toward(s.p, c.pair[2], c.pair[1])
<1>1. ToClient(s, c) = Send(s, q)
  BY DEF ToClient, Toward
<1> HIDE DEF q
<1>2. /\ Left(s, Send(s, q), q) /\ q.sum = Sum(q) /\ q.src = c.pair[2] /\ q.dst = c.pair[1]
      /\ Send(s, q).conns = s.conns
  BY SentToward DEF q
<1> QED BY <1>1, <1>2

\* What TransTCP has sent on, the protocols behind it leave alone: neither clients
\* nor the proxy have a server's IP.
LEMMA PassedBy ==
  ASSUME NEW t, t.p.proto = "tcp", t.p.dst[1] \notin ServerIPs
  PROVE  Ping(UDP(TCP(t))) = t
<1>1. t.p.dst \notin Servers
  BY DEF ServerIPs
<1>2. TCP(t) = t
  <2> DEFINE addr == <<t.p.src, t.p.dst>>
             known == addr \in t.served
             opened == [t EXCEPT !.served = @ \cup {addr}]
  <2>1. TCP(t) = CASE t.p.proto # "tcp" \/ known -> t
          [] t.p.proto = "tcp" /\ ~known /\ t.p.dst \in Servers ->
               IF Has(t.p, "SYN") THEN opened ELSE t
          [] /\ t.p.proto = "tcp" /\ ~known
             /\ t.p.dst \notin Servers /\ t.p.dst[1] \in ServerIPs -> Reset(t)
          [] OTHER -> t
    BY DEF TCP
  <2> HIDE DEF known, opened
  <2> QED BY <1>1, <2>1
<1>3. UDP(t) = t /\ Ping(t) = t
  BY DEF UDP, Ping
<1> QED BY <1>2, <1>3

\* What TransTCP does with a TCP packet: it knows the connection, opens it, resets
\* what is sent to a name's address, or leaves it to the others.
LEMMA TransTCPDoes ==
  ASSUME NEW s, s.p.proto = "tcp", NEW how
  PROVE  LET pair == <<s.p.src, s.p.dst>>
             r == TransTCP(s, how)
         IN \/ \E c \in s.conns : c.pair = pair /\ r = ToProxy(s, c)
            \/ \E c \in s.conns : c.agent = s.p.dst /\ (r = ToClient(s, c) \/ r = AnswerProxy(s, c))
            \/ r = Open(s, pair) /\ s.p.dst[1] \in VirtualIPs
            \/ r = Reset(s) /\ \A c \in s.conns : c.pair # pair /\ c.agent # s.p.dst
            \/ r = s
<1> DEFINE r == TransTCP(s, how)
           pair == <<s.p.src, s.p.dst>>
           byPair == {c \in s.conns : c.pair = pair}
           byAgent == {c \in s.conns : c.agent = s.p.dst}
           first == CHOOSE c \in byPair : TRUE
           other == CHOOSE c \in byAgent : TRUE
<1>1. r = CASE s.p.proto # "tcp" -> s
            [] s.p.proto = "tcp" /\ byPair # {} -> FromClient(s, first, how)
            [] s.p.proto = "tcp" /\ byPair = {} /\ byAgent # {} ->
                 FromProxy(s, other, how)
            [] s.p.proto = "tcp" /\ byPair = {} /\ byAgent = {} /\ s.p.dst[1] \in VirtualIPs ->
                 IF Has(s.p, "SYN") /\ ~Has(s.p, "ACK") THEN Open(s, pair) ELSE Reset(s)
            [] OTHER -> s
  BY DEF TransTCP
<1>2. byPair # {} => first \in byPair
  OBVIOUS
<1>3. byAgent # {} => other \in byAgent
  OBVIOUS
<1>4. byPair = {} /\ byAgent = {} => \A c \in s.conns : c.pair # pair /\ c.agent # s.p.dst
  OBVIOUS
<1> HIDE DEF first, other, r, pair
<1>5. CASE byPair # {}
  <2>1. r = FromClient(s, first, how)
    BY <1>1, <1>5
  <2>2. r = ToProxy(s, first) \/ r = s
    BY <2>1 DEF FromClient
  <2> QED BY <1>2, <1>5, <2>2 DEF r, pair
<1>6. CASE byPair = {} /\ byAgent # {}
  <2>1. r = FromProxy(s, other, how)
    BY <1>1, <1>6
  <2>2. r = ToClient(s, other) \/ r = AnswerProxy(s, other) \/ r = s
    BY <2>1 DEF FromProxy
  <2> QED BY <1>3, <1>6, <2>2 DEF r, pair
<1>7. CASE byPair = {} /\ byAgent = {}
  <2>1. r = s \/ r = Reset(s) \/ (r = Open(s, pair) /\ s.p.dst[1] \in VirtualIPs)
    BY <1>1, <1>7
  <2> QED BY <1>4, <1>7, <2>1 DEF r, pair
<1> QED BY <1>5, <1>6, <1>7

\* What TCP does with a packet that TransTCP has left alone.
LEMMA TCPDoes ==
  ASSUME NEW s, Shape(s)
  PROVE  \/ Shape(TCP(s)) /\ TCP(s).p = s.p /\ TCP(s).out = s.out
         \/ TCP(s) = Reset(s) /\ s.p.dst[1] \in ServerIPs
<1> DEFINE addr == <<s.p.src, s.p.dst>>
           known == addr \in s.served
           opened == [s EXCEPT !.served = @ \cup {addr}]
<1>1. TCP(s) = CASE s.p.proto # "tcp" \/ known -> s
        [] s.p.proto = "tcp" /\ ~known /\ s.p.dst \in Servers ->
             IF Has(s.p, "SYN") THEN opened ELSE s
        [] /\ s.p.proto = "tcp" /\ ~known
           /\ s.p.dst \notin Servers /\ s.p.dst[1] \in ServerIPs -> Reset(s)
        [] OTHER -> s
  BY DEF TCP
<1>2. Shape(opened) /\ opened.p = s.p /\ opened.out = s.out
  BY DEF Shape
<1> HIDE DEF known, opened
<1> QED BY <1>1, <1>2

\* An empty answer fits, and one that is either a connection's or goes back.
LEMMA Fits ==
  ASSUME NEW in, NEW t, NEW q, t.out = <<q>>,
         \/ \E c \in t.conns :
              /\ q.sum = Sum(q)
              /\ \/ <<in.src, in.dst>> = c.pair /\ q.src = c.agent /\ q.dst = Proxy
                 \/ in.dst = c.agent /\ q.src = c.pair[2] /\ q.dst = c.pair[1]
                 \/ in.dst = c.agent /\ q.src = c.agent /\ q.dst = Proxy
         \/ /\ q.src = in.dst /\ q.dst = in.src
            /\ in.proto = "tcp" => \A c \in t.conns : <<in.src, in.dst>> # c.pair /\ in.dst # c.agent
  PROVE  Fitting(in, t)
<1>1. Len(t.out) = 1 /\ DOMAIN t.out = {1} /\ t.out[1] = q
  OBVIOUS
<1> QED BY <1>1 DEF Fitting

\* A TCP packet has one handler.
LEMMA TcpHandled ==
  ASSUME IInv, NEW p \in Arriving, p.proto = "tcp", NEW how,
         NEW s, Shape(s), s.p = p, s.out = <<>>, s.conns = conns
  PROVE  Fitting(p, Ping(UDP(TCP(TransTCP(s, how)))))
<1> DEFINE r == TransTCP(s, how)
<1>1. /\ Fields(p) /\ p.src \in Clients \cup {Proxy}
      /\ p.src[1] \notin ServerIPs /\ Proxy[1] \notin ServerIPs
  BY Arrives, ApartAssumption DEF Fields
<1>2. ASSUME NEW q, Left(s, r, q), q.dst[1] \notin ServerIPs
      PROVE  Ping(UDP(TCP(r))) = r /\ r.out = <<q>>
  <2> HIDE DEF r
  <2> QED BY <1>2, PassedBy DEF Left
<1> HIDE DEF r
<1>3. ASSUME NEW c \in conns, c.pair = <<p.src, p.dst>>, r = ToProxy(s, c)
      PROVE  Fitting(p, Ping(UDP(TCP(r))))
  <2>1. PICK q : /\ Left(s, ToProxy(s, c), q) /\ q.sum = Sum(q)
                 /\ q.src = c.agent /\ q.dst = Proxy /\ ToProxy(s, c).conns = s.conns
    BY <1>1, SentToProxy
  <2> QED BY <1>1, <1>2, <1>3, <2>1, Fits
<1>4. ASSUME NEW c \in conns, c.agent = p.dst, r = ToClient(s, c)
      PROVE  Fitting(p, Ping(UDP(TCP(r))))
  <2>1. PICK q : /\ Left(s, ToClient(s, c), q) /\ q.sum = Sum(q)
                 /\ q.src = c.pair[2] /\ q.dst = c.pair[1] /\ ToClient(s, c).conns = s.conns
    BY <1>1, SentToClient
  <2>2. q.dst[1] \notin ServerIPs
    BY <2>1, ApartAssumption DEF IInv, Named
  <2> QED BY <1>2, <1>4, <2>1, <2>2, Fits
<1>5. ASSUME NEW c \in conns, c.agent = p.dst, r = AnswerProxy(s, c)
      PROVE  Fitting(p, Ping(UDP(TCP(r))))
  <2>1. PICK q : q = Packet("tcp", c.agent, Proxy, {"ACK"})
    OBVIOUS
  <2>2. r.out = <<q>> /\ r.p = p /\ r.conns = conns
    BY <1>5, <2>1 DEF AnswerProxy, Shape
  <2>3. p.dst[1] \notin ServerIPs
    BY <1>5, ApartAssumption DEF IInv, Given, InRange
  <2>4. Ping(UDP(TCP(r))) = r
    BY <2>2, <2>3, PassedBy
  <2>5. q.src = c.agent /\ q.dst = Proxy /\ q.sum = Sum(q)
    BY <2>1 DEF Packet, Sum
  <2>6. Fitting(p, r)
    BY <1>5, <2>2, <2>5, Fits
  <2> QED BY <2>4, <2>6
<1>6. ASSUME r = Open(s, <<p.src, p.dst>>)
      PROVE  Fitting(p, Ping(UDP(TCP(r))))
  <2> DEFINE next == AllocAgentAddress(s.agentAddr)
             c == [pair |-> <<p.src, p.dst>>, agent |-> next]
             max == IF Cardinality(s.conns) + 1 > s.maxCount THEN Cardinality(s.conns) + 1
                    ELSE s.maxCount
             t == [s EXCEPT !.conns = @ \cup {c}, !.agentAddr = next, !.maxCount = max]
  <2>1. Open(s, <<p.src, p.dst>>) = ToProxy(t, c)
    BY DEF Open
  <2>2. c.pair = <<p.src, p.dst>>
    OBVIOUS
  <2> HIDE DEF next, max, c
  <2>3. Shape(t) /\ t.conns = s.conns \cup {c} /\ t.p = p /\ t.out = <<>>
    <3>1. DOMAIN t = DOMAIN s
      OBVIOUS
    <3>2. DOMAIN s = {"conns", "agentAddr", "maxCount", "served", "p", "out"}
      BY DEF Shape
    <3>3. t.conns = s.conns \cup {c} /\ t.p = s.p /\ t.out = s.out
      BY <3>2
    <3> QED BY <3>1, <3>3 DEF Shape
  <2> HIDE DEF t
  <2>4. PICK q : /\ Left(t, ToProxy(t, c), q) /\ q.sum = Sum(q)
                 /\ q.src = c.agent /\ q.dst = Proxy /\ ToProxy(t, c).conns = t.conns
    <3>1. Shape(t) /\ Fields(t.p) /\ t.out = <<>>
      BY <1>1, <2>3
    <3> QED BY <3>1, SentToProxy, Zenon
  <2>5. Left(s, r, q) /\ r.conns = t.conns
    BY <1>6, <2>1, <2>3, <2>4 DEF Left
  <2> QED BY <1>1, <1>2, <2>2, <2>3, <2>4, <2>5, Fits
<1>7. PICK q : /\ Left(s, Reset(s), q) /\ q.src = p.dst /\ q.dst = p.src
               /\ Reset(s).conns = conns
  BY <1>1, ResetIs
<1>8. ASSUME r = Reset(s), \A c \in conns : c.pair # <<p.src, p.dst>> /\ c.agent # p.dst
      PROVE  Fitting(p, Ping(UDP(TCP(r))))
  <2>1. q.dst[1] \notin ServerIPs
    BY <1>1, <1>7
  <2>2. Ping(UDP(TCP(r))) = r /\ r.out = <<q>> /\ r.conns = conns
    BY <1>2, <1>7, <1>8, <2>1
  <2>3. \A c \in r.conns : <<p.src, p.dst>> # c.pair /\ p.dst # c.agent
    BY <1>8, <2>2
  <2>4. q.src = p.dst /\ q.dst = p.src
    BY <1>7
  <2> QED BY <2>2, <2>3, <2>4, Fits
<1>9. ASSUME r = s
      PROVE  Fitting(p, Ping(UDP(TCP(r))))
  <2>1. ASSUME NEW t, t.p.proto = "tcp" PROVE Ping(UDP(t)) = t
    BY <2>1 DEF UDP, Ping
  <2>2. CASE TCP(s).p = p /\ TCP(s).out = <<>>
    <3>1. Ping(UDP(TCP(r))).out = <<>>
      BY <1>9, <2>1, <2>2
    <3> QED BY <3>1 DEF Fitting
  <2>3. CASE TCP(s) = Reset(s) /\ p.dst[1] \in ServerIPs
    <3>1. \A c \in conns : <<p.src, p.dst>> # c.pair
      BY <2>3, ApartAssumption DEF IInv, Named
    <3>2. \A c \in conns : p.dst # c.agent
      BY <2>3, ApartAssumption DEF IInv, Given, InRange
    <3>3. Ping(UDP(TCP(r))) = Reset(s)
      BY <1>7, <1>9, <2>1, <2>3 DEF Left
    <3>4. Reset(s).out = <<q>> /\ Reset(s).conns = conns /\ q.src = p.dst /\ q.dst = p.src
      BY <1>7 DEF Left
    <3>5. \A c \in Reset(s).conns : <<p.src, p.dst>> # c.pair /\ p.dst # c.agent
      BY <3>1, <3>2, <3>4
    <3>6. Fitting(p, Reset(s))
      BY <3>4, <3>5, Fits
    <3> QED BY <3>3, <3>6
  <2> QED BY <2>2, <2>3, TCPDoes
<1>10. \/ \E c \in conns : c.pair = <<p.src, p.dst>> /\ r = ToProxy(s, c)
       \/ \E c \in conns : c.agent = p.dst /\ (r = ToClient(s, c) \/ r = AnswerProxy(s, c))
       \/ r = Open(s, <<p.src, p.dst>>)
       \/ r = Reset(s) /\ \A c \in conns : c.pair # <<p.src, p.dst>> /\ c.agent # p.dst
       \/ r = s
  BY TransTCPDoes DEF r
<1>11. Fitting(p, Ping(UDP(TCP(r))))
  BY <1>3, <1>4, <1>5, <1>6, <1>8, <1>9, <1>10
<1> QED BY <1>11 DEF r

\* Neither TransTCP nor TCP touches any other packet, and UDP or Ping sends it back.
LEMMA OtherHandled ==
  ASSUME NEW p, Fields(p), p.proto \in {"udp", "icmp"}, NEW how,
         NEW s, Shape(s), s.p = p, s.out = <<>>
  PROVE  Fitting(p, Ping(UDP(TCP(TransTCP(s, how)))))
<1>1. TransTCP(s, how) = s /\ TCP(s) = s
  BY DEF TransTCP, TCP
<1>2. ASSUME NEW q, q.src = p.dst, q.dst = p.src
      PROVE  Fitting(p, Send(s, q))
  <2>1. Send(s, q).out = <<q>>
    BY DEF Send, Shape
  <2> QED BY <1>2, <2>1, Fits
<1>3. Fitting(p, s)
  BY DEF Fitting
<1>4. CASE p.proto = "udp"
  <2> DEFINE q == Packet("udp", p.dst, p.src, {})
  <2>1. q.src = p.dst /\ q.dst = p.src /\ q.proto = "udp"
    BY DEF Packet
  <2>2. UDP(s) = s \/ UDP(s) = Send(s, q)
    BY DEF UDP
  <2> HIDE DEF q
  <2>3. Send(s, q).p = q
    BY DEF Send, Shape
  <2>4. Ping(UDP(s)) = UDP(s)
    BY <1>4, <2>1, <2>2, <2>3 DEF Ping
  <2> QED BY <1>1, <1>2, <1>3, <2>1, <2>2, <2>4
<1>5. CASE p.proto = "icmp"
  <2> DEFINE q == [p EXCEPT !.src = p.dst, !.dst = p.src]
  <2>1. q.src = p.dst /\ q.dst = p.src
    BY DEF Fields
  <2>2. UDP(s) = s
    BY <1>5 DEF UDP
  <2>3. Ping(s) = Send(s, q)
    BY <1>5 DEF Ping, Reflected
  <2> HIDE DEF q
  <2> QED BY <1>1, <1>2, <2>1, <2>2, <2>3
<1> QED BY <1>4, <1>5

\* Whatever arrives has one handler (OneHandler): the protocols that see a packet
\* which another has answered or sent on leave it alone, and no server's reset goes
\* to a connection of TransTCP.
THEOREM HandledOnce == Spec => []OneHandler
<1>1. IInv /\ [Next]_vars => IInv'
  BY StepHolds
<1>2. IInv => OneHandler
  <2> SUFFICES ASSUME IInv, NEW p \in Arriving, NEW how \in Handlings
               PROVE  Fitting(p, Dispatch(p, how))
    BY DEF OneHandler
  <2> DEFINE s == [conns |-> conns, agentAddr |-> agentAddr, maxCount |-> maxCount,
                   served |-> served, p |-> p, out |-> <<>>]
  <2>1. Shape(s) /\ s.p = p /\ s.out = <<>> /\ s.conns = conns
    BY DEF Shape
  <2>2. Dispatch(p, how) = Ping(UDP(TCP(TransTCP(s, how))))
    BY DEF Dispatch
  <2> HIDE DEF s
  <2>3. Fields(p) /\ p.proto \in {"tcp", "udp", "icmp"}
    BY Arrives DEF Fields
  <2> QED BY <2>1, <2>2, <2>3, TcpHandled, OtherHandled
<1> QED BY InitHolds, <1>1, <1>2, PTL DEF Spec
===========================================================================

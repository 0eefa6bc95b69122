----------------------------- MODULE ServerTcp -----------------------------
(***************************************************************************)
(* TransProxy's own TCP, on which the management page is served:           *)
(* TcpConnection and the table TCP finds it in, for one connection.  Each  *)
(* function of the class is an operator from the connection before it to   *)
(* the connection after it; out collects the packets sent on the way.      *)
(* HttpServer makes actions of them.                                       *)
(*                                                                         *)
(* Sequence numbers are counted from the initial ones, so that byte k of a *)
(* stream has number k; the code only compares and subtracts them.  The    *)
(* ring buffers are bounded sequences of bytes, each the number of its     *)
(* place in its stream.  Timers are set or not: one that is set may run    *)
(* out at any time.                                                        *)
(***************************************************************************)
EXTENDS Integers, Sequences

CONSTANTS
  RingSize,  \* bytes that each ring buffer holds
  SegSize,   \* bytes of data in a packet
  MaxTries   \* how often a packet of the handshakes is sent

ASSUME ServerTcpAssumption ==
  RingSize \in Nat \ {0} /\ SegSize \in Nat \ {0} /\ MaxTries \in Nat \ {0}

States == {"NONE", "LISTEN", "SYN_RECV", "ESTABLISHED", "LAST_ACK", "FIN_WAIT_1",
           "FIN_WAIT_2", "CLOSING", "CLOSED", "GONE", "CRASHED"}

\* TcpConnection's constructor.
NewConnection ==
  [state |-> "CLOSED", retry |-> 0, localSeq |-> 0, remoteSeq |-> 0, wnd |-> 0,
   inRing |-> <<>>, outRing |-> <<>>, needRecv |-> FALSE, needSend |-> FALSE,
   canRecv |-> FALSE, canSend |-> FALSE, needAck |-> FALSE,
   timer1 |-> FALSE, timer2 |-> FALSE, listener |-> FALSE, out |-> <<>>]

Lower(a, b) == IF a < b THEN a ELSE b

InFree(c) == RingSize - Len(c.inRing)
OutFree(c) == RingSize - Len(c.outRing)

Packet(flags, seq, ack, win, data) ==
  [flags |-> flags, seq |-> seq, ack |-> ack, win |-> win, data |-> data]

Has(p, f) == f \in p.flags

\* sendPacket.
SendPacket(c, flags, offset, data) ==
  LET acks == IF c.needAck \/ data # <<>> THEN {"ACK"} ELSE {} IN
  [c EXCEPT !.needAck = FALSE,
            !.out = Append(@, Packet(flags \cup acks, c.localSeq + offset, c.remoteSeq,
                                     InFree(c), data))]

Goto(c, s) == [c EXCEPT !.state = s, !.timer1 = TRUE]
Begin(c, s) == [Goto(c, s) EXCEPT !.retry = 0]

-----------------------------------------------------------------------------
(* Packets.                                                                 *)

\* TCP::_Server::dispatchPacket, accept and STATE_LISTEN: a SYN makes a connection.
Accept(p) == [Begin(NewConnection, "SYN_RECV") EXCEPT !.remoteSeq = p.seq + 1, !.wnd = p.win]

AcksAll(c, p) == Has(p, "ACK") /\ p.ack = c.localSeq + 1

\* STATE_LAST_ACK and STATE_CLOSING: the own FIN is acknowledged.
Acknowledged(c, p) ==
  IF AcksAll(c, p) THEN [Goto(c, "CLOSED") EXCEPT !.localSeq = @ + 1] ELSE c

\* (A wrong variant: waiting for the other FIN without a timer.)
FinWait1Unarmed(c, p) ==
  IF AcksAll(c, p) THEN [c EXCEPT !.state = "FIN_WAIT_2", !.localSeq = @ + 1, !.timer1 = FALSE]
  ELSE IF Has(p, "FIN") THEN Begin(c, "CLOSING")
  ELSE c

\* STATE_FIN_WAIT_1: an acknowledgement comes before a FIN, so a packet with both
\* is taken for the acknowledgement alone.
FinWait1(c, p) ==
  IF AcksAll(c, p) THEN [Goto(c, "FIN_WAIT_2") EXCEPT !.localSeq = @ + 1]
  ELSE IF Has(p, "FIN") THEN Begin(c, "CLOSING")
  ELSE c

FinWait2(c, p) == IF Has(p, "FIN") THEN Goto(SendPacket(c, {"ACK"}, 0, <<>>), "CLOSED") ELSE c

\* STATE_SYN_RECV: the data of the packet that completes the handshake is dropped.
SynReceived(c, p) ==
  IF AcksAll(c, p) THEN [c EXCEPT !.state = "ESTABLISHED", !.localSeq = @ + 1] ELSE c

\* (A wrong variant: what is acknowledged stays at the front of the ring.)
TakeAckKeeping(c, p) ==
  LET ack == p.ack - c.localSeq IN
  IF ~Has(p, "ACK") \/ ack <= 0 THEN c
  ELSE [c EXCEPT !.localSeq = @ + ack, !.canSend = TRUE]

\* An acknowledgement of data: what it covers leaves the ring.
TakeAck(c, p) ==
  LET ack == p.ack - c.localSeq
      empty == ack >= Len(c.outRing)
  IN IF ~Has(p, "ACK") \/ ack <= 0 THEN c
     ELSE [c EXCEPT !.outRing = SubSeq(@, ack + 1, Len(@)), !.localSeq = @ + ack,
                    !.canSend = @ \/ empty,
                    !.timer1 = @ \/ (empty /\ c.needSend)]

\* Data: as much as the ring takes.
TakeData(c, p) ==
  LET bytes == Lower(Len(p.data), InFree(c)) IN
  IF bytes = 0 THEN c
  ELSE [c EXCEPT !.inRing = @ \o SubSeq(p.data, 1, bytes), !.remoteSeq = @ + bytes,
                 !.canRecv = @ \/ Has(p, "PSH") \/ bytes = InFree(c),
                 !.needAck = TRUE, !.timer1 = TRUE]

\* dispatchPacket, of a connection that exists: the window is taken from every
\* packet, all else from the one that is next in order.
DispatchPacket(c0, p) ==
  LET c == [c0 EXCEPT !.wnd = p.win] IN
  CASE p.seq # c.remoteSeq -> c
    [] p.seq = c.remoteSeq /\ c.state \in {"LAST_ACK", "CLOSING"} -> Acknowledged(c, p)
    [] p.seq = c.remoteSeq /\ c.state = "FIN_WAIT_1" -> FinWait1(c, p)
    [] p.seq = c.remoteSeq /\ c.state = "FIN_WAIT_2" -> FinWait2(c, p)
    [] p.seq = c.remoteSeq /\ c.state \in {"SYN_RECV", "ESTABLISHED", "CLOSED"} ->
         IF Has(p, "FIN") THEN [Begin(c, "LAST_ACK") EXCEPT !.remoteSeq = @ + 1]
         ELSE CASE c.state = "SYN_RECV" -> SynReceived(c, p)
                [] c.state = "ESTABLISHED" -> TakeData(TakeAck(c, p), p)
                [] OTHER -> c

-----------------------------------------------------------------------------
(* Timers.                                                                  *)

\* (A wrong variant: one try too many.)
TriesOver(c, flags) ==
  LET c1 == [c EXCEPT !.retry = @ + 1, !.timer1 = TRUE] IN
  IF c.retry <= MaxTries THEN SendPacket(c1, flags, 0, <<>>)
  ELSE Goto(SendPacket(c1, {"RST"}, 0, <<>>), "CLOSED")

\* A packet of the handshakes is sent again, or given up.
Tries(c, flags) ==
  LET c1 == [c EXCEPT !.retry = @ + 1, !.timer1 = TRUE] IN
  IF c.retry < MaxTries THEN SendPacket(c1, flags, 0, <<>>)
  ELSE Goto(SendPacket(c1, {"RST"}, 0, <<>>), "CLOSED")

\* onTimeout, where it calls nobody; in CLOSING the timer stays unset after a retry.
OnTimeout(c0) ==
  LET c == [c0 EXCEPT !.timer1 = FALSE] IN
  CASE c.state = "SYN_RECV" -> Tries(c, {"SYN", "ACK"})
    [] c.state \in {"LAST_ACK", "FIN_WAIT_1"} -> Tries(c, {"FIN", "ACK"})
    [] c.state = "FIN_WAIT_2" -> Goto(SendPacket(c, {"RST"}, 0, <<>>), "CLOSED")
    [] c.state = "CLOSING" ->
         IF c.retry < MaxTries THEN [Tries(c, {"ACK"}) EXCEPT !.timer1 = FALSE]
         ELSE Tries(c, {"ACK"})
    [] OTHER -> c

\* _send: what lies in the ring from offset on, as far as the window goes, in
\* packets of which the last one pushes; or an acknowledgement that is due.
SendRing(c, offset, bytes) ==
  LET l == Lower(offset + bytes, c.wnd)
      packets == IF l > offset THEN (l - offset + SegSize - 1) \div SegSize ELSE 0
      at(k) == offset + (k - 1) * SegSize
      packet(k) == Packet(IF k = packets THEN {"PSH", "ACK"} ELSE {"ACK"}, c.localSeq + at(k),
                          c.remoteSeq, InFree(c),
                          SubSeq(c.outRing, at(k) + 1, Lower(at(k) + SegSize, l)))
  IN IF packets > 0
     THEN [c EXCEPT !.needAck = FALSE, !.out = @ \o [k \in 1..packets |-> packet(k)]]
     ELSE IF c.needAck THEN SendPacket(c, {}, 0, <<>>) ELSE c

\* (A wrong variant: the second timer is not set again.)
OnTimeout2Once(c0) ==
  LET c == [c0 EXCEPT !.timer2 = FALSE] IN
  IF c.state = "ESTABLISHED" THEN SendRing(c, 0, Len(c.outRing)) ELSE c

\* The second timer: everything that is not acknowledged is sent again.
OnTimeout2(c0) ==
  LET c == [c0 EXCEPT !.timer2 = FALSE] IN
  IF c.state = "ESTABLISHED"
  THEN [SendRing(c, 0, Len(c.outRing)) EXCEPT !.timer2 = TRUE] ELSE c

-----------------------------------------------------------------------------
(* What the listener calls.                                                  *)

Close(c) ==
  LET c1 == [c EXCEPT !.listener = FALSE] IN
  IF c.state \in {"FIN_WAIT_1", "FIN_WAIT_2", "CLOSING"} THEN c1 ELSE Begin(c1, "FIN_WAIT_1")

WaitToRecv(c) ==
  IF c.state = "ESTABLISHED" THEN [c EXCEPT !.needRecv = TRUE, !.timer1 = @ \/ c.canRecv] ELSE c

WaitToSend(c) ==
  IF c.state = "ESTABLISHED" THEN [c EXCEPT !.needSend = TRUE, !.timer1 = @ \/ c.canSend] ELSE c

\* recv, of everything there is.
Recv(c) == IF c.state = "ESTABLISHED" THEN [c EXCEPT !.inRing = <<>>, !.canRecv = FALSE] ELSE c

\* send: data is as much of it as the ring takes.
Send(c, data) ==
  LET c1 == [c EXCEPT !.outRing = @ \o data, !.canSend = @ /\ Len(data) < OutFree(c)] IN
  IF c.state # "ESTABLISHED" THEN c
  ELSE IF data = <<>> THEN c1
  ELSE [SendRing(c1, Len(c.outRing), Len(data)) EXCEPT !.timer2 = TRUE]
===========================================================================

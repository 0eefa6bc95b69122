------------------------------ MODULE Tunnel ------------------------------
(***************************************************************************)
(* A transparent connection between a client and the upstream proxy: what  *)
(* TransConnection sends is added to what it does, and both ends are TCP   *)
(* endpoints with a stream each.  The client believes it talks to the      *)
(* server; the proxy sees a request, answers it, and then carries the two  *)
(* streams.  Sequence spaces are spliced by adding and subtracting the     *)
(* lengths of the request and of the answer.                               *)
(*                                                                         *)
(* The endpoints are not part of the repository.  They are what any TCP    *)
(* is: whatever they have sent may be lost, repeated or arrive late, so an *)
(* endpoint is the set of packets it may have sent so far, and a packet    *)
(* TransProxy sends is received or lost.  Bounds: one lifetime of one      *)
(* connection; an endpoint repeats a SYN only until the handshake is       *)
(* through, and sends no data into a closed window.                        *)
(***************************************************************************)
EXTENDS TransConnection, SequencesExt

CONSTANTS
  Bytes,         \* what a byte can be
  Reply,         \* the proxy's answer, as a sequence of bytes
  ClientStream,  \* what the client has to say
  ServerStream,  \* what the server has to say
  ClientISN, ProxyISN,
  Coalesce       \* may the proxy append server bytes to a segment of its answer?

\* The bytes TransProxy itself writes: position i of each request it commits.
Request ==
  [i \in 1..(IF AuthKind = "http" THEN ReqLen ELSE GreetLen + ReqLen) |-> <<"request", i>>]

\* The answer outlasts its first part, the greeting's reply, and connection data
\* is short of half the sequence space, as TCP's windows see to.
ASSUME TunnelAssumption ==
  /\ {Request, Reply, ClientStream, ServerStream} \subseteq Seq(Bytes)
  /\ Reply # <<>>
  /\ AuthKind = "sock5" => GreetReply < Len(Reply)
  /\ ClientISN \in 0..(SeqWrap - 1) /\ ProxyISN \in 0..(SeqWrap - 1)
  /\ Coalesce \in BOOLEAN
  /\ 2 * (Len(Request) + Len(Reply) + Len(ClientStream) + Len(ServerStream) + 3) < SeqWrap

VARIABLES
  opened,     \* the client has sent its SYN
  client,     \* the client's endpoint
  proxy       \* the proxy's endpoint

tunnelVars == <<vars, opened, client, proxy>>

\* An endpoint: connected or not; the bytes received in order; whether a FIN
\* ended them; how far its own stream is acknowledged; whether the window it was
\* last offered is open.
Endpoint(got, finGot, acked) ==
  [up : BOOLEAN, got : got, finGot : finGot, acked : acked, wnd : BOOLEAN]

Silent == [up |-> FALSE, got |-> <<>>, finGot |-> FALSE, acked |-> 0, wnd |-> FALSE]

ClientBase == Plus(ClientISN, 1)
ProxyBase == Plus(ProxyISN, 1)

-----------------------------------------------------------------------------
(* What TransProxy sends.                                                   *)

Segment(seq, ack, flags, win, data) ==
  [seq |-> seq, ack |-> ack, flags |-> flags, win |-> win, data |-> data,
   len |-> Len(data)]

\* (A wrong variant: the handshake is forwarded as it is.)
WindowKept(p) == p

\* The handshake is forwarded with the window closed.
Windowless(p) == [p EXCEPT !.win = 0]

\* (A wrong variant: the client's bytes are moved by one too few.)
TransferOutShort(from, p) ==
  IF from = "client"
  THEN [p EXCEPT !.seq = Plus(p.seq, outTotal - 1), !.ack = Plus(p.ack, inTotal)]
  ELSE [p EXCEPT !.seq = Minus(p.seq, inTotal), !.ack = Minus(p.ack, outTotal)]

\* (A wrong variant: the server's bytes are not moved before the answer.)
TransferOutAnswered(from, p) ==
  IF from = "client"
  THEN [p EXCEPT !.seq = Plus(p.seq, outTotal), !.ack = Plus(p.ack, inTotal)]
  ELSE [p EXCEPT !.ack = Minus(p.ack, outTotal)]

\* (A wrong variant: acknowledgements of the client's bytes count the request.)
TransferOutCounted(from, p) ==
  IF from = "client"
  THEN [p EXCEPT !.seq = Plus(p.seq, outTotal), !.ack = Plus(p.ack, inTotal)]
  ELSE [p EXCEPT !.seq = Minus(p.seq, inTotal)]

\* _transferData: the splice.
TransferOut(from, p) ==
  IF from = "client"
  THEN [p EXCEPT !.seq = Plus(p.seq, outTotal), !.ack = Plus(p.ack, inTotal)]
  ELSE [p EXCEPT !.seq = Minus(p.seq, inTotal), !.ack = Minus(p.ack, outTotal)]

\* What a packet is forwarded as to the other side: nothing while authorizing.
Forwarded(from, p) ==
  IF IsSYN1(from, p) \/ IsSYN2(from, p) \/ IsSYN3(from, p) THEN {Windowless(p)}
  ELSE IF state \in {"ESTABLISHING", "ESTABLISHED", "FIN_WAIT"} THEN {TransferOut(from, p)}
  ELSE {}

\* The request sendAuthRequest sends for authenticator a after out bytes.
AuthRequest(a, out, in) ==
  Segment(Plus(clientSeq, out), Plus(proxySeq, in), {"PSH", "ACK"}, RequestWindow(a),
          IF AuthKind = "sock5" /\ a.stage = 1 THEN SubSeq(Request, 1, GreetLen)
          ELSE SubSeq(Request, Len(Request) - ReqLen + 1, Len(Request)))

\* SOCKS5 sends its second request from within onAuthResponse, behind the
\* greeting it has just committed.
RepliedAuth(from, p) ==
  IF IsAuthReply(from, p) /\ auth.stage = 1 /\ auth'.stage = 2
  THEN {AuthRequest(auth', outTotal', inTotal')} ELSE {}

\* What a timeout sends to each side.
TimeoutToProxy ==
  IF ~CanTry THEN {}
  ELSE CASE state = "AUTH" -> {AuthRequest(auth, outTotal, inTotal)}
         [] state = "ESTABLISHING" ->
              {Segment(Plus(clientSeq, outTotal), Plus(proxySeq, inTotal), {"ACK"}, clientWnd, <<>>)}
         [] state = "CLOSING" /\ ~proxyFin ->
              {Segment(Plus(clientSeq, outTotal), Plus(proxySeq, inTotal), {"FIN", "ACK"}, clientWnd, <<>>)}
         [] OTHER -> {}

TimeoutToClient ==
  IF ~CanTry THEN {}
  ELSE CASE state = "ESTABLISHING" ->
              {Segment(proxySeq, clientSeq, {"ACK"}, proxyWnd, <<>>)}
         [] state = "CLOSING" /\ ~clientFin ->
              {Segment(proxySeq, clientSeq, {"FIN", "ACK"}, proxyWnd, <<>>)}
         [] OTHER -> {}

-----------------------------------------------------------------------------
(* The endpoints (external).                                                *)

\* How much of its stream an endpoint may have sent: what it may send now, which
\* never shrinks before the end.
ClientAllowed == IF client.wnd THEN Len(ClientStream) ELSE 0

\* The proxy answers each request once it has it, and opens the stream after the
\* last.
ProxyAllowed ==
  IF ~proxy.wnd THEN 0
  ELSE IF Len(proxy.got) >= Len(Request) THEN Len(Reply) + Len(ServerStream)
  ELSE IF AuthKind = "sock5" /\ Len(proxy.got) >= GreetLen THEN GreetReply
  ELSE 0

\* Endpoint e takes a segment of the peer whose stream starts at base; its own
\* starts at own and it has sent at most sent of it.  A SYN connects it and
\* carries a window like any other segment; a segment that acknowledges what was
\* never sent is dropped, and so are bytes out of order.
Takes(e, s, base, own, sent) ==
  LET a == Minus(s.ack, own)
      inOrder == s.seq = Plus(base, Len(e.got)) /\ ~e.finGot
      bogus == Has(s, "ACK") /\ a > sent /\ a < SeqWrap \div 2
  IN IF Has(s, "SYN") THEN [e EXCEPT !.up = TRUE, !.wnd = s.win > 0]
     ELSE IF ~e.up \/ bogus THEN e
     ELSE [e EXCEPT
             !.got = IF inOrder THEN @ \o s.data ELSE @,
             !.finGot = @ \/ (inOrder /\ Has(s, "FIN")),
             !.acked = IF a < SeqWrap \div 2 /\ a > @ THEN a ELSE @,
             !.wnd = s.win > 0]

\* What is sent to a side is received or lost.
Reaches(toClient, toProxy) ==
  /\ \/ UNCHANGED client
     \/ \E s \in toClient :
          client' = Takes(client, s, ProxyBase, ClientBase, ClientAllowed + 1)
  /\ \/ UNCHANGED proxy
     \/ \E s \in toProxy :
          proxy' = Takes(proxy, s, ClientBase, ProxyBase,
                         IF ProxyAllowed = 0 THEN 0 ELSE ProxyAllowed + 1)

Received(e) == Len(e.got) + (IF e.finGot THEN 1 ELSE 0)

\* Everything an endpoint with that stream may have sent, given how much of it it
\* was allowed to send: bytes i+1..j, acknowledging r bytes, and the FIN.
Sent(e, stream, allowed, own, base) ==
  {Segment(Plus(own, i), Plus(base, r), {"ACK"}, 1, SubSeq(stream, i + 1, j)) :
     i \in 0..allowed, j \in 0..allowed, r \in 0..Received(e)}
  \cup
  {Segment(Plus(own, Len(stream)), Plus(base, r), {"FIN", "ACK"}, 1, <<>>) :
     r \in IF allowed = Len(stream) THEN 0..Received(e) ELSE {}}

\* What the proxy has of the client's stream.
Delivered == IF Received(proxy) > Len(Request) THEN Received(proxy) - Len(Request) ELSE 0

ClientPackets ==
  IF ~client.up
  THEN IF opened /\ state \in {"NONE", "CLOSED"} THEN {}
       ELSE {Segment(ClientISN, 0, {"SYN"}, 1, <<>>)}
  ELSE Sent(client, ClientStream, ClientAllowed, ClientBase, ProxyBase)

ProxyPackets ==
  LET stream == Reply \o ServerStream
      whole(s) == LET i == Minus(s.seq, ProxyBase) IN
                  Coalesce \/ ~(i < Len(Reply) /\ i + s.len > Len(Reply))
  IN IF ~proxy.up THEN {}
     ELSE (IF proxy.got = <<>> THEN {Segment(ProxyISN, ClientBase, {"SYN", "ACK"}, 1, <<>>)}
           ELSE {})
          \cup {s \in Sent(proxy, stream, ProxyAllowed, ProxyBase, ClientBase) : whole(s)}

\* The authenticator accepts exactly when the answer is complete.
Honest ==
  state = "AUTH" /\ state' # "CLOSING" =>
    (state' = "ESTABLISHING" <=> inTotal' >= Len(Reply))

-----------------------------------------------------------------------------
TunnelInit == Init /\ opened = FALSE /\ client = Silent /\ proxy = Silent

ServeClient ==
  /\ \E p \in ClientPackets :
       /\ ServePacket("client", p)
       /\ Reaches({}, Forwarded("client", p))
  /\ opened' = TRUE

ServeProxy ==
  /\ \E p \in ProxyPackets :
       /\ ServePacket("proxy", p)
       /\ Honest
       /\ Reaches(Forwarded("proxy", p), RepliedAuth("proxy", p))
  /\ UNCHANGED opened

ServeTimeout ==
  /\ ServeTimer
  /\ Reaches(TimeoutToClient, TimeoutToProxy)
  /\ UNCHANGED opened

Loop == (Expire \/ Poll) /\ UNCHANGED <<opened, client, proxy>>

TunnelNext == ServeClient \/ ServeProxy \/ ServeTimeout \/ Loop

TunnelSpec == TunnelInit /\ [][TunnelNext]_tunnelVars

-----------------------------------------------------------------------------
(* Properties.                                                              *)

\* The proxy is sent the request and then the client's bytes, each once and in
\* order: nothing of the client overtakes the request, nothing is shifted by it
\* (the offsets of _transferData against commitAuthRequest).
ProxyHearsRequestThenClient == IsPrefix(proxy.got, Request \o ClientStream)

\* The client is sent the server's bytes and none of the proxy's answer, each once
\* and in order (what _authDispatchPacket takes out against _transferData).
ClientHearsServer == IsPrefix(client.got, ServerStream)

\* An acknowledgement means what it says across the splice: no side is told that
\* bytes arrived which the other side has not taken, the answer excepted, which
\* TransProxy has taken itself.
EndToEndAcks ==
  /\ client.acked <= Delivered
  /\ proxy.acked <= Len(Reply) + Received(client)

\* The client is offered no window before the proxy has granted the tunnel, which
\* is why dropping its packets while authorizing loses none of its bytes.
WindowGate ==
  state \in {"SYN_SENT", "SYN_RECEIVED", "AUTH"} => ~client.wnd

\* The counters of the management page never claim a byte that did not arrive (a
\* FIN counts as one).
CountsHonest ==
  /\ downBytes <= Received(client)
  /\ upBytes <= Delivered
===========================================================================

---------------------------- MODULE HttpServer ----------------------------
(***************************************************************************)
(* The management page's HTTP server on its TCP: HttpServerConnection as   *)
(* the listener of a ServerTcp connection, and a browser at the other end. *)
(* A response that the ring does not take at once is sent from within the  *)
(* callback that got the request: _send runs the loop until the ring has   *)
(* taken all of it, so packets and timers of the same connection are       *)
(* served in the middle of it.                                             *)
(*                                                                         *)
(* The browser is not part of the repository: what it has sent may be      *)
(* lost, repeated or late, it keeps to the window, sends a request only    *)
(* when the one before is answered, and may end its stream at any moment,  *)
(* in the middle of a request or of a response too.  What the server sends *)
(* is received in order or lost.  Bounds: one connection, Requests of      *)
(* given lengths.                                                          *)
(***************************************************************************)
EXTENDS ServerTcp

CONSTANTS
  Requests,   \* the length of each request
  Responses,  \* the length of each response
  HeaderLen,  \* the length of a request's header
  LastKinds,  \* how the last response may end: "keep" or "close"
  Windows     \* windows that the browser offers

ASSUME HttpServerAssumption ==
  /\ Requests \in Seq(Nat) /\ Responses \in Seq(Nat) /\ HeaderLen \in Nat \ {0}
  /\ Len(Requests) = Len(Responses) /\ Requests # <<>>
  /\ \A n \in DOMAIN Requests : Requests[n] >= HeaderLen /\ Responses[n] > 0
  /\ LastKinds \subseteq {"keep", "close"}
  /\ Windows \subseteq Nat /\ \E w \in Windows : w > 0

VARIABLES
  conn,     \* the connection
  http,     \* its listener
  client,   \* the browser's end
  kind      \* how the last response ends

vars == <<conn, http, client, kind>>

Total(lens, n) ==
  LET sum[k \in 0..Len(lens)] == IF k = 0 THEN 0 ELSE sum[k - 1] + lens[k] IN sum[n]

\* The listener: the request's bytes so far, how many requests it has got, what is
\* left of the response, bytes of responses written, and whether the loop has made
\* a pass since _send last tried.
Listener ==
  [state : {"-", "REQUEST_HEADER", "REQUEST_CONTENT", "RESPONSE"}, request : Seq(Nat),
   number : 0..Len(Requests), todo : Nat, written : Nat, passed : BOOLEAN]

NoListener == [state |-> "-", request |-> <<>>, number |-> 0, todo |-> 0, written |-> 0,
               passed |-> FALSE]

TypeOK ==
  /\ conn.state \in States
  /\ conn.retry \in 0..(MaxTries + 1)
  /\ Len(conn.inRing) <= RingSize /\ Len(conn.outRing) <= RingSize
  /\ conn.out = <<>>
  /\ http \in Listener
  /\ http.state = "-" <=> ~conn.listener
  /\ kind \in LastKinds

Init ==
  /\ conn = [NewConnection EXCEPT !.state = "NONE"]
  /\ http = NoListener
  /\ client = [up |-> FALSE, heard |-> <<>>, acked |-> 0, edge |-> 0, fin |-> FALSE,
               closed |-> FALSE, end |-> 0]
  /\ kind \in LastKinds

-----------------------------------------------------------------------------
(* The browser.                                                              *)

\* How many requests are answered, and how many bytes it may have sent.
Answered == CHOOSE n \in 0..Len(Requests) :
  /\ Len(client.heard) >= Total(Responses, n)
  /\ \A m \in (n + 1)..Len(Requests) : Len(client.heard) < Total(Responses, m)

\* A closed window is probed with one byte.
Allowed == Lower(IF client.edge > client.acked THEN client.edge ELSE client.acked + 1,
                 Total(Requests, Lower(Answered + 1, Len(Requests))))

Labels(i, j) == [k \in 1..(j - i) |-> i + k]

Heard == Len(client.heard) + (IF client.fin THEN 1 ELSE 0)

\* Data up to j, next in order for the server; the end of a request is pushed.
Data(j, r, w) ==
  LET i == conn.remoteSeq - 1
      pushes == j > i /\ \E n \in DOMAIN Requests : j = Total(Requests, n)
  IN Packet(IF pushes THEN {"PSH", "ACK"} ELSE {"ACK"}, i + 1, 1 + r, w, Labels(i, j))

Late(r, w) == Packet({"ACK"}, 1, 1 + r, w, <<>>)

Fin(r, w) == Packet({"FIN", "ACK"}, client.end + 1, 1 + r, w, <<>>)

\* After its own FIN the browser only acknowledges.
LastAck(r, w) == Packet({"ACK"}, client.end + 2, 1 + r, w, <<>>)

\* What may arrive from the browser: of a late segment only the window is taken.
ClientPackets ==
  IF ~client.up THEN {}
  ELSE UNION {(IF client.closed THEN {Fin(r, w), LastAck(r, w)}
               ELSE {Data(j, r, w) : j \in (conn.remoteSeq - 1)..Allowed})
              \cup (IF conn.remoteSeq > 1 THEN {Late(r, w)} ELSE {})
              : r \in 0..Heard, w \in Windows}

\* The browser takes a packet that reaches it.
Takes(e, p) ==
  LET next == 1 + Len(e.heard) IN
  IF Has(p, "SYN") THEN [e EXCEPT !.up = TRUE, !.edge = p.win]
  ELSE [e EXCEPT
          !.heard = IF p.seq = next /\ ~e.fin THEN @ \o p.data ELSE @,
          !.fin = @ \/ (Has(p, "FIN") /\ p.seq = next),
          !.acked = IF Has(p, "ACK") /\ p.ack - 1 > @ THEN p.ack - 1 ELSE @,
          !.edge = IF Has(p, "ACK") /\ p.ack - 1 + p.win > @ THEN p.ack - 1 + p.win ELSE @]

\* The packets sent in a step reach the browser, the first n of them, or are lost.
Reaches(c, n) ==
  LET after[k \in 0..n] == IF k = 0 THEN client ELSE Takes(after[k - 1], c.out[k]) IN
  /\ client' = after[n]
  /\ conn' = [c EXCEPT !.out = <<>>]

Sends(c) == \E d \in {c} : \E n \in 0..Len(d.out) : Reaches(d, n)

\* The browser ends its stream, whatever it waits for.  What it sent before has
\* arrived: until then its FIN is out of order, and does no more than Late does.
Closes ==
  /\ client.up /\ ~client.closed /\ conn.state \notin {"GONE", "CRASHED"}
  /\ client' = [client EXCEPT !.closed = TRUE, !.end = conn.remoteSeq - 1]
  /\ UNCHANGED <<conn, http, kind>>

-----------------------------------------------------------------------------
(* HttpServerConnection.                                                    *)

Closing(n) == n = Len(Requests) /\ kind = "close"

\* The rest of onTimeout, once the listener's callback is back.  When that has closed
\* the connection there is no listener any more to tell of free space in the ring:
\* the process dies of it.
Returns(c) ==
  IF c.needSend /\ c.canSend /\ ~c.listener
  THEN Reaches([NewConnection EXCEPT !.state = "CRASHED", !.out = c.out], Len(c.out))
  ELSE Sends([c EXCEPT !.needSend = @ /\ ~c.canSend])

\* _send: what is left is written as far as the ring takes it.  When all of it is,
\* the callback goes on: _reset, or, after a response without a length, the end.
\* h is the listener as the request left it.  When the browser has closed, nothing is
\* taken any more and _send turns on, until the connection is deleted under it.
WriteOn(c, h) ==
  LET n == IF c.state = "ESTABLISHED" THEN Lower(h.todo, OutFree(c)) ELSE 0
      h1 == [h EXCEPT !.todo = @ - n, !.written = @ + n, !.passed = FALSE]
  IN \E c1 \in {Send(c, Labels(h.written, h.written + n))} :
       IF n < h.todo THEN Sends(WaitToSend(c1)) /\ http' = h1
       ELSE IF Closing(h.number) THEN Returns(Close(c1)) /\ http' = NoListener
       ELSE /\ Returns(WaitToRecv(c1))
            /\ http' = [h1 EXCEPT !.state = "REQUEST_HEADER", !.request = <<>>]

\* onTcpToRecv: bytes are added to the request; once it is whole it is answered.
OnTcpToRecv(c0) ==
  LET c == Recv(c0)
      request == http.request \o c0.inRing
      h == [http EXCEPT !.request = request, !.number = @ + 1, !.state = "RESPONSE"]
  IN IF Len(request) = Requests[http.number + 1]
     THEN WriteOn(c, [h EXCEPT !.todo = Responses[h.number]])
     ELSE /\ Returns(WaitToRecv(c))
          /\ http' = [http EXCEPT !.request = request,
                        !.state = IF Len(request) >= HeaderLen THEN "REQUEST_CONTENT" ELSE @]

-----------------------------------------------------------------------------
(* The loop.                                                                 *)

\* While a response is being sent, what is served is served by a nested pass.
Passed == http' = [http EXCEPT !.passed = http.state = "RESPONSE"]

Connects ==
  /\ conn.state = "NONE"
  /\ Sends(Accept(Packet({"SYN"}, 0, 0, CHOOSE w \in Windows : w > 0, <<>>)))
  /\ UNCHANGED <<http, kind>>

\* A packet of the browser; the one that completes the handshake makes a listener.
Serve(p) ==
  /\ conn.state \notin {"NONE", "GONE", "CRASHED"}
  /\ \E c \in {DispatchPacket(conn, p)} :
       IF conn.state = "SYN_RECV" /\ c.state = "ESTABLISHED"
       THEN /\ Sends(WaitToRecv([c EXCEPT !.listener = TRUE]))
            /\ http' = [NoListener EXCEPT !.state = "REQUEST_HEADER"]
       ELSE Sends(c) /\ Passed
  /\ UNCHANGED kind

ServePacket == \E p \in ClientPackets : Serve(p)

ServeTimer1 ==
  /\ conn.timer1 /\ conn.state \notin {"ESTABLISHED", "CLOSED", "NONE", "GONE", "CRASHED"}
  /\ Sends(OnTimeout(conn)) /\ Passed
  /\ UNCHANGED kind

\* (A wrong variant: the listener's wish to read is kept.)
ServeTimer1EstablishedAgain ==
  LET c == [conn EXCEPT !.timer1 = FALSE] IN
  /\ conn.timer1 /\ conn.state = "ESTABLISHED"
  /\ IF c.needRecv /\ c.canRecv THEN OnTcpToRecv(c)
     ELSE Returns(c) /\ Passed
  /\ UNCHANGED kind

\* STATE_ESTABLISHED: the listener is told what it waits for.  (onTcpToSend does
\* nothing.)
ServeTimer1Established ==
  LET c == [conn EXCEPT !.timer1 = FALSE] IN
  /\ conn.timer1 /\ conn.state = "ESTABLISHED"
  /\ IF c.needRecv /\ c.canRecv THEN OnTcpToRecv([c EXCEPT !.needRecv = FALSE])
     ELSE Returns(c) /\ Passed
  /\ UNCHANGED kind

\* STATE_CLOSED: the listener, if there is one, and the connection are deleted.  In the
\* middle of a response _send goes on with both of them: what follows is undefined,
\* and nothing is said of it.
ServeTimer1Closed ==
  /\ conn.timer1 /\ conn.state = "CLOSED"
  /\ conn' = [NewConnection EXCEPT !.state = IF http.state = "RESPONSE" THEN "CRASHED" ELSE "GONE"]
  /\ http' = NoListener
  /\ UNCHANGED <<client, kind>>

ServeTimer2 ==
  /\ conn.timer2
  /\ Sends(OnTimeout2(conn)) /\ Passed
  /\ UNCHANGED kind

\* The nested pass returns to _send.
SendOn ==
  /\ http.passed
  /\ WriteOn(conn, http)
  /\ UNCHANGED kind

Timer1 == ServeTimer1 \/ ServeTimer1Established \/ ServeTimer1Closed

Next == Connects \/ ServePacket \/ Timer1 \/ ServeTimer2 \/ SendOn \/ Closes

\* The browser's latest segment arrives in the end, and so does what the second
\* timer repeats: a network may lose packets, but not all of them.
Newest ==
  LET w == CHOOSE w \in Windows : \A v \in Windows : v <= w IN
  IF client.closed THEN Fin(Heard, w) ELSE Data(Allowed, Heard, w)

Latest ==
  /\ client.up /\ (client.closed \/ Allowed >= conn.remoteSeq - 1)
  /\ \E p \in {Newest} : Serve(p)

RepeatArrives ==
  /\ conn.timer2
  /\ \E c \in {OnTimeout2(conn)} : Reaches(c, Len(c.out))
  /\ Passed
  /\ UNCHANGED kind

Fairness ==
  /\ WF_vars(Timer1) /\ WF_vars(SendOn)
  /\ SF_vars(Latest) /\ SF_vars(RepeatArrives)

Spec == Init /\ [][Next]_vars /\ Fairness

-----------------------------------------------------------------------------
(* Properties.                                                              *)

\* Both streams arrive as they were sent, each byte once and in order, over loss,
\* repetition, partial acceptance, retransmission from the ring and requests and
\* responses longer than it; and nobody is told that a byte arrived that did not.
StreamsIntact ==
  LET before == Total(Requests, http.number)
                - (IF http.state = "RESPONSE" THEN Len(http.request) ELSE 0)
      in == http.request \o conn.inRing
  IN /\ client.heard = Labels(0, Len(client.heard))
     /\ http.state # "-" => in = Labels(before, before + Len(in))
     /\ conn.state \in {"ESTABLISHED", "LAST_ACK"} /\ http.state # "-" =>
          /\ conn.outRing = Labels(conn.localSeq - 1, http.written)
          /\ client.acked <= before + Len(in) + (IF conn.state = "LAST_ACK" THEN 1 ELSE 0)

\* While _send runs the loop inside a callback, nothing but the browser's own FIN
\* disturbs it: until there is one the connection stays established and its listener
\* is not called for more, so neither is it deleted under the callback nor does
\* "received HTTP request data while response" throw.  And the process dies in no
\* other way than of such a FIN or of a response that ends by closing.
ResponseUndisturbed ==
  /\ http.state = "RESPONSE" /\ ~client.closed =>
       conn.state = "ESTABLISHED" /\ ~conn.needRecv /\ conn.listener /\ http.todo > 0
  /\ conn.state = "CRASHED" => client.closed \/ kind = "close"

\* In every state but CLOSING a connection that nobody serves is timed: it cannot
\* stay for ever, with its rings, its two timers and its place in the table.
TimerArmed ==
  conn.state \in {"SYN_RECV", "LAST_ACK", "FIN_WAIT_1", "FIN_WAIT_2", "CLOSED"} => conn.timer1

\* The browser has not been told of data that the server took, and no acknowledgement
\* is due: repeated data is out of order, and so it is not acknowledged again.
AckLost == conn.state = "ESTABLISHED" /\ ~conn.needAck /\ client.acked < conn.remoteSeq - 1

\* An established connection answers every request whole, unless the browser ends its
\* stream before; the last one is excepted when the server ends it by closing: what the
\* ring then still holds is not sent again.  The first request must fit the ring, as
\* nothing is acknowledged before the first response; and a lost acknowledgement may
\* stop it for good.
EveryAnswer ==
  \/ conn.state = "ESTABLISHED" ~>
       \/ Len(client.heard) >= Total(Responses, IF kind = "keep" THEN Len(Requests)
                                                ELSE Len(Requests) - 1)
       \/ client.closed
  \/ <>[]AckLost
===========================================================================

--------------------------- MODULE Tunnel_proofs ---------------------------
(***************************************************************************)
(* Proofs about the tunnel, for every sequence space, every initial        *)
(* number, every request, answer and pair of streams that leave room in    *)
(* the sequence space (TunnelAssumption), both authenticators, and any     *)
(* loss, repetition, reordering and cutting of segments.                   *)
(*                                                                         *)
(* Every number on the wire is read as an offset from where its stream     *)
(* starts; offsets are shorter than half the sequence space, so that the   *)
(* 32-bit sums of the splice are sums of offsets.  A segment Fits when it  *)
(* carries bytes where they belong and acknowledges no more than has been  *)
(* received, and what is sent to either side fits.  The invariant adds to  *)
(* the properties what the totals are in each state (Asked), whose numbers *)
(* are known (Numbers), that there is one client and one lifetime          *)
(* (Lifetime), and that a connection which closes before its SYN was       *)
(* answered has counted nothing (Unanswered).                              *)
(*                                                                         *)
(* The theorems assume ~Coalesce: a proxy that appends bytes of the server *)
(* to a segment of its own answer has them counted as the answer's, which  *)
(* the code does not handle.                                               *)
(***************************************************************************)
EXTENDS Tunnel, TransConnection_proofs

-----------------------------------------------------------------------------
(* Sequence numbers as offsets from the start of a stream.                   *)

\* More than any offset into a stream, and at most half the sequence space.
Span == Len(Request) + Len(Reply) + Len(ClientStream) + Len(ServerStream) + 3

Half == SeqWrap \div 2

\* A request has at least one byte and the streams have lengths (TunnelAssumption).
LEMMA Lengths ==
  /\ Request \in Seq(Bytes) /\ Reply \in Seq(Bytes)
  /\ ClientStream \in Seq(Bytes) /\ ServerStream \in Seq(Bytes)
  /\ Len(Request) = IF AuthKind = "http" THEN ReqLen ELSE GreetLen + ReqLen
  /\ Len(Request) \in Nat \ {0} /\ Len(Reply) \in Nat \ {0}
  /\ Len(ClientStream) \in Nat /\ Len(ServerStream) \in Nat
<1>1. /\ Request \in Seq(Bytes) /\ Reply \in Seq(Bytes)
      /\ ClientStream \in Seq(Bytes) /\ ServerStream \in Seq(Bytes)
  BY TunnelAssumption
<1> DEFINE n == IF AuthKind = "http" THEN ReqLen ELSE GreetLen + ReqLen
<1>2. n \in Nat \ {0}
  BY AuthAssumption
<1> HIDE DEF n
<1>3. Len([i \in 1..n |-> <<"request", i>>]) = n
  BY <1>2
<1>4. Len(Request) = n
  BY <1>3 DEF Request, n
<1>5. Reply # <<>>
  BY TunnelAssumption
<1>6. Len(Reply) \in Nat \ {0}
  BY <1>1, <1>5
<1>7. Len(ClientStream) \in Nat /\ Len(ServerStream) \in Nat
  BY <1>1
<1> QED BY <1>1, <1>2, <1>4, <1>6, <1>7 DEF n

\* All connection data is short of half the sequence space.
LEMMA Room ==
  /\ SeqWrap \in Nat \ {0} /\ Span \in Nat /\ Half \in Nat
  /\ 2 * Span < SeqWrap /\ Span <= Half /\ 2 * Half <= SeqWrap /\ 3 <= Span
<1>1. Span \in Nat /\ 3 <= Span
  BY Lengths DEF Span
<1>2. 2 * Span < SeqWrap
  BY TunnelAssumption DEF Span
<1>3. SeqWrap \in Nat \ {0}
  BY SeqAssumption
<1> HIDE DEF Span
<1>4. Half \in Nat /\ 2 * Half <= SeqWrap /\ SeqWrap <= 2 * Half + 1
  BY <1>3 DEF Half
<1> QED BY <1>1, <1>2, <1>3, <1>4

\* A remainder by hand, one turn of the sequence space to either side.
LEMMA Turns ==
  ASSUME NEW n \in Nat \ {0}, NEW p \in Int
  PROVE  /\ 0 <= p /\ p < n => p % n = p
         /\ n <= p /\ p < 2 * n => p % n = p - n
         /\ -n <= p /\ p < 0 => p % n = p + n
OBVIOUS

\* An offset a stream can reach, or how far it lies before the stream.
Near == (-Span)..Span

LEMMA PlusIs ==
  ASSUME NEW b \in SeqNo, NEW x \in Near
  PROVE  /\ Plus(b, x) \in SeqNo /\ Minus(b, x) \in SeqNo /\ Minus(b, x) = Plus(b, -x)
         /\ Plus(b, x) = IF b + x < 0 THEN b + x + SeqWrap
                         ELSE IF b + x < SeqWrap THEN b + x ELSE b + x - SeqWrap
<1>1. b \in Int /\ x \in Int /\ b + x \in Int /\ 0 <= b /\ b < SeqWrap /\ -Span <= x /\ x <= Span
  BY Room DEF Near, SeqNo
<1>2. -SeqWrap <= b + x /\ b + x < 2 * SeqWrap
  BY <1>1, Room
<1>3. Plus(b, x) = IF b + x < 0 THEN b + x + SeqWrap
                   ELSE IF b + x < SeqWrap THEN b + x ELSE b + x - SeqWrap
  <2> DEFINE p == b + x
  <2>1. /\ 0 <= p /\ p < SeqWrap => p % SeqWrap = p
        /\ SeqWrap <= p /\ p < 2 * SeqWrap => p % SeqWrap = p - SeqWrap
        /\ -SeqWrap <= p /\ p < 0 => p % SeqWrap = p + SeqWrap
    BY <1>1, Room, Turns
  <2>2. p \in Int /\ -SeqWrap <= p /\ p < 2 * SeqWrap
    BY <1>1, <1>2
  <2> HIDE DEF p
  <2>3. p % SeqWrap = IF p < 0 THEN p + SeqWrap
                      ELSE IF p < SeqWrap THEN p ELSE p - SeqWrap
    BY <2>1, <2>2, Room
  <2>4. Plus(b, x) = p % SeqWrap
    BY DEF p, Plus
  <2>5. p = b + x
    BY DEF p
  <2> HIDE DEF Plus
  <2> QED BY <1>1, <2>2, <2>3, <2>4, <2>5, Room
<1>4. b - x = b + (-x)
  BY <1>1
<1> QED BY <1>1, <1>3, <1>4, SeqArithmetic DEF Plus, Minus

\* Offsets add up across the splice (_transferData).
LEMMA PlusPlus ==
  ASSUME NEW b \in SeqNo, NEW x \in Near, NEW y \in Near, x + y \in Near
  PROVE  Plus(Plus(b, x), y) = Plus(b, x + y)
<1>1. /\ b \in Int /\ x \in Int /\ y \in Int /\ 0 <= b /\ b < SeqWrap
      /\ -Span <= x /\ x <= Span /\ -Span <= y /\ y <= Span
      /\ -Span <= x + y /\ x + y <= Span
  BY Room DEF Near, SeqNo
<1>2. Plus(b, x) \in SeqNo
  BY PlusIs
<1> DEFINE c == Plus(b, x)
<1>3. c = IF b + x < 0 THEN b + x + SeqWrap
          ELSE IF b + x < SeqWrap THEN b + x ELSE b + x - SeqWrap
  BY PlusIs
<1>4. Plus(c, y) = IF c + y < 0 THEN c + y + SeqWrap
                   ELSE IF c + y < SeqWrap THEN c + y ELSE c + y - SeqWrap
  BY <1>2, PlusIs
<1>5. Plus(b, x + y) = IF b + (x + y) < 0 THEN b + (x + y) + SeqWrap
                       ELSE IF b + (x + y) < SeqWrap THEN b + (x + y) ELSE b + (x + y) - SeqWrap
  BY PlusIs
<1>6. c \in Int /\ 0 <= c /\ c < SeqWrap
  BY <1>2, Room DEF SeqNo
<1>7. Plus(c, y) \in SeqNo /\ Plus(b, x + y) \in SeqNo
  BY <1>2, PlusIs
<1>8. /\ Plus(c, y) \in Int /\ 0 <= Plus(c, y) /\ Plus(c, y) < SeqWrap
      /\ Plus(b, x + y) \in Int /\ 0 <= Plus(b, x + y) /\ Plus(b, x + y) < SeqWrap
  BY <1>7, Room DEF SeqNo
<1> HIDE DEF c
<1> QED BY <1>1, <1>3, <1>4, <1>5, <1>6, <1>8, Room DEF c

LEMMA MinusPlus ==
  ASSUME NEW b \in SeqNo, NEW x \in Near, NEW y \in Near, x - y \in Near
  PROVE  Minus(Plus(b, x), y) = Plus(b, x - y)
<1>1. Plus(b, x) \in SeqNo
  BY PlusIs
<1>2. x \in Int /\ y \in Int /\ -Span <= y /\ y <= Span
  BY Room DEF Near
<1>3. -y \in Near /\ x + (-y) = x - y
  BY <1>2, Room DEF Near
<1>4. Minus(Plus(b, x), y) = Plus(Plus(b, x), -y)
  BY <1>1, PlusIs
<1> QED BY <1>3, <1>4, PlusPlus

\* The difference of two offsets: small when the first is not behind the second,
\* at least half the sequence space when it is.
LEMMA Differences ==
  ASSUME NEW b \in SeqNo, NEW x \in Near, NEW y \in Near
  PROVE  Minus(Plus(b, x), Plus(b, y)) = IF x >= y THEN x - y ELSE x - y + SeqWrap
<1>1. /\ b \in Int /\ x \in Int /\ y \in Int /\ 0 <= b /\ b < SeqWrap
      /\ -Span <= x /\ x <= Span /\ -Span <= y /\ y <= Span
      /\ -SeqWrap < x - y /\ x - y < SeqWrap
  BY Room DEF Near, SeqNo
<1> DEFINE c == Plus(b, x)
           d == Plus(b, y)
<1>2. /\ c = IF b + x < 0 THEN b + x + SeqWrap
             ELSE IF b + x < SeqWrap THEN b + x ELSE b + x - SeqWrap
      /\ d = IF b + y < 0 THEN b + y + SeqWrap
             ELSE IF b + y < SeqWrap THEN b + y ELSE b + y - SeqWrap
  BY PlusIs
<1>3. c \in SeqNo /\ d \in SeqNo
  BY PlusIs
<1> HIDE DEF c, d
<1>4. c \in Int /\ d \in Int /\ 0 <= c /\ c < SeqWrap /\ 0 <= d /\ d < SeqWrap
  BY <1>3, Room DEF SeqNo
<1>5. /\ c - d \in Int
      /\ \/ c - d = x - y
         \/ c - d = x - y + SeqWrap
         \/ c - d = x - y - SeqWrap
  BY <1>1, <1>2, <1>4, Room
<1>6. /\ 0 <= c - d /\ c - d < SeqWrap => (c - d) % SeqWrap = c - d
      /\ -SeqWrap <= c - d /\ c - d < 0 => (c - d) % SeqWrap = c - d + SeqWrap
  BY <1>5, Room, Turns
<1>7. (c - d) % SeqWrap = IF x >= y THEN x - y ELSE x - y + SeqWrap
  BY <1>1, <1>4, <1>5, <1>6, Room
<1> QED BY <1>7 DEF c, d, Minus

\* Two offsets with one number are one offset.
LEMMA SameOffset ==
  ASSUME NEW b \in SeqNo, NEW x \in Near, NEW y \in Near,
         Plus(b, x) = Plus(b, y)
  PROVE  x = y
<1>1. Minus(Plus(b, x), Plus(b, y)) = Minus(Plus(b, y), Plus(b, y))
  BY Zenon
<1>2. x \in Int /\ y \in Int /\ 0 \in Near /\ y - y = 0 /\ -SeqWrap < x - y /\ x - y < SeqWrap
  BY Room DEF Near
<1>3. Minus(Plus(b, y), Plus(b, y)) = 0
  BY <1>2, Differences
<1>4. Minus(Plus(b, x), Plus(b, y)) = IF x >= y THEN x - y ELSE x - y + SeqWrap
  BY Differences
<1> QED BY <1>1, <1>2, <1>3, <1>4, Room

\* Both streams start at a sequence number.
LEMMA Bases ==
  /\ ClientBase \in SeqNo /\ ProxyBase \in SeqNo
  /\ ClientISN \in SeqNo /\ ProxyISN \in SeqNo
  /\ \A b \in SeqNo : Plus(b, 0) = b
  /\ ProxyISN = Plus(ProxyBase, -1)
<1>1. ClientISN \in SeqNo /\ ProxyISN \in SeqNo
  BY TunnelAssumption DEF SeqNo
<1>2. 1 \in Near /\ -1 \in Near /\ 0 \in Near
  BY Room DEF Near
<1>3. ClientBase \in SeqNo /\ ProxyBase \in SeqNo
  BY <1>1, <1>2, PlusIs DEF ClientBase, ProxyBase
<1>4. ASSUME NEW b \in SeqNo PROVE Plus(b, 0) = b
  <2>1. b \in Int /\ 0 <= b /\ b < SeqWrap
    BY Room DEF SeqNo
  <2> QED BY <1>2, <2>1, PlusIs
<1>5. Plus(ProxyBase, -1) = Plus(ProxyISN, 1 + -1)
  BY <1>1, <1>2, PlusPlus DEF ProxyBase
<1> QED BY <1>1, <1>3, <1>4, <1>5

-----------------------------------------------------------------------------
(* What an endpoint makes of a segment.                                      *)

Endpoints ==
  [up : BOOLEAN, got : Seq(Bytes), finGot : BOOLEAN, acked : Nat, wnd : BOOLEAN]

\* s is the beginning of t.
Agrees(s, t) == Len(s) <= Len(t) /\ \A i \in 1..Len(s) : s[i] = t[i]

\* Segment s carries bytes of stream t where they belong, or lies before t.
Piece(s, base, t) ==
  \E k \in Near :
    /\ s.seq = Plus(base, k)
    /\ k >= 0 => /\ k + Len(s.data) <= Len(t)
                 /\ \A i \in 1..Len(s.data) : s.data[i] = t[k + i]

\* It acknowledges at most r bytes of the endpoint's own stream.
AcksAtMost(s, own, r) == \E a \in Near : s.ack = Plus(own, a) /\ a <= r

\* What TransProxy may send to an endpoint.  One that has sent nothing drops every
\* acknowledgement but of nothing, whatever its number.
Fits(s, base, t, own, r, sent) ==
  \/ Has(s, "SYN")
  \/ /\ s.data \in Seq(Bytes) /\ s.ack \in SeqNo
     /\ Piece(s, base, t)
     /\ AcksAtMost(s, own, r) \/ (Has(s, "ACK") /\ sent = 0)

\* Appending a piece of t where s ends keeps s the beginning of t.
LEMMA AgreesOn ==
  ASSUME NEW s \in Seq(Bytes), NEW t \in Seq(Bytes), Agrees(s, t), NEW d \in Seq(Bytes),
         Len(s) + Len(d) <= Len(t), \A i \in 1..Len(d) : d[i] = t[Len(s) + i]
  PROVE  Agrees(s \o d, t) /\ s \o d \in Seq(Bytes) /\ Len(s \o d) >= Len(s)
<1> DEFINE u == s \o d
           m == Len(s)
           n == Len(d)
<1>1. u \in Seq(Bytes) /\ Len(u) = m + n /\ m \in Nat /\ n \in Nat
  OBVIOUS
<1>2. /\ \A i \in 1..m : u[i] = s[i]
      /\ \A i \in 1..n : u[m + i] = d[i]
  OBVIOUS
<1>3. \A i \in 1..m : s[i] = t[i]
  BY DEF Agrees
<1>4. \A i \in 1..n : d[i] = t[m + i]
  OBVIOUS
<1>5. m + n <= Len(t)
  OBVIOUS
<1> HIDE DEF u, m, n
<1>6. ASSUME NEW i \in 1..(m + n) PROVE u[i] = t[i]
  <2>1. CASE i <= m
    <3>1. i \in 1..m
      BY <1>1, <2>1
    <3> QED BY <3>1, <1>2, <1>3
  <2>2. CASE ~(i <= m)
    <3>1. i - m \in 1..n /\ m + (i - m) = i
      BY <1>1, <2>2
    <3>2. u[m + (i - m)] = d[i - m] /\ d[i - m] = t[m + (i - m)]
      BY <3>1, <1>2, <1>4
    <3> QED BY <3>1, <3>2
  <2> QED BY <2>1, <2>2
<1>7. Agrees(u, t)
  BY <1>1, <1>5, <1>6 DEF Agrees
<1>8. Len(u) >= m
  BY <1>1
<1> QED BY <1>1, <1>7, <1>8 DEF u, m

\* An endpoint that has the beginning of t goes on to have it, whatever fitting
\* segment reaches it; it is told of at most r bytes of its own (Takes).
LEMMA Taken ==
  ASSUME NEW e \in Endpoints, NEW t \in Seq(Bytes), Len(t) <= Span, Agrees(e.got, t),
         NEW base \in SeqNo, NEW own \in SeqNo, NEW sent \in Int, NEW r \in Nat,
         NEW s, Fits(s, base, t, own, r, sent),
         NEW f, f = Takes(e, s, base, own, sent)
  PROVE  /\ f \in Endpoints /\ Agrees(f.got, t)
         /\ Len(f.got) >= Len(e.got) /\ (e.finGot => f.finGot)
         /\ f.acked = e.acked \/ f.acked <= r
         /\ ~Has(s, "SYN") => f.up = e.up
<1>1. CASE Has(s, "SYN")
  <2> DEFINE wnd == s.win > 0
  <2>1. f = [e EXCEPT !.up = TRUE, !.wnd = wnd]
    BY <1>1 DEF Takes
  <2>4. wnd \in BOOLEAN
    OBVIOUS
  <2> HIDE DEF wnd
  <2>2. f \in Endpoints /\ f.got = e.got /\ f.finGot = e.finGot /\ f.acked = e.acked
    BY <2>1, <2>4 DEF Endpoints
  <2>3. Len(e.got) \in Nat
    BY DEF Endpoints
  <2> QED BY <1>1, <2>2, <2>3
<1>2. CASE ~Has(s, "SYN") /\ f = e
  <2>1. Len(e.got) \in Nat
    BY DEF Endpoints
  <2> QED BY <1>2, <2>1
<1>3. CASE ~Has(s, "SYN") /\ f # e
  <2> DEFINE a == Minus(s.ack, own)
             inOrder == s.seq = Plus(base, Len(e.got)) /\ ~e.finGot
             got == IF inOrder THEN e.got \o s.data ELSE e.got
             fin == e.finGot \/ (inOrder /\ Has(s, "FIN"))
             acked == IF a < SeqWrap \div 2 /\ a > e.acked THEN a ELSE e.acked
             wnd == s.win > 0
  <2>1. f = [e EXCEPT !.got = got, !.finGot = fin, !.acked = acked, !.wnd = wnd]
    BY <1>3 DEF Takes
  <2>2. /\ s.data \in Seq(Bytes) /\ Piece(s, base, t) /\ s.ack \in SeqNo
        /\ AcksAtMost(s, own, r) \/ (Has(s, "ACK") /\ sent = 0)
    BY <1>3 DEF Fits
  <2>7. ~(Has(s, "ACK") /\ a > sent /\ a < SeqWrap \div 2)
    BY <1>3 DEF Takes
  <2>8. ASSUME Has(s, "ACK"), sent = 0
        PROVE  acked \in Nat /\ acked = e.acked
    <3>1. a \in Nat /\ e.acked \in Nat
      <4>1. s.ack \in Int /\ own \in Int
        BY <2>2, SeqNoInt
      <4>2. a \in SeqNo
        BY <4>1, SeqArithmetic
      <4> QED BY <4>2, Room DEF SeqNo, Endpoints
    <3>2. ~(a > 0 /\ a < SeqWrap \div 2)
      BY <2>7, <2>8
    <3> HIDE DEF a
    <3>3. acked = e.acked
      BY <3>1, <3>2
    <3> QED BY <3>1, <3>3
  <2>9. ASSUME AcksAtMost(s, own, r)
        PROVE  acked \in Nat /\ (acked = e.acked \/ acked <= r)
    <3>1. PICK b \in Near : s.ack = Plus(own, b) /\ b <= r
      BY <2>9 DEF AcksAtMost
    <3>2. 0 \in Near /\ b \in Int /\ -Span <= b
      BY Room DEF Near
    <3>3. Minus(Plus(own, b), Plus(own, 0)) = IF b >= 0 THEN b - 0 ELSE b - 0 + SeqWrap
      BY <3>2, Differences
    <3>4. a = IF b >= 0 THEN b ELSE b + SeqWrap
      BY <3>1, <3>2, <3>3, Bases
    <3>5. b < 0 => ~(a < Half)
      BY <3>2, <3>4, Room
    <3>6. a \in Nat
      BY <3>2, <3>4, Room
    <3>7. e.acked \in Nat
      BY DEF Endpoints
    <3> HIDE DEF a
    <3> QED BY <3>1, <3>2, <3>4, <3>5, <3>6, <3>7 DEF Half
  <2>3. acked \in Nat /\ (acked = e.acked \/ acked <= r)
    BY <2>2, <2>8, <2>9
  <2>4. got \in Seq(Bytes) /\ Agrees(got, t) /\ Len(got) >= Len(e.got)
    <3>1. e.got \in Seq(Bytes) /\ Len(e.got) \in Nat
      BY DEF Endpoints
    <3>2. CASE ~inOrder
      <4>1. got = e.got
        BY <3>2
      <4> HIDE DEF got
      <4> QED BY <3>1, <4>1
    <3>3. CASE inOrder
      <4>1. PICK k \in Near :
              /\ s.seq = Plus(base, k)
              /\ k >= 0 => /\ k + Len(s.data) <= Len(t)
                           /\ \A i \in 1..Len(s.data) : s.data[i] = t[k + i]
        BY <2>2 DEF Piece
      <4>2. Len(e.got) \in Near
        BY <3>1, Room DEF Near, Agrees
      <4>3. k = Len(e.got)
        BY <3>3, <4>1, <4>2, SameOffset
      <4>4. /\ Len(e.got) + Len(s.data) <= Len(t)
            /\ \A i \in 1..Len(s.data) : s.data[i] = t[Len(e.got) + i]
        <5>1. k >= 0
          BY <3>1, <4>3
        <5>2. /\ k + Len(s.data) <= Len(t)
              /\ \A i \in 1..Len(s.data) : s.data[i] = t[k + i]
          BY <4>1, <5>1
        <5> QED BY <4>3, <5>2
      <4>5. /\ Agrees(e.got \o s.data, t) /\ e.got \o s.data \in Seq(Bytes)
            /\ Len(e.got \o s.data) >= Len(e.got)
        BY <2>2, <3>1, <4>4, AgreesOn
      <4> QED BY <3>3, <4>5
    <3> QED BY <3>2, <3>3
  <2>5. fin \in BOOLEAN /\ (e.finGot => fin) /\ wnd \in BOOLEAN
    BY DEF Endpoints
  <2> HIDE DEF got, fin, acked, wnd
  <2>6. /\ f \in Endpoints /\ f.got = got /\ f.finGot = fin /\ f.acked = acked
        /\ f.up = e.up
    BY <2>1, <2>3, <2>4, <2>5 DEF Endpoints
  <2> QED BY <2>3, <2>4, <2>5, <2>6
<1> QED BY <1>1, <1>2, <1>3

-----------------------------------------------------------------------------
(* The invariant.                                                            *)

\* What the proxy is to hear.
Outbound == Request \o ClientStream

\* No answer has come: nothing was counted, and the proxy has taken nothing.
Unanswered == ~client.up /\ proxy.got = <<>> /\ outTotal = 0 /\ inTotal = 0

\* One client speaks once: its SYN opens the only connection, and before it nothing
\* has happened.
Lifetime ==
  /\ opened \in BOOLEAN
  /\ ~opened => state = "NONE" /\ client = Silent /\ proxy = Silent
  /\ state # "NONE" => opened /\ clientSeq = ClientBase

\* Where the proxy's numbers are known; a connection that closes may have given
\* up before its SYN was answered.
Numbers ==
  /\ state \in {"SYN_RECEIVED", "AUTH", "ESTABLISHING", "ESTABLISHED", "FIN_WAIT"} =>
       proxySeq = ProxyBase
  /\ state = "SYN_SENT" => Unanswered
  /\ state = "CLOSING" => proxySeq = ProxyBase \/ Unanswered

\* The totals are what has been asked and answered so far: all of both from the
\* moment the tunnel is granted.
Asked ==
  /\ state \in {"NONE", "SYN_SENT", "SYN_RECEIVED"} => outTotal = 0 /\ inTotal = 0
  /\ state = "AUTH" =>
       /\ inTotal < Len(Reply)
       /\ \/ auth.stage = 1 /\ outTotal = 0
          \/ auth.stage = 2 /\ AuthKind = "sock5" /\ outTotal = GreetLen
  /\ state \in {"ESTABLISHING", "ESTABLISHED", "FIN_WAIT"} =>
       inTotal = Len(Reply) /\ outTotal = Len(Request)
  /\ state = "CLOSING" => inTotal <= Len(Reply) /\ outTotal <= Len(Request)

\* Each endpoint has the beginning of what it is to hear.
Heard ==
  /\ client \in Endpoints /\ Agrees(client.got, ServerStream)
  /\ proxy \in Endpoints /\ Agrees(proxy.got, Outbound)

TunnelInv ==
  /\ IInv /\ Lifetime /\ Numbers /\ Asked /\ Heard
  /\ EndToEndAcks /\ WindowGate /\ CountsHonest

\* The proxy's stream as the model cuts it (ProxyPackets).
Inbound == Reply \o ServerStream

LEMMA Joined ==
  /\ Outbound \in Seq(Bytes) /\ Len(Outbound) = Len(Request) + Len(ClientStream)
  /\ \A i \in 1..Len(Request) : Outbound[i] = Request[i]
  /\ \A i \in 1..Len(ClientStream) : Outbound[Len(Request) + i] = ClientStream[i]
  /\ Inbound \in Seq(Bytes) /\ Len(Inbound) = Len(Reply) + Len(ServerStream)
  /\ \A i \in 1..Len(ServerStream) : Inbound[Len(Reply) + i] = ServerStream[i]
<1>1. ASSUME NEW s \in Seq(Bytes), NEW t \in Seq(Bytes)
      PROVE  /\ s \o t \in Seq(Bytes) /\ Len(s \o t) = Len(s) + Len(t)
             /\ \A i \in 1..Len(s) : (s \o t)[i] = s[i]
             /\ \A i \in 1..Len(t) : (s \o t)[Len(s) + i] = t[i]
  OBVIOUS
<1> HIDE DEF Request
<1> QED BY <1>1, Lengths DEF Outbound, Inbound

\* What is near.
LEMMA NearIs ==
  ASSUME NEW x \in Int, -Span <= x, x <= Span
  PROVE  x \in Near
BY Room DEF Near

\* The lengths alone, and what is near for being within one of the streams.
LEMMA Sizes ==
  /\ Len(Request) \in Nat /\ Len(Reply) \in Nat
  /\ Len(ClientStream) \in Nat /\ Len(ServerStream) \in Nat
  /\ Len(Outbound) = Len(Request) + Len(ClientStream)
  /\ Len(Inbound) = Len(Reply) + Len(ServerStream)
  /\ Span = Len(Outbound) + Len(Inbound) + 3
  /\ \A x \in Near : x \in Int
<1>1. Span = Len(Outbound) + Len(Inbound) + 3
  BY Lengths, Joined DEF Span
<1> QED BY <1>1, Lengths, Joined, Room DEF Near

\* An endpoint's bytes and FIN, in numbers (Received).
LEMMA ReceivedIs ==
  ASSUME NEW e \in Endpoints
  PROVE  /\ Received(e) \in Nat /\ Len(e.got) \in Nat
         /\ Received(e) = Len(e.got) \/ Received(e) = Len(e.got) + 1
         /\ e.finGot => Received(e) = Len(e.got) + 1
         /\ ~e.finGot => Received(e) = Len(e.got)
<1> DEFINE n == Len(e.got)
           m == IF e.finGot THEN 1 ELSE 0
<1>1. n \in Nat
  BY DEF Endpoints
<1>2. (e.finGot => m = 1) /\ (~e.finGot => m = 0)
  OBVIOUS
<1>3. Received(e) = n + m
  BY DEF Received
<1> HIDE DEF n, m
<1>4. CASE e.finGot
  BY <1>1, <1>2, <1>3, <1>4 DEF n
<1>5. CASE ~e.finGot
  BY <1>1, <1>2, <1>3, <1>5 DEF n
<1> QED BY <1>4, <1>5

\* A sum that stays within the streams does not wrap.
LEMMA SmallSum ==
  ASSUME NEW x \in SeqNo, NEW y \in Nat, x + y <= Span
  PROVE  Plus(x, y) = x + y
<1>1. x \in Int /\ 0 <= x
  BY Room DEF SeqNo
<1>2. y \in Near /\ 0 <= x + y /\ x + y < SeqWrap
  BY <1>1, Room DEF Near
<1> QED BY <1>1, <1>2, PlusIs

\* How much an endpoint has received, and what is acknowledged end to end, are
\* numbers short of the streams (Received, Delivered).
LEMMA Counted ==
  ASSUME Heard
  PROVE  /\ Received(client) \in Nat /\ Received(client) <= Len(ServerStream) + 1
         /\ Received(proxy) \in Nat /\ Received(proxy) <= Len(Outbound) + 1
         /\ Delivered \in Nat /\ Delivered <= Len(ClientStream) + 1
         /\ Received(proxy) - Len(Request) <= Delivered
<1>1. /\ Len(client.got) \in Nat /\ Len(client.got) <= Len(ServerStream)
      /\ Len(proxy.got) \in Nat /\ Len(proxy.got) <= Len(Outbound)
      /\ client \in Endpoints /\ proxy \in Endpoints
  BY DEF Heard, Endpoints, Agrees
<1>2. /\ Received(client) \in Nat /\ Received(client) <= Len(ServerStream) + 1
      /\ Received(proxy) \in Nat /\ Received(proxy) <= Len(Outbound) + 1
  <2>1. Len(ServerStream) \in Nat /\ Len(Outbound) \in Nat
    BY Lengths, Joined
  <2>2. ASSUME NEW e \in Endpoints
        PROVE  Received(e) \in Nat /\ Received(e) <= Len(e.got) + 1
    BY ReceivedIs
  <2> HIDE DEF Received
  <2> QED BY <1>1, <2>1, <2>2
<1> DEFINE n == Received(proxy)
           q == Len(Request)
<1>3. n \in Nat /\ n <= q + Len(ClientStream) + 1 /\ q \in Nat /\ Len(ClientStream) \in Nat
  BY <1>2, Sizes
<1>4. Delivered = IF n > q THEN n - q ELSE 0
  BY DEF Delivered
<1> HIDE DEF n, q
<1>5. Delivered \in Nat /\ Delivered <= Len(ClientStream) + 1 /\ n - q <= Delivered
  BY <1>3, <1>4
<1> QED BY <1>2, <1>5 DEF n, q

\* Fitting segments leave both endpoints with beginnings of their streams and with
\* honest acknowledgements, whichever of them is lost (Reaches).
LEMMA ReachesSafely ==
  ASSUME Heard, EndToEndAcks, NEW toClient, NEW toProxy, Reaches(toClient, toProxy),
         \A s \in toClient :
           \/ Fits(s, ProxyBase, ServerStream, ClientBase, Delivered, ClientAllowed + 1)
           \/ ~client.up,
         \A s \in toProxy :
           Fits(s, ClientBase, Outbound, ProxyBase, Len(Reply) + Received(client),
                IF ProxyAllowed = 0 THEN 0 ELSE ProxyAllowed + 1),
         ClientAllowed \in Nat, ProxyAllowed \in Nat
  PROVE  /\ Heard' /\ EndToEndAcks'
         /\ Received(client') >= Received(client) /\ Delivered' >= Delivered
         /\ (\A s \in toClient : ~Has(s, "SYN")) => client'.up = client.up
         /\ (\A s \in toProxy : Has(s, "SYN") \/ s.data = <<>>) => proxy'.got = proxy.got
<1> DEFINE sent == IF ProxyAllowed = 0 THEN 0 ELSE ProxyAllowed + 1
           r == Len(Reply) + Received(client)
<1>1. /\ client \in Endpoints /\ Agrees(client.got, ServerStream)
      /\ proxy \in Endpoints /\ Agrees(proxy.got, Outbound)
  BY DEF Heard
<1>2. r \in Nat /\ sent \in Int /\ Delivered \in Nat /\ ClientAllowed + 1 \in Int
  BY Counted, Lengths
<1>3. /\ Len(ServerStream) <= Span /\ Len(Outbound) <= Span
      /\ Outbound \in Seq(Bytes) /\ ServerStream \in Seq(Bytes)
  <2>1. Len(ServerStream) <= Span /\ Len(Outbound) <= Span
    BY Sizes
  <2> QED BY <2>1, Lengths, Joined
<1>4. /\ client' \in Endpoints /\ Agrees(client'.got, ServerStream)
      /\ Len(client'.got) >= Len(client.got) /\ (client.finGot => client'.finGot)
      /\ client'.acked = client.acked \/ client'.acked <= Delivered
      /\ (\A s \in toClient : ~Has(s, "SYN")) => client'.up = client.up
  <2>1. CASE UNCHANGED client
    <3>1. Len(client.got) \in Nat
      BY <1>1 DEF Endpoints
    <3> QED BY <1>1, <2>1, <3>1
  <2>2. CASE \E s \in toClient :
               client' = Takes(client, s, ProxyBase, ClientBase, ClientAllowed + 1)
    <3>1. PICK s \in toClient :
            client' = Takes(client, s, ProxyBase, ClientBase, ClientAllowed + 1)
      BY <2>2
    <3>2. CASE ~Fits(s, ProxyBase, ServerStream, ClientBase, Delivered, ClientAllowed + 1)
      <4>1. ~client.up /\ ~Has(s, "SYN")
        BY <3>2 DEF Fits
      <4>2. client' = client /\ Len(client.got) \in Nat
        BY <3>1, <4>1, <1>1 DEF Takes, Endpoints
      <4> QED BY <1>1, <4>2
    <3>3. CASE Fits(s, ProxyBase, ServerStream, ClientBase, Delivered, ClientAllowed + 1)
      <4> DEFINE m == ClientAllowed + 1
                 d == Delivered
      <4>1. /\ client \in Endpoints /\ ServerStream \in Seq(Bytes)
            /\ Len(ServerStream) <= Span /\ Agrees(client.got, ServerStream)
            /\ ProxyBase \in SeqNo /\ ClientBase \in SeqNo /\ m \in Int /\ d \in Nat
            /\ Fits(s, ProxyBase, ServerStream, ClientBase, d, m)
            /\ client' = Takes(client, s, ProxyBase, ClientBase, m)
        BY <1>1, <1>2, <1>3, <3>1, <3>3, Bases
      <4> HIDE DEF Fits, Takes, d, m, Endpoints, Agrees
      <4>2. /\ client' \in Endpoints /\ Agrees(client'.got, ServerStream)
            /\ Len(client'.got) >= Len(client.got) /\ (client.finGot => client'.finGot)
            /\ client'.acked = client.acked \/ client'.acked <= d
            /\ ~Has(s, "SYN") => client'.up = client.up
        BY <4>1, Taken
      <4> QED BY <4>2 DEF d
    <3> QED BY <3>2, <3>3
  <2> QED BY <2>1, <2>2 DEF Reaches
<1>5. /\ proxy' \in Endpoints /\ Agrees(proxy'.got, Outbound)
      /\ Len(proxy'.got) >= Len(proxy.got) /\ (proxy.finGot => proxy'.finGot)
      /\ proxy'.acked = proxy.acked \/ proxy'.acked <= r
      /\ (\A s \in toProxy : Has(s, "SYN") \/ s.data = <<>>) => proxy'.got = proxy.got
  <2>1. CASE UNCHANGED proxy
    <3>1. Len(proxy.got) \in Nat
      BY <1>1 DEF Endpoints
    <3> QED BY <1>1, <2>1, <3>1
  <2>2. CASE \E s \in toProxy : proxy' = Takes(proxy, s, ClientBase, ProxyBase, sent)
    <3>1. PICK s \in toProxy : proxy' = Takes(proxy, s, ClientBase, ProxyBase, sent)
      BY <2>2
    <3>2. Fits(s, ClientBase, Outbound, ProxyBase, r, sent)
      OBVIOUS
    <3>3. Has(s, "SYN") \/ s.data = <<>> => proxy'.got = proxy.got
      <4>1. proxy.got \in Seq(Bytes) /\ proxy.got \o <<>> = proxy.got
        BY <1>1 DEF Endpoints
      <4> QED BY <3>1, <4>1, <1>1 DEF Takes, Endpoints
    <3> HIDE DEF Fits, Takes, sent, r, Endpoints, Agrees
    <3>4. /\ proxy' \in Endpoints /\ Agrees(proxy'.got, Outbound)
          /\ Len(proxy'.got) >= Len(proxy.got) /\ (proxy.finGot => proxy'.finGot)
          /\ proxy'.acked = proxy.acked \/ proxy'.acked <= r
      BY <1>1, <1>2, <1>3, <3>1, <3>2, Taken, Bases
    <3>5. (\A q \in toProxy : Has(q, "SYN") \/ q.data = <<>>) => proxy'.got = proxy.got
      BY <3>3
    <3> QED BY <3>4, <3>5
  <2> QED BY <2>1, <2>2 DEF Reaches
<1>6. Heard'
  BY <1>4, <1>5 DEF Heard, Endpoints, Agrees
<1>7. Received(client') >= Received(client) /\ Received(proxy') >= Received(proxy)
  <2>1. ASSUME NEW e \in Endpoints, NEW f \in Endpoints, Len(f.got) >= Len(e.got),
               e.finGot => f.finGot
        PROVE  Received(f) >= Received(e)
    BY <2>1, ReceivedIs
  <2> HIDE DEF Received
  <2> QED BY <1>1, <1>4, <1>5, <2>1
<1>8. Received(proxy) \in Nat /\ Received(proxy') \in Nat /\ Received(client') \in Nat
  BY <1>1, <1>4, <1>5, ReceivedIs
<1>9. Delivered' >= Delivered
  BY <1>7, <1>8, Lengths DEF Delivered
<1>10. EndToEndAcks'
  <2>1. client.acked \in Nat /\ proxy.acked \in Nat /\ client'.acked \in Nat /\ proxy'.acked \in Nat
    BY <1>1, <1>4, <1>5 DEF Endpoints
  <2>2. client.acked <= Delivered /\ proxy.acked <= r
    BY DEF EndToEndAcks
  <2>3. /\ Received(client) \in Nat /\ Received(client') \in Nat /\ Len(Reply) \in Nat
        /\ Delivered \in Nat /\ Delivered' \in Nat
    BY <1>8, Counted, Lengths DEF Delivered
  <2> DEFINE a == client'.acked
             b == proxy'.acked
             rc == Received(client')
             dd == Delivered'
  <2>4. a <= dd
    <3>1. a = client.acked \/ a <= Delivered
      BY <1>4
    <3>2. client.acked <= Delivered /\ Delivered <= dd
      BY <1>9, <2>2, <2>3
    <3>3. a \in Nat /\ client.acked \in Nat /\ Delivered \in Nat /\ dd \in Nat
      BY <2>1, <2>3
    <3> HIDE DEF a, dd, Delivered
    <3> QED BY <3>1, <3>2, <3>3
  <2>5. b <= Len(Reply) + rc
    <3>1. b = proxy.acked \/ b <= r
      BY <1>5
    <3>2. proxy.acked <= r /\ r = Len(Reply) + Received(client) /\ Received(client) <= rc
      BY <1>7, <2>2, <2>3
    <3>3. /\ b \in Nat /\ proxy.acked \in Nat /\ Received(client) \in Nat /\ rc \in Nat
          /\ Len(Reply) \in Nat
      BY <2>1, <2>3
    <3> HIDE DEF b, rc, r, Received
    <3> QED BY <3>1, <3>2, <3>3
  <2> QED BY <2>4, <2>5 DEF EndToEndAcks
<1> QED BY <1>4, <1>5, <1>6, <1>7, <1>9, <1>10

-----------------------------------------------------------------------------
(* What can arrive (the endpoints' segments).                                *)

Segments ==
  [seq : SeqNo, ack : SeqNo, flags : SUBSET {"SYN", "ACK", "FIN", "RST", "PSH"},
   win : Int, data : Seq(Bytes), len : Nat]

\* Segment s carries bytes i+1.. of the endpoint's stream, of which it may have sent
\* so many, and acknowledges r bytes of its peer's.
Carries(s, i, r, stream, allowed, own, base) ==
  /\ s \in Segments /\ s.seq = Plus(own, i) /\ s.ack = Plus(base, r)
  /\ s.len = Len(s.data) /\ i + Len(s.data) <= allowed
  /\ \A x \in 1..Len(s.data) : s.data[x] = stream[i + x]
  /\ s.flags \in {{"ACK"}, {"FIN", "ACK"}} /\ s.win = 1

LEMMA SentIs ==
  ASSUME NEW e \in Endpoints, NEW stream \in Seq(Bytes), NEW allowed \in 0..Len(stream),
         NEW own \in SeqNo, NEW base \in SeqNo, Received(e) <= Span, Len(stream) <= Span,
         NEW s \in Sent(e, stream, allowed, own, base)
  PROVE  \E i \in 0..allowed, r \in 0..Received(e) : Carries(s, i, r, stream, allowed, own, base)
<1>1. Received(e) \in Nat
  BY ReceivedIs
<1>2. ASSUME NEW i \in 0..allowed, NEW r \in 0..Received(e), NEW d \in Seq(Bytes),
             NEW flags \in {{"ACK"}, {"FIN", "ACK"}},
             s = Segment(Plus(own, i), Plus(base, r), flags, 1, d),
             i + Len(d) <= allowed, \A x \in 1..Len(d) : d[x] = stream[i + x]
      PROVE  Carries(s, i, r, stream, allowed, own, base)
  <2>1. i \in Near /\ r \in Near
    BY <1>1, Room DEF Near
  <2>2. Plus(own, i) \in SeqNo /\ Plus(base, r) \in SeqNo /\ Len(d) \in Nat
    BY <2>1, PlusIs
  <2>3. s = [seq |-> Plus(own, i), ack |-> Plus(base, r), flags |-> flags, win |-> 1,
             data |-> d, len |-> Len(d)]
    BY <1>2 DEF Segment
  <2>4. flags \in SUBSET {"SYN", "ACK", "FIN", "RST", "PSH"}
    OBVIOUS
  <2> HIDE DEF Plus
  <2>5. s \in Segments
    BY <2>2, <2>3, <2>4 DEF Segments
  <2>6. /\ s.seq = Plus(own, i) /\ s.ack = Plus(base, r) /\ s.flags = flags
        /\ s.win = 1 /\ s.data = d /\ s.len = Len(d)
    BY <2>3
  <2> QED BY <1>2, <2>5, <2>6 DEF Carries
<1>3. CASE \E i \in 0..allowed, j \in 0..allowed, r \in 0..Received(e) :
             s = Segment(Plus(own, i), Plus(base, r), {"ACK"}, 1, SubSeq(stream, i + 1, j))
  <2>1. PICK i \in 0..allowed, j \in 0..allowed, r \in 0..Received(e) :
          s = Segment(Plus(own, i), Plus(base, r), {"ACK"}, 1, SubSeq(stream, i + 1, j))
    BY <1>3
  <2> DEFINE d == SubSeq(stream, i + 1, j)
  <2>2. d \in Seq(Bytes) /\ Len(d) = (IF i + 1 <= j THEN j - i ELSE 0)
    OBVIOUS
  <2>3. ASSUME NEW x \in 1..Len(d) PROVE d[x] = stream[i + x]
    OBVIOUS
  <2> HIDE DEF d
  <2>4. i + Len(d) <= allowed
    BY <2>2
  <2>5. s = Segment(Plus(own, i), Plus(base, r), {"ACK"}, 1, d)
    BY <2>1 DEF d
  <2>6. Carries(s, i, r, stream, allowed, own, base)
    BY <1>2, <2>2, <2>3, <2>4, <2>5
  <2> QED BY <2>6
<1>4. CASE allowed = Len(stream) /\ \E r \in 0..Received(e) :
             s = Segment(Plus(own, Len(stream)), Plus(base, r), {"FIN", "ACK"}, 1, <<>>)
  <2>1. PICK r \in 0..Received(e) :
          s = Segment(Plus(own, Len(stream)), Plus(base, r), {"FIN", "ACK"}, 1, <<>>)
    BY <1>4
  <2> DEFINE d == <<>>
             i == Len(stream)
  <2>2. d \in Seq(Bytes) /\ Len(d) = 0 /\ i \in 0..allowed
    BY <1>4
  <2>3. s = Segment(Plus(own, i), Plus(base, r), {"FIN", "ACK"}, 1, d)
    BY <2>1
  <2> HIDE DEF d, i
  <2>4. i + Len(d) <= allowed /\ \A x \in 1..Len(d) : d[x] = stream[i + x]
    BY <2>2
  <2>5. Carries(s, i, r, stream, allowed, own, base)
    BY <1>2, <2>2, <2>3, <2>4
  <2> QED BY <2>2, <2>5
<1> QED BY <1>3, <1>4 DEF Sent

\* A client sends its SYN until it is answered, and then its stream; with its
\* window closed nothing of that (ClientPackets).
LEMMA FromClient ==
  ASSUME Heard, NEW p \in ClientPackets
  PROVE  \/ /\ ~client.up /\ (opened => state \notin {"NONE", "CLOSED"})
            /\ p = Segment(ClientISN, 0, {"SYN"}, 1, <<>>)
         \/ /\ client.up
            /\ \E i \in 0..ClientAllowed, r \in 0..Received(client) :
                 Carries(p, i, r, ClientStream, ClientAllowed, ClientBase, ProxyBase)
<1>1. client \in Endpoints /\ Received(client) \in Nat /\ Received(client) <= Span
  <2>1. Received(client) \in Nat /\ Received(client) <= Len(ServerStream) + 1
    BY Counted
  <2>2. client \in Endpoints
    BY DEF Heard
  <2> HIDE DEF Received
  <2> QED BY <2>1, <2>2, Sizes
<1>2. ClientAllowed \in 0..Len(ClientStream) /\ Len(ClientStream) <= Span
  BY Sizes DEF ClientAllowed
<1>3. CASE ~client.up
  BY <1>3 DEF ClientPackets
<1>4. CASE client.up
  <2>1. p \in Sent(client, ClientStream, ClientAllowed, ClientBase, ProxyBase)
    BY <1>4 DEF ClientPackets
  <2> HIDE DEF Sent, Carries, ClientAllowed, Received
  <2>2. \E i \in 0..ClientAllowed, r \in 0..Received(client) :
          Carries(p, i, r, ClientStream, ClientAllowed, ClientBase, ProxyBase)
    BY <1>1, <1>2, <2>1, SentIs, Lengths, Bases
  <2> QED BY <1>4, <2>2
<1> QED BY <1>3, <1>4

\* The proxy answers a SYN while it has nothing, and then sends its stream, no
\* segment of which holds both bytes of the answer and others (ProxyPackets).
LEMMA FromProxy ==
  ASSUME Heard, ~Coalesce, NEW p \in ProxyPackets
  PROVE  /\ proxy.up
         /\ \/ /\ proxy.got = <<>>
               /\ p = Segment(ProxyISN, ClientBase, {"SYN", "ACK"}, 1, <<>>)
            \/ \E i \in 0..ProxyAllowed, r \in 0..Received(proxy) :
                 /\ Carries(p, i, r, Inbound, ProxyAllowed, ProxyBase, ClientBase)
                 /\ i < Len(Reply) => i + Len(p.data) <= Len(Reply)
<1>1. proxy \in Endpoints /\ Received(proxy) \in Nat /\ Received(proxy) <= Span
  <2>1. /\ proxy \in Endpoints /\ Received(proxy) \in Nat
        /\ Received(proxy) <= Len(Outbound) + 1
    BY Counted DEF Heard
  <2>2. Len(Outbound) + 1 <= Span /\ Len(Outbound) \in Nat
    BY Sizes
  <2> HIDE DEF Received
  <2> QED BY <2>1, <2>2, Room
<1>2. ProxyAllowed \in 0..Len(Inbound) /\ Len(Inbound) <= Span /\ Inbound \in Seq(Bytes)
  BY Lengths, Joined, AuthAssumption, TunnelAssumption DEF ProxyAllowed, Span
<1>3. proxy.up
  BY DEF ProxyPackets
<1>4. CASE p \in Sent(proxy, Inbound, ProxyAllowed, ProxyBase, ClientBase)
           /\ ~(Minus(p.seq, ProxyBase) < Len(Reply)
                  /\ Minus(p.seq, ProxyBase) + p.len > Len(Reply))
  <2> HIDE DEF Sent, Carries, ProxyAllowed, Received, Inbound
  <2>1. PICK i \in 0..ProxyAllowed, r \in 0..Received(proxy) :
          Carries(p, i, r, Inbound, ProxyAllowed, ProxyBase, ClientBase)
    BY <1>1, <1>2, <1>4, SentIs, Bases
  <2>2. i \in Near /\ 0 \in Near /\ i \in Nat
    BY <1>2, Room DEF Near
  <2>3. Minus(Plus(ProxyBase, i), Plus(ProxyBase, 0)) = i
    BY <2>2, Bases, Differences
  <2>4. Minus(p.seq, ProxyBase) = i
    BY <2>1, <2>3, Bases DEF Carries
  <2>5. p.len = Len(p.data) /\ Len(p.data) \in Nat
    BY <2>1 DEF Carries, Segments
  <2>6. i < Len(Reply) => i + Len(p.data) <= Len(Reply)
    BY <1>4, <2>2, <2>4, <2>5, Lengths
  <2> QED BY <1>3, <2>1, <2>6
<1>5. CASE proxy.got = <<>> /\ p = Segment(ProxyISN, ClientBase, {"SYN", "ACK"}, 1, <<>>)
  BY <1>3, <1>5
<1> QED BY <1>3, <1>4, <1>5 DEF ProxyPackets, Inbound

-----------------------------------------------------------------------------
(* What is sent fits (Forwarded, RepliedAuth, TimeoutToClient and            *)
(* TimeoutToProxy).                                                          *)

\* How far an acknowledgement may go, and what a silent proxy may have sent.
ProxyMay == IF ProxyAllowed = 0 THEN 0 ELSE ProxyAllowed + 1
ToProxy(s) == Fits(s, ClientBase, Outbound, ProxyBase, Len(Reply) + Received(client), ProxyMay)
ToClient(s) == Fits(s, ProxyBase, ServerStream, ClientBase, Delivered, ClientAllowed + 1)

\* A handshake's segment fits when it carries nothing but a SYN.
LEMMA SynFits ==
  ASSUME NEW p \in Segments, Has(p, "SYN")
  PROVE  /\ ToProxy(Windowless(p)) /\ ToClient(Windowless(p))
         /\ Has(Windowless(p), "SYN") /\ Windowless(p).win = 0
<1>1. Windowless(p).flags = p.flags /\ Windowless(p).win = 0
  BY DEF Windowless, Segments
<1>2. Has(Windowless(p), "SYN")
  BY <1>1 DEF Has
<1> QED BY <1>1, <1>2 DEF ToProxy, ToClient, Fits

\* The client's segments, moved behind the request, carry the client's bytes there
\* and acknowledge no more than the answer and what the client has (TransferOut).
LEMMA ClientSpliced ==
  ASSUME Heard, outTotal = Len(Request), inTotal = Len(Reply), ClientAllowed \in 0..Len(ClientStream),
         NEW i \in 0..ClientAllowed, NEW r \in 0..Received(client),
         NEW p, Carries(p, i, r, ClientStream, ClientAllowed, ClientBase, ProxyBase)
  PROVE  ToProxy(TransferOut("client", p))
<1> DEFINE q == TransferOut("client", p)
           k == i + Len(Request)
           a == r + Len(Reply)
<1>1. q = [p EXCEPT !.seq = Plus(p.seq, outTotal), !.ack = Plus(p.ack, inTotal)]
  BY DEF TransferOut
<1>2. /\ p \in Segments /\ p.seq = Plus(ClientBase, i) /\ p.ack = Plus(ProxyBase, r)
      /\ i + Len(p.data) <= ClientAllowed /\ p.data \in Seq(Bytes) /\ Len(p.data) \in Nat
      /\ \A x \in 1..Len(p.data) : p.data[x] = ClientStream[i + x]
  BY DEF Carries, Segments
<1>3. q.seq = Plus(p.seq, outTotal) /\ q.ack = Plus(p.ack, inTotal) /\ q.data = p.data
  BY <1>1, <1>2 DEF Segments
<1>4. /\ i \in Nat /\ i <= Len(ClientStream) /\ r \in Nat /\ r <= Len(ServerStream) + 1
      /\ Len(Request) \in Nat /\ Len(Reply) \in Nat
  <2>1. Received(client) \in Nat /\ Received(client) <= Len(ServerStream) + 1
    BY Counted
  <2> HIDE DEF Received
  <2> QED BY <2>1, Sizes
<1>5. /\ i \in Near /\ r \in Near /\ k \in Near /\ a \in Near
      /\ Len(Request) \in Near /\ Len(Reply) \in Near
  <2>1. /\ i \in Int /\ -Span <= i /\ i <= Span
        /\ r \in Int /\ -Span <= r /\ r <= Span
    BY <1>4, Sizes
  <2>2. /\ k \in Int /\ -Span <= k /\ k <= Span
        /\ a \in Int /\ -Span <= a /\ a <= Span
    BY <1>4, Sizes
  <2>3. /\ Len(Request) \in Int /\ -Span <= Len(Request) /\ Len(Request) <= Span
        /\ Len(Reply) \in Int /\ -Span <= Len(Reply) /\ Len(Reply) <= Span
    BY Sizes
  <2> QED BY <2>1, <2>2, <2>3, NearIs
<1>6. q.seq = Plus(ClientBase, k)
  BY <1>2, <1>3, <1>5, PlusPlus, Bases
<1>7. q.ack = Plus(ProxyBase, a) /\ q.ack \in SeqNo
  <2>1. Plus(Plus(ProxyBase, r), Len(Reply)) = Plus(ProxyBase, a)
    BY <1>5, PlusPlus, Bases
  <2>2. Plus(ProxyBase, a) \in SeqNo
    BY <1>5, PlusIs, Bases
  <2> HIDE DEF Plus, q
  <2> QED BY <1>2, <1>3, <2>1, <2>2
<1>8. a <= Len(Reply) + Received(client)
  BY <1>4, Counted
<1>9. k + Len(q.data) <= Len(Outbound)
  <2>1. i + Len(p.data) <= Len(ClientStream)
    <3> DEFINE n == Len(p.data)
    <3>1. n \in Nat /\ i + n <= ClientAllowed /\ ClientAllowed \in 0..Len(ClientStream)
      BY <1>2
    <3> HIDE DEF n
    <3>2. i + n <= Len(ClientStream)
      BY <1>4, <3>1, Sizes
    <3> QED BY <3>2 DEF n
  <2>2. Len(q.data) = Len(p.data)
    BY <1>3
  <2>3. Len(p.data) \in Nat
    BY <1>2
  <2> HIDE DEF q
  <2>4. k + Len(p.data) <= Len(Request) + Len(ClientStream)
    <3> DEFINE n == Len(p.data)
    <3>1. n \in Nat /\ i + n <= Len(ClientStream)
      BY <2>1, <2>3
    <3> HIDE DEF n
    <3>2. k + n <= Len(Request) + Len(ClientStream)
      BY <1>4, <3>1, Sizes
    <3> QED BY <3>2 DEF n
  <2> QED BY <2>2, <2>4, Sizes
<1>10. ASSUME NEW x \in 1..Len(q.data) PROVE q.data[x] = Outbound[k + x]
  <2>1. i + x \in 1..Len(ClientStream)
    BY <1>2, <1>3, <1>4, Lengths
  <2>2. Outbound[Len(Request) + (i + x)] = ClientStream[i + x]
    BY <2>1, Joined
  <2>3. Len(Request) + (i + x) = k + x
    BY <1>4
  <2> QED BY <1>2, <1>3, <2>2, <2>3
<1> HIDE DEF q, k, a
<1>11. Piece(q, ClientBase, Outbound)
  BY <1>5, <1>6, <1>9, <1>10 DEF Piece
<1>12. AcksAtMost(q, ProxyBase, Len(Reply) + Received(client))
  BY <1>5, <1>7, <1>8 DEF AcksAtMost
<1>13. q.data \in Seq(Bytes)
  BY <1>2, <1>3
<1> QED BY <1>7, <1>11, <1>12, <1>13 DEF q, ToProxy, Fits

\* The proxy's segments, moved before the answer, carry the server's bytes or lie
\* before them, and acknowledge no more than the proxy has of the client's.
LEMMA ProxySpliced ==
  ASSUME Heard, outTotal = Len(Request), inTotal = Len(Reply), ProxyAllowed \in 0..Len(Inbound),
         NEW i \in 0..ProxyAllowed, NEW r \in 0..Received(proxy),
         NEW p, Carries(p, i, r, Inbound, ProxyAllowed, ProxyBase, ClientBase)
  PROVE  ToClient(TransferOut("proxy", p)) /\ ~Has(TransferOut("proxy", p), "SYN")
<1> DEFINE q == TransferOut("proxy", p)
           k == i - Len(Reply)
           a == r - Len(Request)
<1>1. q = [p EXCEPT !.seq = Minus(p.seq, inTotal), !.ack = Minus(p.ack, outTotal)]
  BY DEF TransferOut
<1>2. /\ p \in Segments /\ p.seq = Plus(ProxyBase, i) /\ p.ack = Plus(ClientBase, r)
      /\ i + Len(p.data) <= ProxyAllowed /\ p.data \in Seq(Bytes) /\ Len(p.data) \in Nat
      /\ \A x \in 1..Len(p.data) : p.data[x] = Inbound[i + x]
      /\ ~Has(p, "SYN")
  BY DEF Carries, Segments, Has
<1>3. /\ q.seq = Minus(p.seq, inTotal) /\ q.ack = Minus(p.ack, outTotal) /\ q.data = p.data
      /\ q.flags = p.flags
  BY <1>1, <1>2 DEF Segments
<1>4. /\ i \in Nat /\ i <= Len(Inbound) /\ r \in Nat /\ r <= Len(Outbound) + 1
      /\ Len(Request) \in Nat /\ Len(Reply) \in Nat
  <2>1. Received(proxy) \in Nat /\ Received(proxy) <= Len(Outbound) + 1
    BY Counted
  <2> HIDE DEF Received
  <2> QED BY <2>1, Sizes
<1>5. /\ i \in Near /\ r \in Near /\ k \in Near /\ a \in Near
      /\ Len(Request) \in Near /\ Len(Reply) \in Near
  <2>1. /\ i \in Int /\ -Span <= i /\ i <= Span
        /\ r \in Int /\ -Span <= r /\ r <= Span
    BY <1>4, Sizes
  <2>2. /\ k \in Int /\ -Span <= k /\ k <= Span
        /\ a \in Int /\ -Span <= a /\ a <= Span
    BY <1>4, Sizes
  <2>3. /\ Len(Request) \in Int /\ -Span <= Len(Request) /\ Len(Request) <= Span
        /\ Len(Reply) \in Int /\ -Span <= Len(Reply) /\ Len(Reply) <= Span
    BY Sizes
  <2> QED BY <2>1, <2>2, <2>3, NearIs
<1>6. q.seq = Plus(ProxyBase, k)
  BY <1>2, <1>3, <1>5, MinusPlus, Bases
<1>7. q.ack = Plus(ClientBase, a) /\ q.ack \in SeqNo
  <2>1. Minus(Plus(ClientBase, r), Len(Request)) = Plus(ClientBase, a)
    BY <1>5, MinusPlus, Bases
  <2>2. Plus(ClientBase, a) \in SeqNo
    BY <1>5, PlusIs, Bases
  <2> HIDE DEF Plus, q
  <2> QED BY <1>2, <1>3, <2>1, <2>2
<1>8. a <= Delivered
  BY <1>4, Counted
<1>9. /\ Len(q.data) \in Nat /\ Len(ServerStream) \in Nat /\ k \in Int
      /\ k >= 0 => k + Len(q.data) <= Len(ServerStream)
  <2> DEFINE n == Len(q.data)
  <2>1. n \in Nat /\ i + n <= ProxyAllowed /\ ProxyAllowed \in 0..Len(Inbound)
    <3>1. n = Len(p.data)
      BY <1>3
    <3> HIDE DEF n, q
    <3> QED BY <1>2, <3>1
  <2> HIDE DEF n
  <2>2. i + n <= Len(Reply) + Len(ServerStream)
    BY <1>4, <2>1, Sizes
  <2>3. k \in Int /\ (k >= 0 => k + n <= Len(ServerStream))
    BY <1>4, <2>1, <2>2, Sizes
  <2> QED BY <2>1, <2>3, Sizes DEF n
<1>10. ASSUME k >= 0, NEW x \in 1..Len(q.data) PROVE q.data[x] = ServerStream[k + x]
  <2>1. k + x \in 1..Len(ServerStream)
    <3> HIDE DEF k, q
    <3> QED BY <1>9, <1>10
  <2>2. Inbound[Len(Reply) + (k + x)] = ServerStream[k + x]
    BY <2>1, Joined
  <2>3. Len(Reply) + (k + x) = i + x
    BY <1>4
  <2> QED BY <1>2, <1>3, <2>2, <2>3
<1> HIDE DEF q, k, a
<1>11. Piece(q, ProxyBase, ServerStream)
  BY <1>5, <1>6, <1>9, <1>10 DEF Piece
<1>12. AcksAtMost(q, ClientBase, Delivered)
  BY <1>5, <1>7, <1>8 DEF AcksAtMost
<1>13. q.data \in Seq(Bytes) /\ ~Has(q, "SYN")
  BY <1>2, <1>3 DEF Has
<1> QED BY <1>7, <1>11, <1>12, <1>13 DEF q, ToClient, Fits

\* A segment without data fits at any offset up to the stream's end; to the proxy
\* also with an unknown acknowledgement when the proxy may not have sent anything.
LEMMA BareFits ==
  ASSUME Heard, NEW k \in Near, NEW b \in Near, NEW s, s.data = <<>>, s.ack \in SeqNo
  PROVE  /\ /\ s.seq = Plus(ClientBase, k) /\ k <= Len(Outbound)
            /\ s.ack = Plus(ProxyBase, b) /\ b <= Len(Reply)
            => ToProxy(s)
         /\ /\ s.seq = Plus(ClientBase, k) /\ k <= Len(Outbound)
            /\ Has(s, "ACK") /\ ProxyAllowed = 0
            => ToProxy(s)
         /\ s.seq = ProxyBase /\ s.ack = ClientBase => ToClient(s)
<1>1. s.data \in Seq(Bytes) /\ Len(s.data) = 0
  OBVIOUS
<1>2. k \in Int /\ b \in Int /\ 0 \in Near
  BY Room DEF Near
<1>3. Received(client) \in Nat /\ Delivered \in Nat /\ Len(Reply) \in Nat /\ Len(ServerStream) \in Nat
  BY Counted, Lengths
<1>4. s.seq = Plus(ClientBase, k) /\ k <= Len(Outbound) => Piece(s, ClientBase, Outbound)
  BY <1>1, <1>2 DEF Piece
<1>5. s.seq = ProxyBase => Piece(s, ProxyBase, ServerStream)
  BY <1>1, <1>2, <1>3, Bases DEF Piece
<1>6. s.ack = Plus(ProxyBase, b) /\ b <= Len(Reply) =>
        AcksAtMost(s, ProxyBase, Len(Reply) + Received(client))
  BY <1>2, <1>3 DEF AcksAtMost
<1>7. s.ack = ClientBase => AcksAtMost(s, ClientBase, Delivered)
  BY <1>2, <1>3, Bases DEF AcksAtMost
<1>8. ProxyAllowed = 0 => ProxyMay = 0
  BY DEF ProxyMay
<1> QED BY <1>1, <1>4, <1>5, <1>6, <1>7, <1>8 DEF ToProxy, ToClient, Fits

\* The request goes where it belongs: each part at the total committed before it
\* (sendAuthRequest).
LEMMA RequestFits ==
  ASSUME Heard, NEW a, NEW out, NEW in \in 0..Len(Reply),
         clientSeq = ClientBase, proxySeq = ProxyBase,
         \/ a.stage = 1 /\ out = 0
         \/ a.stage = 2 /\ AuthKind = "sock5" /\ out = GreetLen
  PROVE  ToProxy(AuthRequest(a, out, in))
<1>1. PICK m \in 0..Len(Request) :
        /\ out \in 0..m
        /\ AuthRequest(a, out, in) =
             Segment(Plus(clientSeq, out), Plus(proxySeq, in), {"PSH", "ACK"}, RequestWindow(a),
                     SubSeq(Request, out + 1, m))
  <2>1. CASE a.stage = 1 /\ out = 0 /\ AuthKind = "sock5"
    <3>1. GreetLen \in 0..Len(Request) /\ out \in 0..GreetLen /\ out + 1 = 1
      BY <2>1, Lengths, AuthAssumption
    <3> QED BY <2>1, <3>1 DEF AuthRequest
  <2>2. CASE a.stage = 1 /\ out = 0 /\ AuthKind = "http"
    <3>1. /\ Len(Request) \in 0..Len(Request) /\ out \in 0..Len(Request)
          /\ out + 1 = 1 /\ Len(Request) - ReqLen + 1 = 1
      BY <2>2, Lengths, AuthAssumption
    <3> QED BY <2>2, <3>1 DEF AuthRequest
  <2>3. CASE a.stage = 2 /\ AuthKind = "sock5" /\ out = GreetLen
    <3>1. /\ Len(Request) \in 0..Len(Request) /\ out \in 0..Len(Request)
          /\ Len(Request) - ReqLen + 1 = out + 1
      BY <2>3, Lengths, AuthAssumption
    <3> QED BY <2>3, <3>1 DEF AuthRequest
  <2> QED BY <2>1, <2>2, <2>3, AuthAssumption
<1> DEFINE d == SubSeq(Request, out + 1, m)
           s == AuthRequest(a, out, in)
<1>2. out \in Nat /\ m \in Nat /\ in \in Nat /\ out <= m /\ m <= Len(Request)
  BY <1>1, Lengths
<1>3. d \in Seq(Bytes) /\ Len(d) = m - out /\ \A x \in 1..Len(d) : d[x] = Request[out + x]
  BY <1>2, Lengths
<1> HIDE DEF d
<1>4. /\ s.seq = Plus(ClientBase, out) /\ s.ack = Plus(ProxyBase, in) /\ s.data = d
  BY <1>1 DEF Segment, d
<1> HIDE DEF s
<1>5. out \in Near /\ in \in Near
  <2>1. /\ out \in Int /\ -Span <= out /\ out <= Span
        /\ in \in Int /\ -Span <= in /\ in <= Span
    BY <1>2, Sizes
  <2> QED BY <2>1, NearIs
<1>6. out + Len(s.data) <= Len(Outbound)
  BY <1>2, <1>3, <1>4, Lengths, Joined
<1>7. ASSUME NEW x \in 1..Len(s.data) PROVE s.data[x] = Outbound[out + x]
  <2>1. out + x \in 1..Len(Request) /\ x \in 1..Len(d)
    BY <1>2, <1>3, <1>4, Lengths
  <2> QED BY <1>3, <1>4, <2>1, Joined
<1>8. Piece(s, ClientBase, Outbound)
  BY <1>4, <1>5, <1>6, <1>7 DEF Piece
<1>9. in <= Len(Reply) + Received(client)
  BY <1>2, Counted, Lengths
<1>10. AcksAtMost(s, ProxyBase, Len(Reply) + Received(client))
  BY <1>4, <1>5, <1>9 DEF AcksAtMost
<1>11. s.data \in Seq(Bytes) /\ s.ack \in SeqNo
  BY <1>3, <1>4, <1>5, PlusIs, Bases
<1> QED BY <1>8, <1>10, <1>11 DEF s, ToProxy, Fits

\* How much either side may have sent (ClientAllowed, ProxyAllowed).
LEMMA Allowances ==
  /\ ClientAllowed \in 0..Len(ClientStream) /\ ClientAllowed \in Nat
  /\ ~client.wnd => ClientAllowed = 0
  /\ ProxyAllowed \in 0..Len(Inbound) /\ ProxyAllowed \in Nat
  /\ proxy.got = <<>> => ProxyAllowed = 0
<1>1. ClientAllowed \in 0..Len(ClientStream) /\ ClientAllowed \in Nat
      /\ (~client.wnd => ClientAllowed = 0)
  BY Lengths DEF ClientAllowed
<1>2. ProxyAllowed \in 0..Len(Inbound) /\ ProxyAllowed \in Nat
  BY Lengths, Sizes, AuthAssumption, TunnelAssumption DEF ProxyAllowed
<1>3. proxy.got = <<>> => Len(proxy.got) = 0
  OBVIOUS
<1>4. proxy.got = <<>> => ProxyAllowed = 0
  BY <1>3, Lengths, AuthAssumption DEF ProxyAllowed
<1> QED BY <1>1, <1>2, <1>4

\* The endpoints' segments are packets with the fields dispatchPacket reads.
LEMMA HandshakeSegments ==
  /\ Segment(ClientISN, 0, {"SYN"}, 1, <<>>) \in Segments
  /\ Segment(ProxyISN, ClientBase, {"SYN", "ACK"}, 1, <<>>) \in Segments
<1>1. ASSUME NEW x \in SeqNo, NEW y \in SeqNo, NEW flags \in SUBSET {"SYN", "ACK", "FIN", "RST", "PSH"},
             NEW d \in Seq(Bytes)
      PROVE  Segment(x, y, flags, 1, d) \in Segments
  BY DEF Segment, Segments
<1>2. {"SYN"} \in SUBSET {"SYN", "ACK", "FIN", "RST", "PSH"}
      /\ {"SYN", "ACK"} \in SUBSET {"SYN", "ACK", "FIN", "RST", "PSH"}
  OBVIOUS
<1>3. <<>> \in Seq(Bytes)
  OBVIOUS
<1> QED BY <1>1, <1>2, <1>3, Bases, ZeroSeqNo

\* What the client sends is forwarded as something that fits (Forwarded).
LEMMA ClientForwarded ==
  ASSUME TunnelInv, NEW p \in ClientPackets
  PROVE  /\ p \in Segments /\ p.win = 1
         /\ \A s \in Forwarded("client", p) : ToProxy(s)
         /\ state \in {"NONE", "CLOSED", "SYN_SENT", "SYN_RECEIVED"} =>
              \A s \in Forwarded("client", p) : Has(s, "SYN") \/ s.data = <<>>
<1> USE DEF TunnelInv
<1>1. CASE p = Segment(ClientISN, 0, {"SYN"}, 1, <<>>)
  <2>1. p \in Segments /\ p.win = 1 /\ p.flags = {"SYN"}
    BY <1>1, HandshakeSegments DEF Segment
  <2>2. Has(p, "SYN")
    BY <2>1 DEF Has
  <2>3. TransferOut("client", p).flags = p.flags
    BY <2>1 DEF TransferOut, Segments
  <2>4. Has(TransferOut("client", p), "SYN")
    BY <2>1, <2>3 DEF Has
  <2>5. Has(Windowless(p), "SYN")
    BY <2>1, <2>2, SynFits
  <2>6. \A s \in Forwarded("client", p) : Has(s, "SYN")
    BY <2>4, <2>5 DEF Forwarded
  <2>7. \A s \in Forwarded("client", p) : ToProxy(s)
    BY <2>6 DEF ToProxy, Fits
  <2> QED BY <2>1, <2>6, <2>7
<1>2. CASE \E i \in 0..ClientAllowed, r \in 0..Received(client) :
             Carries(p, i, r, ClientStream, ClientAllowed, ClientBase, ProxyBase)
  <2>1. PICK i \in 0..ClientAllowed, r \in 0..Received(client) :
          Carries(p, i, r, ClientStream, ClientAllowed, ClientBase, ProxyBase)
    BY <1>2
  <2>2. p \in Segments /\ p.win = 1 /\ ~Has(p, "SYN") /\ p.data \in Seq(Bytes)
    BY <2>1 DEF Carries, Has, Segments
  <2>3. CASE state \in {"ESTABLISHING", "ESTABLISHED", "FIN_WAIT"}
    <3>1. ToProxy(TransferOut("client", p))
      BY <2>1, <2>3, ClientSpliced, Allowances DEF Asked
    <3>2. Forwarded("client", p) = {TransferOut("client", p)}
      BY <2>3 DEF Forwarded, IsSYN1, IsSYN2, IsSYN3
    <3> QED BY <2>2, <2>3, <3>1, <3>2
  <2>4. CASE IsSYN3("client", p)
    <3>1. state = "SYN_RECEIVED" /\ p.ack = proxySeq /\ proxySeq = ProxyBase
      BY <2>4 DEF IsSYN3, Numbers
    <3>2. ClientAllowed = 0
      BY <3>1, Allowances DEF WindowGate
    <3>3. i = 0 /\ p.seq = Plus(ClientBase, i) /\ Len(p.data) \in Nat /\ i + Len(p.data) <= 0
      BY <2>1, <2>2, <3>2 DEF Carries
    <3>4. p.data = <<>>
      BY <2>2, <3>3
    <3>5. /\ Windowless(p).seq = p.seq /\ Windowless(p).ack = p.ack
          /\ Windowless(p).data = p.data
      BY <2>2 DEF Windowless, Segments
    <3>6. 0 \in Near /\ p.ack \in SeqNo /\ 0 <= Len(Outbound) /\ 0 <= Len(Reply)
      BY <2>2, Room, Sizes DEF Near, Segments
    <3> HIDE DEF Windowless, Plus
    <3>7. ToProxy(Windowless(p))
      BY <3>1, <3>3, <3>4, <3>5, <3>6, BareFits, Bases
    <3>8. Forwarded("client", p) = {Windowless(p)}
      BY <2>4 DEF Forwarded
    <3> QED BY <2>2, <3>4, <3>5, <3>7, <3>8
  <2>5. CASE state \notin {"ESTABLISHING", "ESTABLISHED", "FIN_WAIT"} /\ ~IsSYN3("client", p)
    <3>1. Forwarded("client", p) = {}
      BY <2>2, <2>5 DEF Forwarded, IsSYN1, IsSYN2
    <3> QED BY <2>2, <3>1
  <2> QED BY <2>3, <2>4, <2>5
<1> QED BY <1>1, <1>2, FromClient

\* What the proxy sends is forwarded as something that fits, and opens no window
\* before the tunnel is granted (Forwarded).
LEMMA ProxyForwarded ==
  ASSUME TunnelInv, ~Coalesce, NEW p \in ProxyPackets
  PROVE  /\ p \in Segments /\ p.win = 1
         /\ \A s \in Forwarded("proxy", p) : ToClient(s)
         /\ state \notin {"ESTABLISHING", "ESTABLISHED", "FIN_WAIT"} =>
              /\ \A s \in Forwarded("proxy", p) : Has(s, "SYN") /\ s.win = 0
              /\ Forwarded("proxy", p) # {} => IsSYN2("proxy", p)
<1> USE DEF TunnelInv
<1>1. CASE p = Segment(ProxyISN, ClientBase, {"SYN", "ACK"}, 1, <<>>)
  <2>1. p \in Segments /\ p.win = 1 /\ p.flags = {"SYN", "ACK"}
    BY <1>1, HandshakeSegments DEF Segment
  <2>2. Has(p, "SYN")
    BY <2>1 DEF Has
  <2>3. TransferOut("proxy", p).flags = p.flags
    BY <2>1 DEF TransferOut, Segments
  <2>4. Has(TransferOut("proxy", p), "SYN")
    BY <2>1, <2>3 DEF Has
  <2>5. Has(Windowless(p), "SYN") /\ Windowless(p).win = 0
    BY <2>1, <2>2, SynFits
  <2>6. \A s \in Forwarded("proxy", p) : Has(s, "SYN")
    BY <2>4, <2>5 DEF Forwarded
  <2>7. \A s \in Forwarded("proxy", p) : ToClient(s)
    BY <2>6 DEF ToClient, Fits
  <2>8. state \notin {"ESTABLISHING", "ESTABLISHED", "FIN_WAIT"} =>
          /\ \A s \in Forwarded("proxy", p) : s.win = 0
          /\ Forwarded("proxy", p) # {} => IsSYN2("proxy", p)
    BY <2>5 DEF Forwarded, IsSYN1, IsSYN3
  <2> QED BY <2>1, <2>6, <2>7, <2>8
<1>2. CASE \E i \in 0..ProxyAllowed, r \in 0..Received(proxy) :
             Carries(p, i, r, Inbound, ProxyAllowed, ProxyBase, ClientBase)
  <2>1. PICK i \in 0..ProxyAllowed, r \in 0..Received(proxy) :
          Carries(p, i, r, Inbound, ProxyAllowed, ProxyBase, ClientBase)
    BY <1>2
  <2>2. p \in Segments /\ p.win = 1 /\ ~Has(p, "SYN")
    BY <2>1 DEF Carries, Has, Segments
  <2>3. CASE state \in {"ESTABLISHING", "ESTABLISHED", "FIN_WAIT"}
    <3>1. ToClient(TransferOut("proxy", p))
      BY <2>1, <2>3, ProxySpliced, Allowances DEF Asked
    <3>2. Forwarded("proxy", p) = {TransferOut("proxy", p)}
      BY <2>3 DEF Forwarded, IsSYN1, IsSYN2, IsSYN3
    <3> QED BY <2>2, <2>3, <3>1, <3>2
  <2>4. CASE state \notin {"ESTABLISHING", "ESTABLISHED", "FIN_WAIT"}
    <3>1. Forwarded("proxy", p) = {}
      BY <2>2, <2>4 DEF Forwarded, IsSYN1, IsSYN2, IsSYN3
    <3> QED BY <2>2, <3>1
  <2> QED BY <2>3, <2>4
<1> QED BY <1>1, <1>2, FromProxy

\* What a timeout sends fits, also while closing with the totals of a request that
\* was cut short, or with no answer to the SYN (TimeoutToProxy, TimeoutToClient).
LEMMA TimeoutSends ==
  ASSUME TunnelInv, state # "NONE"
  PROVE  /\ \A s \in TimeoutToProxy : ToProxy(s)
         /\ state = "CLOSING" => \A s \in TimeoutToProxy : s.data = <<>>
         /\ \A s \in TimeoutToClient : ToClient(s) \/ ~client.up
         /\ \A s \in TimeoutToClient : ~Has(s, "SYN")
         /\ state \in {"SYN_SENT", "SYN_RECEIVED", "AUTH"} => TimeoutToClient = {}
<1> USE DEF TunnelInv
<1>1. clientSeq = ClientBase /\ clientSeq \in SeqNo /\ proxySeq \in SeqNo
  BY DEF Lifetime, IInv, TypeOK
<1>2. ASSUME NEW q \in SeqNo, NEW b \in SeqNo, NEW flags, NEW win
      PROVE  LET s == Segment(q, b, flags, win, <<>>) IN
             /\ s.seq = q /\ s.ack = b /\ s.flags = flags /\ s.data = <<>>
             /\ (Has(s, "SYN") <=> "SYN" \in flags) /\ (Has(s, "ACK") <=> "ACK" \in flags)
  BY DEF Segment, Has
<1>3. ASSUME NEW s \in TimeoutToProxy PROVE ToProxy(s) /\ (state = "CLOSING" => s.data = <<>>)
  <2>1. CASE state = "AUTH"
    <3>1. s = AuthRequest(auth, outTotal, inTotal)
      BY <2>1 DEF TimeoutToProxy
    <3>2. proxySeq = ProxyBase /\ inTotal \in 0..Len(Reply)
      <4>1. inTotal \in Nat /\ inTotal < Len(Reply)
        BY <2>1, Room DEF Asked, IInv, TypeOK, SeqNo
      <4> QED BY <2>1, <4>1, Lengths DEF Numbers
    <3> QED BY <1>1, <2>1, <3>1, <3>2, RequestFits DEF Asked
  <2>2. CASE state # "AUTH"
    <3>1. PICK flags \in {{"ACK"}, {"FIN", "ACK"}} :
            s = Segment(Plus(clientSeq, outTotal), Plus(proxySeq, inTotal), flags, clientWnd, <<>>)
      BY <2>2 DEF TimeoutToProxy
    <3>2. state \in {"ESTABLISHING", "CLOSING"}
      BY <2>2 DEF TimeoutToProxy
    <3>3. /\ outTotal \in Nat /\ outTotal <= Len(Request)
          /\ inTotal \in Nat /\ inTotal <= Len(Reply)
      BY <3>2, Sizes, Room DEF Asked, IInv, TypeOK, SeqNo
    <3>4. outTotal \in Near /\ inTotal \in Near
      <4>1. -Span <= outTotal /\ outTotal <= Span /\ -Span <= inTotal /\ inTotal <= Span
        BY <3>3, Sizes
      <4> QED BY <3>3, <4>1, NearIs
    <3>5. Plus(clientSeq, outTotal) \in SeqNo /\ Plus(proxySeq, inTotal) \in SeqNo
      BY <1>1, <3>4, PlusIs
    <3>6. /\ s.seq = Plus(ClientBase, outTotal) /\ s.ack = Plus(proxySeq, inTotal)
          /\ s.data = <<>> /\ Has(s, "ACK") /\ s.ack \in SeqNo
      BY <1>1, <1>2, <3>1, <3>5
    <3>7. outTotal <= Len(Outbound)
      BY <3>3, Sizes
    <3> HIDE DEF Plus
    <3>8. CASE proxySeq = ProxyBase
      BY <3>3, <3>4, <3>6, <3>7, <3>8, BareFits
    <3>9. CASE Unanswered
      <4>1. ProxyAllowed = 0
        BY <3>9, Allowances DEF Unanswered
      <4> QED BY <3>4, <3>6, <3>7, <4>1, BareFits
    <3> QED BY <3>2, <3>6, <3>8, <3>9 DEF Numbers
  <2> QED BY <2>1, <2>2
<1>4. ASSUME NEW s \in TimeoutToClient PROVE (ToClient(s) \/ ~client.up) /\ ~Has(s, "SYN")
  <2>1. PICK flags \in {{"ACK"}, {"FIN", "ACK"}} :
          s = Segment(proxySeq, clientSeq, flags, proxyWnd, <<>>)
    BY DEF TimeoutToClient
  <2>2. state \in {"ESTABLISHING", "CLOSING"}
    BY DEF TimeoutToClient
  <2>3. /\ s.seq = proxySeq /\ s.ack = ClientBase /\ s.data = <<>> /\ s.ack \in SeqNo
        /\ ~Has(s, "SYN")
    BY <1>1, <1>2, <2>1
  <2>4. 0 \in Near
    BY Room DEF Near
  <2>5. CASE proxySeq = ProxyBase
    BY <2>3, <2>4, <2>5, BareFits
  <2>6. CASE Unanswered
    BY <2>3, <2>6 DEF Unanswered
  <2> QED BY <2>2, <2>5, <2>6 DEF Numbers
<1>5. state \in {"SYN_SENT", "SYN_RECEIVED", "AUTH"} => TimeoutToClient = {}
  BY DEF TimeoutToClient
<1> QED BY <1>3, <1>4, <1>5

-----------------------------------------------------------------------------
(* The counters of the management page (Advance, TransferData).              *)

\* A counter goes to the offset that is acknowledged, or stays when that is old.
LEMMA AdvanceIs ==
  ASSUME NEW base \in SeqNo, NEW c \in Nat, NEW x \in Near, c \in Near, x - c \in Near, x < Span
  PROVE  Advance(c, Plus(base, x), base) = IF x > c THEN x ELSE c
<1> DEFINE d == Minus(Plus(base, x), Plus(base, c))
<1>1. x \in Int /\ -Span <= x - c /\ -Span <= x /\ c <= Span
  BY Room DEF Near
<1>2. d = IF x >= c THEN x - c ELSE x - c + SeqWrap
  BY Differences
<1>3. Advance(c, Plus(base, x), base) = IF d > 0 /\ d < Half THEN Plus(c, d) ELSE c
  BY DEF Advance, Half
<1> HIDE DEF d
<1>4. CASE x > c
  <2>1. d = x - c /\ d > 0 /\ d < Half /\ d \in Int
    BY <1>1, <1>2, <1>4, Room
  <2>2. c \in SeqNo /\ d \in Near
    BY <1>1, <1>4, <2>1, Room DEF SeqNo, Near
  <2>3. Plus(c, d) = IF c + d < 0 THEN c + d + SeqWrap
                     ELSE IF c + d < SeqWrap THEN c + d ELSE c + d - SeqWrap
    BY <2>2, PlusIs
  <2>4. c + d = x /\ 0 <= x /\ x < SeqWrap
    BY <1>1, <1>4, <2>1, Room
  <2>5. Plus(c, d) = x
    BY <1>1, <2>1, <2>3, <2>4
  <2> QED BY <1>3, <1>4, <2>1, <2>5
<1>5. CASE ~(x > c)
  <2>1. ~(d > 0 /\ d < Half)
    BY <1>1, <1>2, <1>5, Room
  <2> QED BY <1>3, <1>5, <2>1
<1> QED BY <1>4, <1>5

\* The offsets the counters are compared with are near, and so are their distances.
LEMMA Within ==
  /\ \A x, y \in Nat : x <= Len(ServerStream) + 1 /\ y <= Len(ServerStream) + 1 =>
       x \in Near /\ y \in Near /\ x - y \in Near /\ x < Span
  /\ \A r, y \in Nat : r <= Len(Outbound) + 1 /\ y <= Len(ClientStream) + 1 =>
       LET x == r - Len(Request) IN
       /\ r \in Near /\ Len(Request) \in Near
       /\ x \in Near /\ y \in Near /\ x - y \in Near /\ x < Span
<1> DEFINE q == Len(Request)
           a == Len(Reply)
           c == Len(ClientStream)
           v == Len(ServerStream)
           o == Len(Outbound)
           w == Span
<1>1. /\ q \in Nat /\ a \in Nat /\ c \in Nat /\ v \in Nat
      /\ o = q + c /\ w = o + a + v + 3
  BY Sizes
<1>2. \A x \in Int : -w <= x /\ x <= w => x \in Near
  BY NearIs
<1> HIDE DEF q, a, c, v, o, w
<1>3. ASSUME NEW x \in Nat, NEW y \in Nat, x <= v + 1, y <= v + 1
      PROVE  x \in Near /\ y \in Near /\ x - y \in Near /\ x < w
  <2>1. x < w /\ y <= w /\ -w <= x /\ -w <= y /\ -w <= x - y /\ x - y <= w
    BY <1>1, <1>3
  <2> QED BY <1>1, <1>2, <2>1
<1>4. ASSUME NEW r \in Nat, NEW y \in Nat, r <= o + 1, y <= c + 1
      PROVE  /\ r \in Near /\ q \in Near /\ r - q \in Near
             /\ y \in Near /\ (r - q) - y \in Near /\ r - q < w
  <2>1. /\ r <= w /\ -w <= r /\ q <= w /\ -w <= q /\ y <= w /\ -w <= y
        /\ r - q < w /\ -w <= r - q /\ (r - q) - y <= w /\ -w <= (r - q) - y
    BY <1>1, <1>4
  <2>2. r - q \in Int /\ (r - q) - y \in Int /\ q \in Int
    BY <1>1
  <2> QED BY <1>1, <1>2, <2>1, <2>2
<1> QED BY <1>3, <1>4 DEF q, c, v, o, w

\* Neither counter passes what has arrived, whichever side acknowledges.
LEMMA CountsHold ==
  ASSUME Heard, Heard', CountsHonest, NEW from \in From, NEW p, TransferData(from, p),
         clientSeq = ClientBase, proxySeq = ProxyBase, outTotal = Len(Request),
         upBytes \in SeqNo, downBytes \in SeqNo,
         from = "client" /\ Has(p, "ACK") =>
           \E r \in 0..Received(client) : p.ack = Plus(ProxyBase, r),
         from = "proxy" /\ Has(p, "ACK") =>
           \E r \in 0..Received(proxy) : p.ack = Plus(ClientBase, r),
         Received(client') >= Received(client), Delivered' >= Delivered
  PROVE  CountsHonest'
<1>1. /\ downBytes \in Nat /\ downBytes <= Received(client)
      /\ upBytes \in Nat /\ upBytes <= Delivered
  BY Room DEF CountsHonest, SeqNo
<1>2. /\ Received(client) \in Nat /\ Received(client) <= Len(ServerStream) + 1
      /\ Received(proxy) \in Nat /\ Received(proxy) <= Len(Outbound) + 1
      /\ Delivered \in Nat /\ Delivered <= Len(ClientStream) + 1
      /\ Received(proxy) - Len(Request) <= Delivered
  BY Counted
<1>3. client' \in Endpoints
  BY DEF Heard
<1>4. Received(client') \in Nat
  BY <1>3, ReceivedIs
<1>5. Delivered' \in Nat
  <2>1. proxy' \in Endpoints
    BY DEF Heard
  <2>2. Received(proxy') \in Nat
    BY <2>1, ReceivedIs
  <2>3. Delivered' = IF Received(proxy') > Len(Request) THEN Received(proxy') - Len(Request) ELSE 0
    BY DEF Delivered
  <2> HIDE DEF Received
  <2> QED BY <2>2, <2>3, Sizes
<1>9. ASSUME downBytes' \in Nat, downBytes' <= Received(client),
             upBytes' \in Nat, upBytes' <= Delivered
      PROVE  CountsHonest'
  <2> DEFINE rc == Received(client)
             rd == Received(client')
             dc == Delivered
             dd == Delivered'
  <2>1. rc \in Nat /\ rd \in Nat /\ rc <= rd /\ dc \in Nat /\ dd \in Nat /\ dc <= dd
    BY <1>2, <1>4, <1>5
  <2>2. downBytes' <= rc /\ upBytes' <= dc
    BY <1>9
  <2> HIDE DEF rc, rd, dc, dd
  <2>3. downBytes' <= rd /\ upBytes' <= dd
    BY <1>9, <2>1, <2>2
  <2> QED BY <2>3 DEF rd, dd, CountsHonest
<1>6. CASE ~Has(p, "ACK")
  <2>1. downBytes' = downBytes /\ upBytes' = upBytes
    BY <1>6 DEF TransferData, counts
  <2> QED BY <1>1, <1>9, <2>1
<1>7. CASE Has(p, "ACK") /\ from = "client"
  <2>1. PICK r \in 0..Received(client) : p.ack = Plus(ProxyBase, r)
    BY <1>7
  <2>2. downBytes' = Advance(downBytes, p.ack, proxySeq) /\ upBytes' = upBytes
    BY <1>7 DEF TransferData
  <2>3. r \in Near /\ downBytes \in Near /\ r - downBytes \in Near /\ r < Span
    <3> DEFINE n == Received(client)
               v == Len(ServerStream)
    <3>1. r \in 0..n /\ downBytes <= n /\ n \in Nat /\ n <= v + 1 /\ v \in Nat
      BY <1>1, <1>2, Sizes
    <3> HIDE DEF n, v
    <3>2. /\ r \in Nat /\ r <= v + 1
          /\ downBytes \in Nat /\ downBytes <= v + 1
      BY <1>1, <3>1
    <3> QED BY <3>2, Within DEF v
  <2>4. downBytes' = IF r > downBytes THEN r ELSE downBytes
    BY <1>1, <2>1, <2>2, <2>3, AdvanceIs, Bases
  <2>5. downBytes' <= Received(client)
    BY <1>1, <1>2, <2>4
  <2>6. downBytes' \in Nat
    BY <1>1, <1>2, <2>4
  <2> QED BY <1>1, <1>9, <2>2, <2>5, <2>6
<1>8. CASE Has(p, "ACK") /\ from = "proxy"
  <2>1. PICK r \in 0..Received(proxy) : p.ack = Plus(ClientBase, r)
    BY <1>8
  <2> DEFINE x == r - Len(Request)
  <2>2. downBytes' = downBytes /\ upBytes' = Advance(upBytes, Minus(p.ack, outTotal), clientSeq)
    BY <1>8 DEF TransferData
  <2>3. /\ r \in Near /\ Len(Request) \in Near /\ x \in Near /\ upBytes \in Near
        /\ x - upBytes \in Near /\ x < Span
    <3> DEFINE n == Received(proxy)
               o == Len(Outbound)
               c == Len(ClientStream)
               d == Delivered
    <3>1. /\ r \in 0..n /\ n \in Nat /\ n <= o + 1 /\ upBytes <= d /\ d \in Nat /\ d <= c + 1
          /\ c \in Nat /\ o \in Nat
      BY <1>1, <1>2, Sizes
    <3> HIDE DEF n, o, c, d
    <3>2. r \in Nat /\ r <= o + 1 /\ upBytes \in Nat /\ upBytes <= c + 1
      BY <1>1, <3>1
    <3> QED BY <3>2, Within DEF o, c
  <2>4. Minus(p.ack, outTotal) = Plus(ClientBase, x)
    BY <2>1, <2>3, MinusPlus, Bases
  <2> HIDE DEF x
  <2>5. upBytes' = IF x > upBytes THEN x ELSE upBytes
    BY <1>1, <2>2, <2>3, <2>4, AdvanceIs, Bases
  <2>6. x \in Int /\ x <= Delivered
    <3> DEFINE n == Received(proxy)
               q == Len(Request)
               d == Delivered
    <3>1. r \in 0..n /\ n \in Nat /\ q \in Nat /\ d \in Nat /\ n - q <= d /\ x = r - q
      BY <1>2, Sizes DEF x
    <3> HIDE DEF n, q, d
    <3>2. x \in Int /\ x <= d
      BY <3>1
    <3> QED BY <3>2 DEF d
  <2>7. upBytes' \in Nat /\ upBytes' <= Delivered
    <3> DEFINE d == Delivered
    <3>1. d \in Nat /\ upBytes \in Nat /\ upBytes <= d /\ x \in Int /\ x <= d
      BY <1>1, <1>2, <2>6
    <3> HIDE DEF d
    <3>2. upBytes' \in Nat /\ upBytes' <= d
      BY <2>5, <3>1
    <3> QED BY <3>2 DEF d
  <2> QED BY <1>1, <1>9, <2>2, <2>7
<1> QED BY <1>6, <1>7, <1>8 DEF From

\* Counters that do not move, or start over, stay honest: what has arrived only
\* grows.
LEMMA CountsKept ==
  ASSUME Heard, Heard', CountsHonest, upBytes \in SeqNo, downBytes \in SeqNo,
         UNCHANGED counts \/ (upBytes' = 0 /\ downBytes' = 0),
         Received(client') >= Received(client), Delivered' >= Delivered
  PROVE  CountsHonest'
<1> DEFINE rc == Received(client)
           rd == Received(client')
           dc == Delivered
           dd == Delivered'
<1>1. /\ downBytes \in Nat /\ downBytes <= rc /\ upBytes \in Nat /\ upBytes <= dc
      /\ rc \in Nat /\ dc \in Nat /\ rd >= rc /\ dd >= dc
  BY Counted, Room DEF CountsHonest, SeqNo
<1>2. rd \in Nat /\ dd \in Nat
  <2>1. client' \in Endpoints /\ proxy' \in Endpoints
    BY DEF Heard
  <2>2. rd \in Nat /\ Received(proxy') \in Nat
    BY <2>1, ReceivedIs
  <2>3. dd = IF Received(proxy') > Len(Request) THEN Received(proxy') - Len(Request) ELSE 0
    BY DEF Delivered
  <2> HIDE DEF Received, dd
  <2> QED BY <2>2, <2>3, Sizes
<1>3. (downBytes' = downBytes /\ upBytes' = upBytes) \/ (upBytes' = 0 /\ downBytes' = 0)
  BY DEF counts
<1> HIDE DEF rc, rd, dc, dd
<1>4. downBytes' <= rd /\ upBytes' <= dd
  BY <1>1, <1>2, <1>3
<1> QED BY <1>4 DEF rd, dd, CountsHonest

-----------------------------------------------------------------------------
(* Every step keeps the invariant.                                           *)

LEMMA TunnelStarts == TunnelInit => TunnelInv
<1> SUFFICES ASSUME TunnelInit PROVE TunnelInv
  OBVIOUS
<1>1. Init /\ opened = FALSE /\ client = Silent /\ proxy = Silent
  BY DEF TunnelInit
<1>2. IInv
  BY <1>1, InvariantInit
<1>3. state = "NONE" /\ outTotal = 0 /\ inTotal = 0 /\ upBytes = 0 /\ downBytes = 0
  BY <1>1 DEF Init
<1>4. /\ Silent \in Endpoints /\ Silent.got = <<>> /\ Silent.acked = 0 /\ Len(Silent.got) = 0
      /\ ~Silent.wnd
  BY DEF Silent, Endpoints
<1>5. Heard
  BY <1>1, <1>4, Sizes DEF Heard, Agrees
<1>6. /\ Received(client) \in Nat /\ Delivered \in Nat /\ Len(Reply) \in Nat
  BY <1>5, Counted, Sizes
<1>7. EndToEndAcks /\ CountsHonest
  BY <1>1, <1>3, <1>4, <1>6 DEF EndToEndAcks, CountsHonest
<1>8. Lifetime /\ Numbers /\ Asked /\ WindowGate
  BY <1>1, <1>3, <1>4 DEF Lifetime, Numbers, Asked, WindowGate
<1> QED BY <1>2, <1>5, <1>7, <1>8 DEF TunnelInv

\* A packet of the client: its SYN opens the connection once, its handshake is
\* forwarded empty, and its data only behind the whole request.
LEMMA ClientStep == ASSUME TunnelInv, ServeClient PROVE TunnelInv'
<1> USE DEF TunnelInv
<1>1. PICK p \in ClientPackets :
        ServePacket("client", p) /\ Reaches({}, Forwarded("client", p))
  BY DEF ServeClient
<1>2. opened' = TRUE
  BY DEF ServeClient
<1>3. p \in Segments /\ p.win = 1
  BY ClientForwarded
<1>4. IInv'
  <2>1. Typed(p)
    BY <1>3 DEF Typed, Segments
  <2> QED BY <1>1, <2>1, PacketStep DEF From
<1>5. client' = client
  BY <1>1 DEF Reaches
<1>6. /\ Heard' /\ EndToEndAcks'
      /\ Received(client') >= Received(client) /\ Delivered' >= Delivered
      /\ state \in {"NONE", "CLOSED", "SYN_SENT", "SYN_RECEIVED"} => proxy'.got = proxy.got
  <2>1. \A s \in Forwarded("client", p) : ToProxy(s)
    BY ClientForwarded
  <2>2. state \in {"NONE", "CLOSED", "SYN_SENT", "SYN_RECEIVED"} =>
          \A s \in Forwarded("client", p) : Has(s, "SYN") \/ s.data = <<>>
    BY ClientForwarded
  <2> QED BY <1>1, <2>1, <2>2, ReachesSafely, Allowances DEF ToProxy, ProxyMay
<1>7. upBytes \in SeqNo /\ downBytes \in SeqNo
  BY DEF IInv, TypeOK
<1>8. UNCHANGED counts => CountsHonest'
  BY <1>6, <1>7, CountsKept
<1>9. CASE TransferSYN1("client", p)
  <2>1. Has(p, "SYN") /\ state \in {"NONE", "CLOSED", "SYN_SENT"}
    BY <1>9 DEF TransferSYN1, IsSYN1
  <2>2. /\ ~client.up /\ (opened => state \notin {"NONE", "CLOSED"})
        /\ p = Segment(ClientISN, 0, {"SYN"}, 1, <<>>)
    BY <2>1, FromClient DEF Carries, Has
  <2>3. proxy.got = <<>> /\ outTotal = 0 /\ inTotal = 0 /\ ~client.wnd
    BY <2>1, <2>2 DEF Lifetime, Numbers, Asked, WindowGate, Unanswered, Silent
  <2>4. p.seq = ClientISN
    BY <2>2 DEF Segment
  <2>5. /\ clientSeq' = ClientBase /\ state' = "SYN_SENT"
        /\ UNCHANGED <<proxySeq, auth, totals, counts>>
    BY <1>9, <2>4 DEF TransferSYN1, ClientBase
  <2>6. Unanswered'
    BY <1>5, <1>6, <2>1, <2>2, <2>3, <2>5 DEF Unanswered, totals
  <2> QED BY <1>2, <1>4, <1>5, <1>6, <1>8, <2>3, <2>5, <2>6
          DEF Lifetime, Numbers, Asked, WindowGate, totals
<1>10. CASE TransferSYN3("client", p)
  <2>1. state = "SYN_RECEIVED" /\ state' = "AUTH" /\ auth' = NewAuth
        /\ UNCHANGED <<seqVars, totals, counts>>
    BY <1>10 DEF TransferSYN3, IsSYN3
  <2> QED BY <1>2, <1>4, <1>5, <1>6, <1>8, <2>1, Lengths
          DEF Lifetime, Numbers, Asked, WindowGate, totals, seqVars, NewAuth
<1>11. CASE EstablishedDispatchPacket("client", p) \/ FinWaitDispatchPacket("client", p)
  <2>1. /\ state \in {"ESTABLISHING", "ESTABLISHED", "FIN_WAIT"}
        /\ state' \in {"ESTABLISHED", "FIN_WAIT"}
        /\ TransferData("client", p) /\ UNCHANGED <<seqVars, totals>>
    BY <1>11 DEF EstablishedDispatchPacket, FinWaitDispatchPacket
  <2>2. Has(p, "ACK") => \E r \in 0..Received(client) : p.ack = Plus(ProxyBase, r)
    BY FromClient DEF Carries, Has, Segment
  <2>3. CountsHonest'
    BY <1>6, <1>7, <2>1, <2>2, CountsHold DEF From, Lifetime, Numbers, Asked
  <2> QED BY <1>2, <1>4, <1>5, <1>6, <2>1, <2>3
          DEF Lifetime, Numbers, Asked, WindowGate, totals, seqVars
<1>12. CASE ClosingDispatchPacket("client", p)
  <2>1. /\ state = "CLOSING" /\ state' \in {"CLOSING", "CLOSED"}
        /\ UNCHANGED <<seqVars, totals, counts>>
    BY <1>12 DEF ClosingDispatchPacket, Closed
  <2>2. proxy'.got = proxy.got
    <3>1. Forwarded("client", p) = {}
      BY <2>1 DEF Forwarded, IsSYN1, IsSYN2, IsSYN3
    <3> QED BY <1>1, <3>1 DEF Reaches
  <2> QED BY <1>2, <1>4, <1>5, <1>6, <1>8, <2>1, <2>2
          DEF Lifetime, Numbers, Asked, WindowGate, Unanswered, totals, seqVars
<1>13. CASE Ignored("client", p)
  <2>1. UNCHANGED connVars
    BY <1>13 DEF Ignored
  <2>2. proxy' = proxy
    <3>1. Forwarded("client", p) = {}
      BY <1>13 DEF Ignored, Forwarded
    <3> QED BY <1>1, <3>1 DEF Reaches
  <2> QED BY <1>2, <1>4, <1>5, <1>6, <1>8, <2>1, <2>2
          DEF Lifetime, Numbers, Asked, WindowGate, Unanswered, connVars, totals, seqVars
<1>14. ~TransferSYN2("client", p) /\ ~AuthDispatchPacket("client", p)
  BY DEF TransferSYN2, IsSYN2, AuthDispatchPacket, IsAuthReply
<1> QED BY <1>1, <1>9, <1>10, <1>11, <1>12, <1>13, <1>14 DEF ServePacket, DispatchPacket

\* An answer commits the part of the request it is about, and the tunnel is granted
\* only when all of it is committed (onAuthResponse, commitAuthRequest).
LEMMA VerdictCommits ==
  ASSUME NEW a \in AuthObject, NEW n \in Nat, NEW v \in OnAuthResponse(a, n), NEW out,
         \/ a.stage = 1 /\ out = 0
         \/ a.stage = 2 /\ AuthKind = "sock5" /\ out = GreetLen
  PROVE  /\ v.r = 0 => v.commit = 0
         /\ v.r = 1 => out + v.commit = Len(Request)
         /\ v.r = -1 =>
              \/ v.commit = 0 /\ v.auth.stage = a.stage
              \/ /\ a.stage = 1 /\ AuthKind = "sock5"
                 /\ v.commit = GreetLen /\ v.auth.stage = 2
<1> USE AuthAssumption
<1> DEFINE b == [a EXCEPT !.got = a.got + n]
<1>1. b.stage = a.stage
  BY DEF AuthObject
<1>2. Len(Request) = IF AuthKind = "http" THEN ReqLen ELSE GreetLen + ReqLen
  BY Lengths
<1>3. ASSUME NEW c
      PROVE  /\ GoOn(c).r = -1 /\ GoOn(c).commit = 0 /\ GoOn(c).auth = c
             /\ Refused(c).r = 0 /\ Refused(c).commit = 0
             /\ Accepted(c).r = 1 /\ Accepted(c).commit = ReqLen
  BY DEF GoOn, Refused, Accepted, Verdict
<1>4. CASE v \in {GoOn(a), GoOn(b), Refused(a), Refused(b)}
  <2>1. v.r \in {0, -1} /\ v.commit = 0 /\ (v.r = -1 => v.auth = a \/ v.auth = b)
    <3> HIDE DEF b
    <3> QED BY <1>3, <1>4
  <2> HIDE DEF b
  <2> QED BY <1>1, <2>1
<1>5. CASE v = Accepted(b) /\ (AuthKind = "http" \/ a.stage = 2)
  <2>1. v.r = 1 /\ v.commit = ReqLen
    <3> HIDE DEF b
    <3> QED BY <1>3, <1>5
  <2>2. out + ReqLen = Len(Request)
    BY <1>2, <1>5
  <2> QED BY <2>1, <2>2
<1>6. CASE v = Verdict(-1, [stage |-> 2, got |-> 0], GreetLen, TRUE) /\ a.stage = 1 /\ AuthKind # "http"
  BY <1>6 DEF Verdict
<1>7. \/ v \in {GoOn(a), GoOn(b), Refused(a), Refused(b)}
      \/ v = Accepted(b) /\ (AuthKind = "http" \/ a.stage = 2)
      \/ v = Verdict(-1, [stage |-> 2, got |-> 0], GreetLen, TRUE) /\ a.stage = 1 /\ AuthKind # "http"
  <2> HIDE DEF b
  <2>1. CASE n = 0
    BY <2>1 DEF OnAuthResponse
  <2>2. CASE n # 0 /\ AuthKind = "http"
    BY <2>2 DEF OnAuthResponse, HttpVerdicts, b
  <2>3. CASE n # 0 /\ AuthKind # "http"
    BY <2>3 DEF OnAuthResponse, Sock5Verdicts, b, AuthObject
  <2> QED BY <2>1, <2>2, <2>3
<1> QED BY <1>4, <1>5, <1>6, <1>7

\* A segment of the proxy's answer is the next of its bytes and ends within the
\* answer, wherever the proxy cuts it (IsAuthReply, ProxyPackets).
LEMMA NextOfReply ==
  ASSUME TunnelInv, ~Coalesce, NEW p \in ProxyPackets, IsAuthReply("proxy", p)
  PROVE  /\ p.len \in Nat /\ inTotal \in Nat
         /\ Plus(inTotal, p.len) = inTotal + p.len /\ inTotal + p.len <= Len(Reply)
<1> USE DEF TunnelInv
<1>1. /\ state = "AUTH" /\ p.seq = Plus(ProxyBase, inTotal)
      /\ inTotal \in Nat /\ inTotal < Len(Reply)
  BY Room DEF IsAuthReply, Numbers, Asked, IInv, TypeOK, SeqNo
<1>2. inTotal \in Near
  <2>1. inTotal \in Int /\ -Span <= inTotal /\ inTotal <= Span
    BY <1>1, Sizes
  <2> QED BY <2>1, NearIs
<1>3. p # Segment(ProxyISN, ClientBase, {"SYN", "ACK"}, 1, <<>>)
  <2>1. SUFFICES ASSUME p.seq = Plus(ProxyBase, -1) PROVE FALSE
    BY Bases DEF Segment
  <2>2. -1 \in Near
    BY Sizes, NearIs
  <2>3. inTotal = -1
    BY <1>1, <1>2, <2>1, <2>2, SameOffset, Bases
  <2> QED BY <1>1, <2>3
<1>4. PICK i \in 0..ProxyAllowed, r \in 0..Received(proxy) :
        /\ Carries(p, i, r, Inbound, ProxyAllowed, ProxyBase, ClientBase)
        /\ i < Len(Reply) => i + Len(p.data) <= Len(Reply)
  BY <1>3, FromProxy
<1>5. i \in Near
  <2>1. i \in Int /\ -Span <= i /\ i <= Span
    BY Sizes, Allowances
  <2> QED BY <2>1, NearIs
<1>6. i = inTotal
  <2>1. Plus(ProxyBase, i) = Plus(ProxyBase, inTotal)
    BY <1>1, <1>4 DEF Carries
  <2> HIDE DEF Plus
  <2> QED BY <1>2, <1>5, <2>1, SameOffset, Bases
<1>7. p.len \in Nat /\ p.len = Len(p.data)
  BY <1>4 DEF Carries, Segments
<1>8. inTotal + p.len <= Len(Reply)
  BY <1>1, <1>4, <1>6, <1>7
<1>9. Plus(inTotal, p.len) = inTotal + p.len
  <2>1. inTotal \in SeqNo /\ inTotal + p.len <= Span
    <3> DEFINE n == Len(Reply)
               k == p.len
    <3>1. n \in Nat /\ n <= Span
      BY Sizes
    <3>2. k \in Nat /\ inTotal \in Nat /\ inTotal + k <= n
      BY <1>1, <1>7, <1>8
    <3> HIDE DEF n, k
    <3>3. inTotal + k <= Span
      BY <3>1, <3>2, Room
    <3> QED BY <3>3 DEF k, IInv, TypeOK
  <2> QED BY <1>7, <2>1, SmallSum
<1> QED BY <1>1, <1>7, <1>8, <1>9

\* The totals while authorizing: each verdict leaves what was asked and answered.
LEMMA AnswerStep ==
  ASSUME TunnelInv, ~Coalesce, NEW p \in ProxyPackets, Typed(p),
         AuthDispatchPacket("proxy", p), Honest
  PROVE  /\ state = "AUTH" /\ UNCHANGED <<clientSeq, proxySeq, counts>>
         /\ state' \in {"AUTH", "ESTABLISHING", "CLOSING"}
         /\ Asked' /\ inTotal' \in 0..Len(Reply)
         /\ Forwarded("proxy", p) = {}
<1> USE DEF TunnelInv
<1>1. state = "AUTH" /\ IsAuthReply("proxy", p)
  BY DEF AuthDispatchPacket, IsAuthReply
<1>2. UNCHANGED <<clientSeq, proxySeq, counts>> /\ inTotal' = Plus(inTotal, p.len)
  BY DEF AuthDispatchPacket
<1>3. auth \in AuthObject
  BY <1>1 DEF IInv, TypeOK, AuthHeld
<1>4. PICK v \in OnAuthResponse(auth, p.len) :
        /\ outTotal' = Plus(outTotal, v.commit)
        /\ \/ v.r = -1 /\ auth' = v.auth /\ state' = state
           \/ v.r = 0 /\ state' = "CLOSING"
           \/ v.r = 1 /\ state' = "ESTABLISHING"
  BY DEF AuthDispatchPacket, Close
<1>5. /\ p.len \in Nat /\ inTotal' \in Nat /\ inTotal' <= Len(Reply)
  BY <1>1, <1>2, NextOfReply
<1>6. /\ v.r = 0 => v.commit = 0
      /\ v.r = 1 => outTotal + v.commit = Len(Request)
      /\ v.r = -1 =>
           \/ v.commit = 0 /\ v.auth.stage = auth.stage
           \/ /\ auth.stage = 1 /\ AuthKind = "sock5"
              /\ v.commit = GreetLen /\ v.auth.stage = 2
  BY <1>1, <1>3, <1>4, <1>5, VerdictCommits DEF Asked
<1>7. v.commit \in Nat
  BY <1>3, <1>4, <1>5, VerdictType
<1>8. outTotal \in Nat /\ outTotal <= Len(Request)
  BY <1>1, Lengths, AuthAssumption DEF Asked
<1>9. outTotal + v.commit <= Len(Request)
  <2>1. auth.stage = 1 => outTotal = 0
    BY <1>1, AuthAssumption DEF Asked
  <2> QED BY <1>4, <1>6, <1>7, <1>8, <2>1, Lengths, AuthAssumption
<1>10. outTotal' = outTotal + v.commit
  <2>1. outTotal \in SeqNo /\ outTotal + v.commit <= Span
    <3> DEFINE n == Len(Request)
               k == v.commit
    <3>1. n \in Nat /\ n <= Span
      BY Sizes
    <3>2. k \in Nat /\ outTotal + k <= n
      BY <1>7, <1>9
    <3> HIDE DEF n, k
    <3>3. outTotal + k <= Span
      BY <1>8, <3>1, <3>2, Room
    <3> QED BY <3>3 DEF k, IInv, TypeOK
  <2> QED BY <1>4, <1>7, <2>1, SmallSum
<1>11. state' # "CLOSING" => (state' = "ESTABLISHING" <=> inTotal' = Len(Reply))
  <2>1. Len(Reply) \in Nat
    BY Sizes
  <2>2. inTotal' >= Len(Reply) <=> inTotal' = Len(Reply)
    BY <1>5, <2>1
  <2> QED BY <1>1, <2>2 DEF Honest
<1>12. ASSUME state' = "AUTH" PROVE Asked'
  <2>1. v.r = -1 /\ auth' = v.auth
    BY <1>4, <1>12
  <2>2. inTotal' < Len(Reply)
    BY <1>5, <1>11, <1>12, Sizes
  <2>3. \/ auth'.stage = 1 /\ outTotal' = 0
        \/ auth'.stage = 2 /\ AuthKind = "sock5" /\ outTotal' = GreetLen
    BY <1>1, <1>6, <1>8, <1>10, <2>1, AuthAssumption DEF Asked
  <2> QED BY <1>12, <2>2, <2>3 DEF Asked
<1>13. ASSUME state' = "ESTABLISHING" PROVE Asked'
  BY <1>1, <1>4, <1>6, <1>10, <1>11, <1>13 DEF Asked
<1>14. ASSUME state' = "CLOSING" PROVE Asked'
  BY <1>5, <1>9, <1>10, <1>14 DEF Asked
<1>15. state' \in {"AUTH", "ESTABLISHING", "CLOSING"}
  BY <1>1, <1>4
<1>16. Forwarded("proxy", p) = {}
  BY <1>1 DEF Forwarded, IsSYN1, IsSYN2, IsSYN3
<1> QED BY <1>1, <1>2, <1>5, <1>12, <1>13, <1>14, <1>15, <1>16, Sizes

\* A packet of the proxy: its SYN|ACK fixes its numbers, its answer is counted to the
\* byte, and only then are its bytes the server's.
LEMMA ProxyStep == ASSUME TunnelInv, ~Coalesce, ServeProxy PROVE TunnelInv'
<1> USE DEF TunnelInv
<1>1. PICK p \in ProxyPackets :
        /\ ServePacket("proxy", p) /\ Honest
        /\ Reaches(Forwarded("proxy", p), RepliedAuth("proxy", p))
  BY DEF ServeProxy
<1>2. opened' = opened
  BY DEF ServeProxy
<1>3. p \in Segments /\ p.win = 1
  BY ProxyForwarded
<1>4. Typed(p)
  BY <1>3 DEF Typed, Segments
<1>5. IInv'
  BY <1>1, <1>4, PacketStep DEF From
<1>6. proxy.up
  BY FromProxy
<1>7. opened /\ state' \in States \cup {"NONE"} /\ (state = "NONE" => state' = "NONE")
  <2>1. opened
    BY <1>6 DEF Lifetime, Silent
  <2>2. state = "NONE" => state' = "NONE"
    BY <1>1 DEF ServePacket, DispatchPacket, TransferSYN1, IsSYN1, TransferSYN2, IsSYN2,
       TransferSYN3, IsSYN3, AuthDispatchPacket, IsAuthReply, EstablishedDispatchPacket,
       FinWaitDispatchPacket, ClosingDispatchPacket, Ignored, connVars
  <2> QED BY <1>5, <2>1, <2>2 DEF IInv, TypeOK
<1>8. \A s \in RepliedAuth("proxy", p) : ToProxy(s)
  <2> SUFFICES ASSUME NEW s \in RepliedAuth("proxy", p) PROVE ToProxy(s)
    OBVIOUS
  <2>1. /\ IsAuthReply("proxy", p) /\ auth.stage = 1 /\ auth'.stage = 2
        /\ s = AuthRequest(auth', outTotal', inTotal')
    BY DEF RepliedAuth
  <2>2. AuthDispatchPacket("proxy", p)
    BY <1>1, <2>1 DEF ServePacket, DispatchPacket, TransferSYN1, IsSYN1, TransferSYN2, IsSYN2,
       TransferSYN3, IsSYN3, EstablishedDispatchPacket, FinWaitDispatchPacket,
       ClosingDispatchPacket, Ignored, IsAuthReply
  <2>3. state = "AUTH" /\ Asked' /\ inTotal' \in 0..Len(Reply) /\ state' \in {"AUTH", "ESTABLISHING", "CLOSING"}
    BY <1>1, <1>4, <2>2, AnswerStep
  <2>4. state' = "AUTH"
    <3>1. NoAuth.stage = 0
      BY DEF NoAuth
    <3> QED BY <2>1, <2>2, <2>3, <3>1 DEF AuthDispatchPacket, Close
  <2>5. auth'.stage = 2 /\ AuthKind = "sock5" /\ outTotal' = GreetLen
    BY <2>1, <2>3, <2>4 DEF Asked
  <2>6. clientSeq = ClientBase /\ proxySeq = ProxyBase
    BY <2>3 DEF Lifetime, Numbers
  <2> QED BY <2>1, <2>3, <2>5, <2>6, RequestFits
<1>9. /\ Heard' /\ EndToEndAcks'
      /\ Received(client') >= Received(client) /\ Delivered' >= Delivered
  <2>1. \A s \in Forwarded("proxy", p) : ToClient(s)
    BY ProxyForwarded
  <2> HIDE DEF TunnelInv
  <2> QED BY <1>1, <1>8, <2>1, ReachesSafely, Allowances DEF ToProxy, ToClient, ProxyMay, TunnelInv
<1>10. upBytes \in SeqNo /\ downBytes \in SeqNo
  BY DEF IInv, TypeOK
<1>11. UNCHANGED counts => CountsHonest'
  BY <1>9, <1>10, CountsKept
<1>12. ~IsAuthReply("proxy", p) => proxy' = proxy
  <2>1. ~IsAuthReply("proxy", p) => RepliedAuth("proxy", p) = {}
    BY DEF RepliedAuth
  <2> QED BY <1>1, <2>1 DEF Reaches
<1>13. Forwarded("proxy", p) = {} => client' = client
  BY <1>1 DEF Reaches
<1>14. CASE TransferSYN2("proxy", p)
  <2>1. /\ Has(p, "SYN") /\ state \in {"SYN_SENT", "SYN_RECEIVED"} /\ state' = "SYN_RECEIVED"
        /\ proxySeq' = Plus(p.seq, 1) /\ UNCHANGED <<clientSeq, totals, counts>>
    BY <1>14 DEF TransferSYN2, IsSYN2
  <2>2. p = Segment(ProxyISN, ClientBase, {"SYN", "ACK"}, 1, <<>>)
    BY <2>1, FromProxy DEF Carries, Has
  <2>3. proxySeq' = ProxyBase
    BY <2>1, <2>2 DEF Segment, ProxyBase
  <2>4. ~client'.wnd
    <3>1. ~client.wnd /\ client \in Endpoints
      BY <2>1 DEF WindowGate, Heard
    <3>2. CASE client' = client
      BY <3>1, <3>2
    <3>3. CASE \E s \in Forwarded("proxy", p) :
                 client' = Takes(client, s, ProxyBase, ClientBase, ClientAllowed + 1)
      <4>1. PICK s \in Forwarded("proxy", p) :
              client' = Takes(client, s, ProxyBase, ClientBase, ClientAllowed + 1)
        BY <3>3
      <4>2. Has(s, "SYN") /\ s.win = 0
        BY <2>1, ProxyForwarded
      <4>3. client' = [client EXCEPT !.up = TRUE, !.wnd = FALSE]
        <5> DEFINE wnd == s.win > 0
        <5>1. client' = [client EXCEPT !.up = TRUE, !.wnd = wnd]
          BY <4>1, <4>2 DEF Takes
        <5>2. wnd = FALSE
          BY <4>2
        <5> HIDE DEF wnd
        <5> QED BY <5>1, <5>2
      <4> QED BY <3>1, <4>3 DEF Endpoints
    <3> QED BY <1>1, <3>2, <3>3 DEF Reaches
  <2>5. UNCHANGED totals /\ outTotal = 0 /\ inTotal = 0
    BY <2>1 DEF Asked
  <2> QED BY <1>2, <1>5, <1>7, <1>9, <1>11, <2>1, <2>3, <2>4, <2>5
          DEF Lifetime, Numbers, Asked, WindowGate, totals
<1>15. CASE AuthDispatchPacket("proxy", p)
  <2>1. /\ state = "AUTH" /\ UNCHANGED <<clientSeq, proxySeq, counts>>
        /\ state' \in {"AUTH", "ESTABLISHING", "CLOSING"}
        /\ Asked' /\ client' = client
    BY <1>1, <1>4, <1>13, <1>15, AnswerStep
  <2> QED BY <1>2, <1>5, <1>7, <1>9, <1>11, <2>1 DEF Lifetime, Numbers, WindowGate
<1>16. CASE EstablishedDispatchPacket("proxy", p) \/ FinWaitDispatchPacket("proxy", p)
  <2>1. /\ state \in {"ESTABLISHING", "ESTABLISHED", "FIN_WAIT"}
        /\ state' \in {"ESTABLISHED", "FIN_WAIT"}
        /\ TransferData("proxy", p) /\ UNCHANGED <<seqVars, totals>>
    BY <1>16 DEF EstablishedDispatchPacket, FinWaitDispatchPacket
  <2>2. Has(p, "ACK") => \E r \in 0..Received(proxy) : p.ack = Plus(ClientBase, r)
    <3>1. CASE p = Segment(ProxyISN, ClientBase, {"SYN", "ACK"}, 1, <<>>)
      <4>1. p.ack = Plus(ClientBase, 0)
        BY <3>1, Bases DEF Segment
      <4>2. 0 \in 0..Received(proxy)
        BY ReceivedIs DEF Heard
      <4> QED BY <4>1, <4>2
    <3>2. CASE \E i \in 0..ProxyAllowed, r \in 0..Received(proxy) :
                 Carries(p, i, r, Inbound, ProxyAllowed, ProxyBase, ClientBase)
      BY <3>2 DEF Carries
    <3> QED BY <3>1, <3>2, FromProxy
  <2>3. CountsHonest'
    BY <1>9, <1>10, <2>1, <2>2, CountsHold DEF From, Lifetime, Numbers, Asked
  <2> QED BY <1>2, <1>5, <1>7, <1>9, <2>1, <2>3
          DEF Lifetime, Numbers, Asked, WindowGate, totals, seqVars
<1>17. CASE ClosingDispatchPacket("proxy", p)
  <2>1. /\ state = "CLOSING" /\ state' \in {"CLOSING", "CLOSED"}
        /\ UNCHANGED <<seqVars, totals, counts>>
    BY <1>17 DEF ClosingDispatchPacket, Closed
  <2>2. proxy' = proxy /\ client' = client
    <3>1. Forwarded("proxy", p) = {} /\ ~IsAuthReply("proxy", p)
      BY <2>1 DEF Forwarded, IsSYN1, IsSYN2, IsSYN3, IsAuthReply
    <3> QED BY <1>12, <1>13, <3>1
  <2> QED BY <1>2, <1>5, <1>7, <1>9, <1>11, <2>1, <2>2
          DEF Lifetime, Numbers, Asked, WindowGate, Unanswered, totals, seqVars
<1>18. CASE Ignored("proxy", p)
  <2>1. UNCHANGED connVars
    BY <1>18 DEF Ignored
  <2>2. proxy' = proxy /\ client' = client
    <3>1. Forwarded("proxy", p) = {} /\ ~IsAuthReply("proxy", p)
      BY <1>18 DEF Ignored, Forwarded
    <3> QED BY <1>12, <1>13, <3>1
  <2> QED BY <1>2, <1>5, <1>7, <1>9, <1>11, <2>1, <2>2
          DEF Lifetime, Numbers, Asked, WindowGate, Unanswered, connVars, totals, seqVars
<1>19. ~TransferSYN1("proxy", p) /\ ~TransferSYN3("proxy", p)
  BY DEF TransferSYN1, IsSYN1, TransferSYN3, IsSYN3
<1> QED BY <1>1, <1>14, <1>15, <1>16, <1>17, <1>18, <1>19 DEF ServePacket, DispatchPacket

\* An expiry: what is sent again fits, and only a connection that ends forgets its
\* totals and counters.
LEMMA TimeoutStep == ASSUME TunnelInv, ServeTimeout PROVE TunnelInv'
<1> USE DEF TunnelInv
<1>1. ServeTimer /\ Reaches(TimeoutToClient, TimeoutToProxy) /\ opened' = opened
  BY DEF ServeTimeout
<1>2. OnTimeout
  BY <1>1 DEF ServeTimer
<1>3. IInv'
  BY <1>1, TimerStep
<1>4. state # "NONE" /\ opened /\ clientSeq = ClientBase
  BY <1>2 DEF OnTimeout, TimeoutHandshake, TimeoutRequest, TimeoutEstablished, TimeoutFinWait,
     TimeoutClosing, TimeoutClosed, Lifetime
<1>5. /\ Heard' /\ EndToEndAcks'
      /\ Received(client') >= Received(client) /\ Delivered' >= Delivered
      /\ client'.up = client.up
      /\ state = "CLOSING" => proxy'.got = proxy.got
  <2>1. /\ \A s \in TimeoutToProxy : ToProxy(s)
        /\ state = "CLOSING" => \A s \in TimeoutToProxy : s.data = <<>>
        /\ \A s \in TimeoutToClient : ToClient(s) \/ ~client.up
        /\ \A s \in TimeoutToClient : ~Has(s, "SYN")
    BY <1>4, TimeoutSends
  <2> HIDE DEF TunnelInv
  <2> QED BY <1>1, <2>1, ReachesSafely, Allowances DEF ToProxy, ToClient, ProxyMay, TunnelInv
<1>6. upBytes \in SeqNo /\ downBytes \in SeqNo
  BY DEF IInv, TypeOK
<1>7. UNCHANGED counts \/ (upBytes' = 0 /\ downBytes' = 0) => CountsHonest'
  BY <1>5, <1>6, CountsKept
<1>8. CASE TimeoutHandshake
  <2>1. /\ state \in {"SYN_SENT", "SYN_RECEIVED"} /\ state' = "CLOSING"
        /\ UNCHANGED <<seqVars, totals, counts>>
    BY <1>8 DEF TimeoutHandshake, Close
  <2>2. client' = client /\ proxy' = proxy
    <3>1. TimeoutToClient = {} /\ TimeoutToProxy = {}
      BY <2>1 DEF TimeoutToClient, TimeoutToProxy
    <3> QED BY <1>1, <3>1 DEF Reaches
  <2> QED BY <1>1, <1>3, <1>4, <1>5, <1>7, <2>1, <2>2, Sizes
          DEF Lifetime, Numbers, Asked, WindowGate, Unanswered, totals, seqVars
<1>9. CASE TimeoutRequest
  <2>1. /\ state \in {"AUTH", "ESTABLISHING"} /\ state' \in {state, "CLOSING"}
        /\ UNCHANGED <<seqVars, auth, totals, counts>>
    BY <1>9 DEF TimeoutRequest, Again, Close
  <2>2. state = "AUTH" => client' = client
    <3>1. state = "AUTH" => TimeoutToClient = {}
      BY DEF TimeoutToClient
    <3> QED BY <1>1, <3>1 DEF Reaches
  <2>3. inTotal \in Nat /\ outTotal <= Len(Request) /\ inTotal <= Len(Reply)
    BY <2>1, Sizes, Lengths, AuthAssumption, Room DEF Asked, IInv, TypeOK, SeqNo
  <2> QED BY <1>1, <1>3, <1>4, <1>5, <1>7, <2>1, <2>2, <2>3
          DEF Lifetime, Numbers, Asked, WindowGate, totals, seqVars
<1>10. CASE TimeoutEstablished
  <2>1. state = "ESTABLISHED" /\ state' = "CLOSING" /\ UNCHANGED <<seqVars, totals, counts>>
    BY <1>10 DEF TimeoutEstablished, Close
  <2> QED BY <1>1, <1>3, <1>4, <1>5, <1>7, <2>1, Sizes
          DEF Lifetime, Numbers, Asked, WindowGate, totals, seqVars
<1>11. CASE TimeoutFinWait
  <2>1. state = "FIN_WAIT" /\ state' = "CLOSED" /\ UNCHANGED <<seqVars, totals, counts>>
    BY <1>11 DEF TimeoutFinWait, Closed
  <2> QED BY <1>1, <1>3, <1>4, <1>5, <1>7, <2>1
          DEF Lifetime, Numbers, Asked, WindowGate, totals, seqVars
<1>12. CASE TimeoutClosing
  <2>1. /\ state = "CLOSING" /\ state' \in {"CLOSING", "CLOSED"}
        /\ UNCHANGED <<seqVars, totals, counts>>
    BY <1>12 DEF TimeoutClosing, Again, Closed
  <2> QED BY <1>1, <1>3, <1>4, <1>5, <1>7, <2>1
          DEF Lifetime, Numbers, Asked, WindowGate, Unanswered, totals, seqVars
<1>13. CASE TimeoutClosed
  <2>1. /\ state = "CLOSED" /\ state' = "NONE" /\ outTotal' = 0 /\ inTotal' = 0
        /\ upBytes' = 0 /\ downBytes' = 0
    BY <1>13 DEF TimeoutClosed
  <2> QED BY <1>1, <1>3, <1>4, <1>5, <1>7, <2>1
          DEF Lifetime, Numbers, Asked, WindowGate
<1> QED BY <1>2, <1>8, <1>9, <1>10, <1>11, <1>12, <1>13 DEF OnTimeout

\* The loop's own steps and stuttering change nothing that is sent or counted.
LEMMA LoopStep == ASSUME TunnelInv, Loop \/ UNCHANGED tunnelVars PROVE TunnelInv'
<1> USE DEF TunnelInv
<1>1. UNCHANGED <<connVars, opened, client, proxy>> /\ [Next]_vars
  BY DEF Loop, Expire, Poll, Next, tunnelVars, vars
<1>2. IInv'
  BY <1>1, InvariantStep
<1>3. UNCHANGED <<state, clientSeq, proxySeq, auth, outTotal, inTotal, upBytes, downBytes,
                  opened, client, proxy>>
  BY <1>1 DEF connVars, seqVars, totals, counts
<1>4. Delivered' = Delivered /\ Received(client') = Received(client)
  BY <1>3 DEF Delivered
<1>5. Lifetime' /\ Numbers' /\ Asked' /\ Heard' /\ WindowGate'
  BY <1>3 DEF Lifetime, Numbers, Asked, Heard, WindowGate, Unanswered, Agrees
<1>6. EndToEndAcks' /\ CountsHonest'
  BY <1>3, <1>4 DEF EndToEndAcks, CountsHonest
<1> QED BY <1>2, <1>5, <1>6

LEMMA TunnelStep == ~Coalesce /\ TunnelInv /\ [TunnelNext]_tunnelVars => TunnelInv'
<1> SUFFICES ASSUME ~Coalesce, TunnelInv, [TunnelNext]_tunnelVars PROVE TunnelInv'
  OBVIOUS
<1> QED BY ClientStep, ProxyStep, TimeoutStep, LoopStep DEF TunnelNext

LEMMA TunnelInvariance == ASSUME ~Coalesce PROVE TunnelSpec => []TunnelInv
<1>1. TunnelInit => TunnelInv
  BY TunnelStarts
<1>2. TunnelInv /\ [TunnelNext]_tunnelVars => TunnelInv'
  BY TunnelStep
<1> QED BY <1>1, <1>2, PTL DEF TunnelSpec

-----------------------------------------------------------------------------
(* What each side is promised.                                               *)

\* To be the beginning of a sequence is to be one of its prefixes (IsPrefix).
LEMMA AgreesIsPrefix ==
  ASSUME NEW s \in Seq(Bytes), NEW t \in Seq(Bytes), Agrees(s, t)
  PROVE  IsPrefix(s, t)
BY DEF Agrees, IsPrefix

\* Whatever is lost, repeated, reordered or cut, the proxy hears the request and then
\* the client's bytes, and nothing else.
THEOREM ProxyHears == ASSUME ~Coalesce PROVE TunnelSpec => []ProxyHearsRequestThenClient
<1>1. TunnelInv => ProxyHearsRequestThenClient
  BY AgreesIsPrefix, Joined DEF TunnelInv, Heard, Endpoints, ProxyHearsRequestThenClient, Outbound
<1> QED BY <1>1, TunnelInvariance, PTL

\* The client hears the server's bytes and no byte of the proxy's answer.
THEOREM ClientHears == ASSUME ~Coalesce PROVE TunnelSpec => []ClientHearsServer
<1>1. TunnelInv => ClientHearsServer
  BY AgreesIsPrefix, Lengths DEF TunnelInv, Heard, Endpoints, ClientHearsServer
<1> QED BY <1>1, TunnelInvariance, PTL

\* No acknowledgement overtakes the bytes it speaks of, though each is moved by the
\* lengths of a request and an answer the other end never saw.
THEOREM AcksHonest == ASSUME ~Coalesce PROVE TunnelSpec => []EndToEndAcks
BY TunnelInvariance, PTL DEF TunnelInv

\* No client is invited to send before the tunnel is granted.
THEOREM WindowShut == ASSUME ~Coalesce PROVE TunnelSpec => []WindowGate
BY TunnelInvariance, PTL DEF TunnelInv

\* The page never claims more than has arrived, however acknowledgements are
\* repeated or wrap.
THEOREM CountsTrue == ASSUME ~Coalesce PROVE TunnelSpec => []CountsHonest
BY TunnelInvariance, PTL DEF TunnelInv

=============================================================================

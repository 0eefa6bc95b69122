------------------------- MODULE HttpServer_proofs -------------------------
(***************************************************************************)
(* The management server: what its HTTP server and its TCP keep for        *)
(* requests and responses of every number and length, rings, packets and   *)
(* windows of every size, and whatever of the traffic is lost, repeated or *)
(* late; and, at the end, that the ring those streams lie in is a queue.   *)
(*                                                                         *)
(* IInv says where the bytes are.  While the connection is established the *)
(* request at hand and the ring behind it are the piece of the browser's   *)
(* stream from Before on (Incoming), the other ring is the piece of the    *)
(* server's that was written and is not acknowledged (Outgoing), the       *)
(* browser has heard no more than was written (Follows), and as it sends a *)
(* request only after the answer to the one before, no data arrives while  *)
(* a response is being sent (Responding).  That last part is what keeps    *)
(* _send's callback from being entered again or deleted under itself, and  *)
(* it is not inductive without all the others.  It ends with the browser's *)
(* FIN, which may come at any moment: from then on the bytes stay where    *)
(* they are (Ending), and only such a FIN, or a last response that ends by *)
(* closing, lets the process die (Dies).                                   *)
(***************************************************************************)
EXTENDS HttpServer, RingBuffer, SequenceTheorems, WellFoundedInduction, TLAPS

N == Len(Requests)

Flags == {"SYN", "ACK", "FIN", "PSH", "RST"}
Packets == [flags : SUBSET Flags, seq : Nat, ack : Nat, win : Nat, data : Seq(Nat)]

Connections ==
  [state : States, retry : Nat, localSeq : Nat, remoteSeq : Nat, wnd : Nat,
   inRing : Seq(Nat), outRing : Seq(Nat), needRecv : BOOLEAN, needSend : BOOLEAN,
   canRecv : BOOLEAN, canSend : BOOLEAN, needAck : BOOLEAN,
   timer1 : BOOLEAN, timer2 : BOOLEAN, listener : BOOLEAN, out : Seq(Packets)]

Browsers ==
  [up : BOOLEAN, heard : Seq(Nat), acked : Nat, edge : Nat, fin : BOOLEAN,
   closed : BOOLEAN, end : Int]

-----------------------------------------------------------------------------
(* Numbers.                                                                 *)

\* A set of numbers that is not empty has a least one.
LEMMA LeastNat ==
  ASSUME NEW T, T \subseteq Nat, T # {}
  PROVE  \E m \in T : \A k \in T : m <= k
<1>1. IsWellFoundedOn(OpToRel(<, Nat), Nat)
  BY NatLessThanWellFounded
<1>2. PICK m \in T : \A k \in T : ~(<<k, m>> \in OpToRel(<, Nat))
  BY <1>1, WFMin
<1>3. ASSUME NEW k \in T PROVE m <= k
  <2>1. m \in Nat /\ k \in Nat
    OBVIOUS
  <2>2. ~(<<k, m>> \in OpToRel(<, Nat))
    BY <1>2
  <2>3. ~(k < m)
    BY <2>1, <2>2 DEF OpToRel
  <2> QED BY <2>1, <2>3
<1> QED BY <1>3

\* The sums that Total is defined by exist.
LEMMA SumExists ==
  ASSUME NEW lens \in Seq(Nat), NEW n \in 0..Len(lens)
  PROVE  \E f : f = [k \in 0..n |-> IF k = 0 THEN 0 ELSE f[k - 1] + lens[k]]
<1> DEFINE Sum(f, m) == f = [k \in 0..m |-> IF k = 0 THEN 0 ELSE f[k - 1] + lens[k]]
           Bad == {m \in 0..n : ~ \E f : Sum(f, m)}
<1>0. n \in Nat /\ n \in 0..n
  OBVIOUS
<1>1. SUFFICES ASSUME ~ \E f : Sum(f, n) PROVE FALSE
  OBVIOUS
<1>2. Bad # {}
  BY <1>0, <1>1
<1>3. PICK m \in Bad : \A k \in Bad : m <= k
  <2>1. Bad \subseteq Nat
    OBVIOUS
  <2> QED BY <2>1, <1>2, LeastNat
<1>4. CASE m = 0
  <2>1. Sum([k \in 0..0 |-> 0], 0)
    OBVIOUS
  <2> QED BY <2>1, <1>3, <1>4
<1>5. CASE m # 0
  <2>1. m \in Nat \ {0} /\ m - 1 \in 0..n /\ m - 1 \in Nat /\ m - 1 \notin Bad
    <3>1. m \in Nat \ {0} /\ m - 1 \in 0..n /\ m - 1 \in Nat /\ ~(m <= m - 1)
      BY <1>0, <1>3, <1>5
    <3> HIDE DEF Bad
    <3> QED BY <3>1, <1>3
  <2>2. PICK f : Sum(f, m - 1)
    BY <2>1
  <2> DEFINE g == [k \in 0..m |-> IF k = m THEN f[m - 1] + lens[m] ELSE f[k]]
  <2>3. ASSUME NEW k \in 0..m
        PROVE  g[k] = IF k = 0 THEN 0 ELSE g[k - 1] + lens[k]
    <3>1. CASE k = m
      BY <3>1, <2>1
    <3>2. CASE k # m
      <4>1. k \in 0..(m - 1) /\ (k # 0 => k - 1 \in 0..m /\ k - 1 # m)
        BY <3>2, <2>1
      <4>2. f[k] = IF k = 0 THEN 0 ELSE f[k - 1] + lens[k]
        BY <4>1, <2>2
      <4> QED BY <4>1, <4>2, <3>2
    <3> QED BY <3>1, <3>2
  <2>4. Sum(g, m)
    BY <2>3
  <2> HIDE DEF Sum, g
  <2> QED BY <2>4, <1>3
<1> QED BY <1>4, <1>5

\* What Total computes.
LEMMA TotalStep ==
  ASSUME NEW lens \in Seq(Nat)
  PROVE  /\ Total(lens, 0) = 0
         /\ \A n \in 1..Len(lens) : Total(lens, n) = Total(lens, n - 1) + lens[n]
<1> DEFINE Sum(f) == f = [k \in 0..Len(lens) |-> IF k = 0 THEN 0 ELSE f[k - 1] + lens[k]]
           sum == CHOOSE f : Sum(f)
<1>1. Len(lens) \in 0..Len(lens)
  OBVIOUS
<1>2. \E f : Sum(f)
  BY <1>1, SumExists
<1>3. Sum(sum)
  BY <1>2
<1>4. \A n \in 0..Len(lens) : Total(lens, n) = sum[n]
  BY DEF Total
<1>5. Total(lens, 0) = 0
  <2>1. 0 \in 0..Len(lens)
    OBVIOUS
  <2> QED BY <2>1, <1>3, <1>4
<1>6. ASSUME NEW n \in 1..Len(lens)
      PROVE  Total(lens, n) = Total(lens, n - 1) + lens[n]
  <2>1. n \in 0..Len(lens) /\ n - 1 \in 0..Len(lens) /\ n # 0
    OBVIOUS
  <2>2. sum[n] = IF n = 0 THEN 0 ELSE sum[n - 1] + lens[n]
    BY <2>1, <1>3
  <2> QED BY <2>1, <2>2, <1>4
<1> QED BY <1>5, <1>6

\* The sums grow with every length.
LEMMA TotalGrows ==
  ASSUME NEW lens \in Seq(Nat), \A n \in 1..Len(lens) : lens[n] > 0,
         NEW n \in 0..Len(lens)
  PROVE  Total(lens, n) \in Nat /\ \A m \in 0..(n - 1) : Total(lens, m) < Total(lens, n)
<1> DEFINE P(i) == /\ Total(lens, i) \in Nat
                   /\ \A m \in 0..(i - 1) : Total(lens, m) \in Nat /\ Total(lens, m) < Total(lens, i)
           Bad == {i \in 0..Len(lens) : ~P(i)}
<1>0. Len(lens) \in Nat
  OBVIOUS
<1>1. SUFFICES ASSUME ~P(n) PROVE FALSE
  OBVIOUS
<1>2. PICK i \in Bad : \A k \in Bad : i <= k
  <2>1. Bad \subseteq Nat
    BY <1>0
  <2>2. n \in Bad
    <3> HIDE DEF P
    <3> QED BY <1>1
  <2> HIDE DEF Bad
  <2> QED BY <2>1, <2>2, LeastNat
<1>3. i \in 0..Len(lens) /\ ~P(i)
  BY <1>2
<1>4. CASE i = 0
  BY <1>3, <1>4, TotalStep
<1>5. CASE i # 0
  <2>1. i \in 1..Len(lens) /\ i - 1 \in 0..Len(lens) /\ ~(i <= i - 1)
    BY <1>0, <1>3, <1>5
  <2>2. P(i - 1)
    <3> HIDE DEF P
    <3> QED BY <2>1, <1>2
  <2>3. Total(lens, i) = Total(lens, i - 1) + lens[i] /\ lens[i] \in Nat /\ lens[i] > 0
    BY <2>1, TotalStep
  <2>4. Total(lens, i) \in Nat /\ Total(lens, i - 1) < Total(lens, i)
    BY <2>2, <2>3
  <2>5. ASSUME NEW m \in 0..(i - 1)
        PROVE  Total(lens, m) \in Nat /\ Total(lens, m) < Total(lens, i)
    <3>1. CASE m = i - 1
      BY <3>1, <2>2, <2>4
    <3>2. CASE m # i - 1
      <4>1. m \in 0..((i - 1) - 1)
        BY <3>2, <2>1
      <4> QED BY <4>1, <2>2, <2>4
    <3> QED BY <3>1, <3>2
  <2> QED BY <2>4, <2>5, <1>3
<1> QED BY <1>4, <1>5

\* The requests and the responses by their ends.
LEMMA Ends ==
  /\ N \in Nat \ {0} /\ N = Len(Responses)
  /\ \A n \in 1..N : Requests[n] \in Nat \ {0} /\ Responses[n] \in Nat \ {0}
  /\ Total(Requests, 0) = 0 /\ Total(Responses, 0) = 0
  /\ \A n \in 0..N : Total(Requests, n) \in Nat /\ Total(Responses, n) \in Nat
  /\ \A n \in 1..N : /\ Total(Requests, n) = Total(Requests, n - 1) + Requests[n]
                     /\ Total(Responses, n) = Total(Responses, n - 1) + Responses[n]
  /\ \A m, n \in 0..N : m < n => /\ Total(Requests, m) < Total(Requests, n)
                                 /\ Total(Responses, m) < Total(Responses, n)
<1>1. /\ Requests \in Seq(Nat) /\ Responses \in Seq(Nat) /\ N = Len(Responses)
      /\ N \in Nat \ {0}
  BY HttpServerAssumption DEF N
<1>2. \A n \in 1..N : /\ Requests[n] \in Nat /\ Responses[n] \in Nat
                     /\ Requests[n] > 0 /\ Responses[n] > 0
  <2> TAKE n \in 1..N
  <2>1. n \in DOMAIN Requests /\ Requests[n] \in Nat /\ Responses[n] \in Nat
    BY <1>1 DEF N
  <2> QED BY <2>1, HttpServerAssumption
<1>3. /\ \A n \in 0..N : Total(Requests, n) \in Nat
      /\ \A n \in 0..N : \A m \in 0..(n - 1) : Total(Requests, m) < Total(Requests, n)
  BY <1>1, <1>2, TotalGrows DEF N
<1>4. /\ \A n \in 0..N : Total(Responses, n) \in Nat
      /\ \A n \in 0..N : \A m \in 0..(n - 1) : Total(Responses, m) < Total(Responses, n)
  BY <1>1, <1>2, TotalGrows
<1>5. \A m, n \in 0..N : m < n => m \in 0..(n - 1)
  BY <1>1
<1>6. /\ Total(Requests, 0) = 0 /\ Total(Responses, 0) = 0
      /\ \A n \in 1..N : /\ Total(Requests, n) = Total(Requests, n - 1) + Requests[n]
                         /\ Total(Responses, n) = Total(Responses, n - 1) + Responses[n]
  BY <1>1, TotalStep DEF N
<1> QED BY <1>1, <1>2, <1>3, <1>4, <1>5, <1>6

\* The end of the last request and of the last response.
LEMMA LastEnd ==
  N \in 0..N /\ Total(Requests, N) \in Nat /\ Total(Responses, N) \in Nat
<1>1. N \in Nat \ {0}
  BY Ends
<1>2. N \in 0..N
  BY <1>1
<1> QED BY <1>2, Ends

-----------------------------------------------------------------------------
(* Bytes.                                                                   *)

\* Joining sequences of bytes.
LEMMA JoinsJoin ==
  ASSUME NEW s \in Seq(Nat), NEW t \in Seq(Nat), NEW u \in Seq(Nat)
  PROVE  (s \o t) \o u = s \o (t \o u)
BY SMTT(30)

\* The bytes of a stream from i on to j.
LEMMA LabelsAre ==
  ASSUME NEW i \in Nat, NEW j \in Nat, i <= j
  PROVE  /\ Labels(i, j) \in Seq(Nat) /\ Len(Labels(i, j)) = j - i
         /\ \A k \in 1..(j - i) : Labels(i, j)[k] = i + k
BY DEF Labels

\* What has those bytes at those places is that piece of the stream.
LEMMA AreLabels ==
  ASSUME NEW i \in Nat, NEW j \in Nat, i <= j, NEW s \in Seq(Nat), Len(s) = j - i,
         \A k \in 1..(j - i) : s[k] = i + k
  PROVE  s = Labels(i, j)
<1>1. Labels(i, j) \in Seq(Nat) /\ Len(Labels(i, j)) = Len(s)
  BY LabelsAre
<1>2. \A k \in 1..Len(s) : s[k] = Labels(i, j)[k]
  BY LabelsAre
<1> QED BY <1>1, <1>2, SeqEqual

\* A piece without bytes.
LEMMA NoLabels ==
  ASSUME NEW i \in Nat
  PROVE  Labels(i, i) = <<>>
BY DEF Labels

\* Two pieces that meet are one.
LEMMA LabelsJoin ==
  ASSUME NEW i \in Nat, NEW j \in Nat, NEW k \in Nat, i <= j, j <= k
  PROVE  Labels(i, j) \o Labels(j, k) = Labels(i, k)
<1> DEFINE a == Labels(i, j)
           b == Labels(j, k)
<1>1. /\ a \in Seq(Nat) /\ Len(a) = j - i /\ \A n \in 1..(j - i) : a[n] = i + n
      /\ b \in Seq(Nat) /\ Len(b) = k - j /\ \A n \in 1..(k - j) : b[n] = j + n
  BY LabelsAre
<1> HIDE DEF a, b
<1>2. /\ a \o b \in Seq(Nat) /\ Len(a \o b) = Len(a) + Len(b)
      /\ \A n \in 1..(Len(a) + Len(b)) :
           (a \o b)[n] = IF n <= Len(a) THEN a[n] ELSE b[n - Len(a)]
  BY <1>1, ConcatProperties
<1>3. Len(a \o b) = k - i
  BY <1>1, <1>2
<1>4. ASSUME NEW n \in 1..(k - i) PROVE (a \o b)[n] = i + n
  <2>1. (a \o b)[n] = IF n <= j - i THEN a[n] ELSE b[n - (j - i)]
    <3>1. Len(a) = j - i /\ Len(b) = k - j
      BY <1>1
    <3>2. n \in 1..(Len(a) + Len(b))
      BY <3>1
    <3> QED BY <3>1, <3>2, <1>2
  <2>2. CASE n <= j - i
    <3>1. n \in 1..(j - i)
      BY <2>2
    <3> QED BY <3>1, <2>1, <2>2, <1>1
  <2>3. CASE ~(n <= j - i)
    <3>1. n - (j - i) \in 1..(k - j) /\ j + (n - (j - i)) = i + n
      BY <2>3
    <3> QED BY <3>1, <2>1, <2>3, <1>1
  <2> QED BY <2>2, <2>3
<1>5. i <= k
  OBVIOUS
<1> QED BY <1>2, <1>3, <1>4, <1>5, AreLabels DEF a, b

\* (A name for SubSeq, which the provers would expand in every lemma that names it.)
Part(s, m, n) == SubSeq(s, m, n)

\* A piece of a piece of a stream.
LEMMA LabelsPart ==
  ASSUME NEW i \in Nat, NEW j \in Nat, i <= j,
         NEW n \in Nat, NEW b \in Nat, 1 <= n, n <= b + 1, b <= j - i,
         NEW from \in Nat, NEW to \in Nat, from = i + n - 1, to = i + b
  PROVE  Part(Labels(i, j), n, b) = Labels(from, to)
<1> DEFINE s == Labels(i, j)
           t == Part(s, n, b)
<1>1. s \in Seq(Nat) /\ Len(s) = j - i /\ \A k \in 1..(j - i) : s[k] = i + k
  BY LabelsAre
<1> HIDE DEF s
<1>2. \A k \in n..b : s[k] \in Nat
  BY <1>1
<1>3. /\ t \in Seq(Nat) /\ Len(t) = IF n <= b THEN b - n + 1 ELSE 0
      /\ \A k \in 1..(b - n + 1) : t[k] = s[n + k - 1]
  BY <1>2, SubSeqProperties DEF Part
<1> HIDE DEF t
<1>4. Len(t) = to - from
  BY <1>3
<1>5. ASSUME NEW k \in 1..(to - from) PROVE t[k] = from + k
  <2>1. k \in 1..(b - n + 1) /\ n + k - 1 \in 1..(j - i)
    OBVIOUS
  <2>2. t[k] = s[n + k - 1] /\ s[n + k - 1] = i + (n + k - 1)
    BY <2>1, <1>1, <1>3
  <2> QED BY <2>2
<1>6. from <= to
  OBVIOUS
<1> QED BY <1>3, <1>4, <1>5, <1>6, AreLabels DEF s, t

\* The first n bytes of a piece.
LEMMA LabelsFirst ==
  ASSUME NEW i \in Nat, NEW j \in Nat, i <= j, NEW n \in Nat, n <= j - i,
         NEW to \in Nat, to = i + n
  PROVE  Part(Labels(i, j), 1, n) = Labels(i, to)
<1>1. PICK one \in Nat : one = 1
  OBVIOUS
<1>2. 1 <= one /\ one <= n + 1 /\ i = i + one - 1
  BY <1>1
<1>3. Part(Labels(i, j), one, n) = Labels(i, to)
  BY <1>2, LabelsPart
<1> QED BY <1>1, <1>3

-----------------------------------------------------------------------------
(* The invariant.                                                           *)

Tried(c) == c.state \in {"SYN_RECV", "LAST_ACK", "FIN_WAIT_1", "CLOSING"} => c.retry <= MaxTries

Timed(c) ==
  c.state \in {"SYN_RECV", "LAST_ACK", "FIN_WAIT_1", "FIN_WAIT_2", "CLOSED"} => c.timer1

Bounded(c) ==
  /\ c.retry <= MaxTries + 1 /\ Tried(c)
  /\ Len(c.inRing) <= RingSize /\ Len(c.outRing) <= RingSize

\* Who listens, and when.
Listens(c, h) ==
  /\ h \in Listener
  /\ IF c.listener THEN h.state # "-" ELSE h = NoListener
  /\ h.passed => h.state = "RESPONSE"
  /\ c.state = "ESTABLISHED" => c.listener
  /\ c.listener => c.state \in {"ESTABLISHED", "LAST_ACK", "CLOSED"}

\* The bytes of the requests before the one at hand.
Before(h) == Total(Requests, h.number) - (IF h.state = "RESPONSE" THEN Len(h.request) ELSE 0)

\* The ring holds what was written and is not acknowledged.
Outgoing(c, h) ==
  /\ c.localSeq >= 1
  /\ c.outRing = Labels(c.localSeq - 1, h.written)
  /\ c.localSeq - 1 + Len(c.outRing) = h.written

\* The request so far and the ring hold what was received since Before.
Incoming(c, h) ==
  /\ c.remoteSeq >= 1 /\ Before(h) \in Nat
  /\ h.request \o c.inRing = Labels(Before(h), c.remoteSeq - 1)
  /\ Before(h) + Len(h.request) + Len(c.inRing) = c.remoteSeq - 1

\* In the middle of a response: nothing more may have arrived.
Responding(c, h) ==
  /\ h.number > 0 /\ h.todo > 0
  /\ h.written + h.todo = Total(Responses, h.number)
  /\ Len(h.request) = Requests[h.number]
  /\ ~c.needRecv /\ ~c.canRecv /\ c.inRing = <<>>

\* Between responses: one request more may have arrived, and when the listener would
\* be called there is something in the ring.
Requesting(c, h) ==
  /\ h.todo = 0 /\ h.written = Total(Responses, h.number)
  /\ c.remoteSeq - 1 <= Total(Requests, Lower(h.number + 1, N))
  /\ c.canRecv => c.inRing # <<>>

Serving(c, h) ==
  /\ Outgoing(c, h) /\ Incoming(c, h)
  /\ IF h.state = "RESPONSE" THEN Responding(c, h) ELSE Requesting(c, h)

\* The browser has closed, and its FIN was the last number: the request so far and the
\* ring hold what was received before it, and a response may be half sent.
Ending(c, h) ==
  /\ c.remoteSeq >= 2 /\ Before(h) \in Nat
  /\ h.request \o c.inRing = Labels(Before(h), c.remoteSeq - 2)
  /\ Before(h) + Len(h.request) + Len(c.inRing) = c.remoteSeq - 2
  /\ h.state = "RESPONSE" => h.todo > 0
  /\ c.state = "LAST_ACK" => Outgoing(c, h)

Ended(c, e) == e.closed /\ e.end + 2 = c.remoteSeq

\* Before the handshake is complete.
Fresh(c) ==
  /\ c.localSeq = 0 /\ c.remoteSeq = 1 /\ c.inRing = <<>> /\ c.outRing = <<>>
  /\ ~c.canRecv

Unheard(e) == e.heard = <<>> /\ ~e.fin /\ e.acked = 0

\* The browser is never ahead of the server.
Follows(c, h, e) ==
  /\ Len(e.heard) <= h.written /\ ~e.fin
  /\ e.acked <= c.remoteSeq - 1

Hears(e) == e \in Browsers /\ e.heard = Labels(0, Len(e.heard))

Inv(c, h, e) ==
  /\ c \in Connections /\ c.state # "LISTEN" /\ Bounded(c) /\ Timed(c)
  /\ Listens(c, h)
  /\ Hears(e)
  /\ c.state = "NONE" => ~e.up /\ Unheard(e) /\ ~c.timer2
  /\ c.state = "SYN_RECV" => Fresh(c) /\ Unheard(e)
  /\ c.state = "ESTABLISHED" => Serving(c, h) /\ Follows(c, h, e)
  /\ c.listener /\ c.state # "ESTABLISHED" => Ending(c, h) /\ Ended(c, e)
  /\ c.listener /\ c.state = "LAST_ACK" => e.acked <= c.remoteSeq - 1

\* What the process may die of.
Dies(c) == c.state = "CRASHED" => client.closed \/ kind = "close"

IInv == conn.out = <<>> /\ kind \in LastKinds /\ Inv(conn, http, client) /\ Dies(conn)

\* What the packets say that c sends: their data is what lies at their place in the
\* stream, of which w bytes are written.
Truthful(p, w) ==
  p.data # <<>> => /\ p.seq >= 1 /\ p.seq - 1 + Len(p.data) <= w
                   /\ p.data = Labels(p.seq - 1, p.seq - 1 + Len(p.data))

Sending(c, w) ==
  /\ c.out \in Seq(Packets)
  /\ \A k \in 1..Len(c.out) :
       /\ Truthful(c.out[k], w)
       /\ c.state \in {"SYN_RECV", "ESTABLISHED", "LAST_ACK"} => c.out[k].ack <= c.remoteSeq
       /\ c.state \in {"SYN_RECV", "ESTABLISHED"} => "FIN" \notin c.out[k].flags

-----------------------------------------------------------------------------
(* The browser.                                                             *)

\* How many requests are answered is well defined, and the browser counts no answer
\* that was not written.
LEMMA AnsweredIs ==
  ASSUME client \in Browsers
  PROVE  /\ Answered \in 0..N
         /\ Len(client.heard) >= Total(Responses, Answered)
<1> DEFINE l == Len(client.heard)
           R(n) == Total(Responses, n)
           After(n) == \A m \in (n + 1)..N : l < R(m)
           T == {n \in 0..N : After(n)}
<1>0. l \in Nat
  BY DEF Browsers
<1> HIDE DEF l
<1>1. N \in Nat /\ R(0) = 0 /\ \A n \in 0..N : R(n) \in Nat
  BY Ends
<1>2. PICK n \in T : \A k \in T : n <= k
  <2>1. N \in T /\ T \subseteq Nat
    BY <1>1
  <2> QED BY <2>1, LeastNat
<1>3. n \in 0..N /\ After(n)
  BY <1>2
<1>4. l >= R(n)
  <2>1. CASE n = 0
    BY <2>1, <1>0, <1>1
  <2>2. CASE n # 0
    <3>1. n - 1 \in 0..N /\ ~(n <= n - 1)
      BY <2>2, <1>1, <1>3
    <3>2. ~After(n - 1)
      BY <3>1, <1>2
    <3>3. PICK m \in ((n - 1) + 1)..N : ~(l < R(m))
      BY <3>2
    <3>4. m = n
      <4>1. CASE m \in (n + 1)..N
        BY <4>1, <3>3, <1>3
      <4>2. CASE m \notin (n + 1)..N
        BY <4>2, <3>1, <3>3, <1>1
      <4> QED BY <4>1, <4>2
    <3> QED BY <3>3, <3>4, <1>0, <1>1, <1>3
  <2> QED BY <2>1, <2>2
<1>5. \E a \in 0..N : l >= R(a) /\ After(a)
  BY <1>3, <1>4
<1>6. Answered = CHOOSE a \in 0..N : l >= R(a) /\ After(a)
  BY DEF Answered, N, l
<1>7. Answered \in 0..N /\ l >= R(Answered)
  <2> HIDE DEF R, After
  <2> QED BY <1>5, <1>6
<1> QED BY <1>7 DEF l

\* What the browser may have sent.
LEMMA AllowedIs ==
  ASSUME client \in Browsers
  PROVE  /\ Allowed \in Nat /\ Allowed <= Total(Requests, N)
         /\ \A m \in 0..N : Len(client.heard) <= Total(Responses, m) =>
              Allowed <= Total(Requests, Lower(m + 1, N))
         /\ \A m \in 1..N : Len(client.heard) < Total(Responses, m) =>
              Allowed <= Total(Requests, m)
         /\ Answered = N => Len(client.heard) >= Total(Responses, N)
<1> DEFINE l == Len(client.heard)
           a == Answered
           edge == IF client.edge > client.acked THEN client.edge ELSE client.acked + 1
           Q(n) == Total(Requests, n)
           R(n) == Total(Responses, n)
<1>1. l \in Nat /\ edge \in Nat
  BY DEF Browsers
<1>2. a \in 0..N /\ l >= R(a)
  BY AnsweredIs
<1>3. Allowed = Lower(edge, Q(Lower(a + 1, N)))
  BY DEF Allowed, N
<1> HIDE DEF l, a, edge
<1>4. /\ N \in Nat \ {0}
      /\ \A n \in 0..N : Q(n) \in Nat /\ R(n) \in Nat
      /\ \A m, n \in 0..N : m < n => Q(m) < Q(n) /\ R(m) < R(n)
  BY Ends
<1> HIDE DEF Q, R
<1>5. \A m, n \in 0..N : m <= n => Q(m) <= Q(n) /\ R(m) <= R(n)
  <2> TAKE m, n \in 0..N
  <2>1. m = n \/ m < n \/ n < m
    BY <1>4
  <2> QED BY <2>1, <1>4
<1>6. Lower(a + 1, N) \in 0..N /\ N \in 0..N /\ Lower(a + 1, N) <= N
  BY <1>2, <1>4 DEF Lower
<1>7. Allowed \in Nat /\ Allowed <= Q(Lower(a + 1, N))
  <2> DEFINE q == Q(Lower(a + 1, N))
  <2>1. q \in Nat
    BY <1>4, <1>6
  <2>2. Allowed = Lower(edge, q)
    BY <1>3
  <2> HIDE DEF q
  <2>3. Allowed \in Nat /\ Allowed <= q
    BY <2>1, <2>2, <1>1 DEF Lower
  <2> QED BY <2>3 DEF q
<1> HIDE DEF a
<1>8. Allowed <= Q(N)
  <2>1. Q(Lower(a + 1, N)) <= Q(N) /\ Q(N) \in Nat /\ Q(Lower(a + 1, N)) \in Nat
    BY <1>4, <1>5, <1>6
  <2> QED BY <2>1, <1>7
<1>9. ASSUME NEW m \in 0..N, l <= R(m)
      PROVE  Allowed <= Q(Lower(m + 1, N))
  <2>1. a <= m
    <3>1. CASE m < a
      <4>1. R(m) < R(a) /\ R(m) \in Nat /\ R(a) \in Nat
        BY <3>1, <1>2, <1>4
      <4> QED BY <4>1, <1>1, <1>2, <1>9
    <3> QED BY <3>1, <1>2, <1>4
  <2>2. Lower(m + 1, N) \in 0..N /\ Lower(a + 1, N) <= Lower(m + 1, N)
    BY <2>1, <1>2, <1>4 DEF Lower
  <2>3. /\ Q(Lower(a + 1, N)) <= Q(Lower(m + 1, N))
        /\ Q(Lower(a + 1, N)) \in Nat /\ Q(Lower(m + 1, N)) \in Nat
    BY <2>2, <1>4, <1>5, <1>6
  <2> QED BY <2>3, <1>7
<1>10. ASSUME NEW m \in 1..N, l < R(m)
       PROVE  Allowed <= Q(m)
  <2>0. m \in 0..N /\ m \in Nat
    BY <1>4
  <2>1. a < m
    <3>1. CASE m <= a
      <4>1. R(m) <= R(a) /\ R(m) \in Nat /\ R(a) \in Nat
        BY <3>1, <2>0, <1>2, <1>4, <1>5
      <4> QED BY <4>1, <1>1, <1>2, <1>10
    <3> QED BY <3>1, <2>0, <1>2, <1>4
  <2>2. Lower(a + 1, N) <= m
    BY <2>1, <2>0, <1>2, <1>4 DEF Lower
  <2>3. /\ Q(Lower(a + 1, N)) <= Q(m) /\ Q(m) \in Nat /\ Q(Lower(a + 1, N)) \in Nat
    BY <2>0, <2>2, <1>4, <1>5, <1>6
  <2> QED BY <2>3, <1>7
<1>11. Allowed \in Nat /\ Allowed <= Q(N) /\ (a = N => l >= R(N))
  BY <1>2, <1>7, <1>8
<1> QED BY <1>9, <1>10, <1>11 DEF l, Q, R, a

\* What may arrive from the browser.
LEMMA PacketIs ==
  ASSUME Hears(client), conn \in Connections, NEW p \in ClientPackets
  PROVE  /\ client.up
         /\ p.seq \in Int /\ p.win \in Nat /\ p.ack \in Int /\ p.ack - 1 <= Heard
         /\ Has(p, "FIN") => client.closed /\ p.seq = client.end + 1
         /\ p.data = <<>> \/ \E j \in Nat : /\ conn.remoteSeq <= j /\ j <= Allowed
                                            /\ p.data = Labels(conn.remoteSeq - 1, j)
<1>1. conn.remoteSeq \in Nat /\ Allowed \in Nat /\ Windows \subseteq Nat /\ client.end \in Int
  BY AllowedIs, HttpServerAssumption DEF Connections, Hears, Browsers
<1>2. Heard \in Nat
  BY DEF Heard, Hears, Browsers
<1>3. client.up
  BY DEF ClientPackets
<1>4. PICK r \in 0..Heard, w \in Windows :
        p \in (IF client.closed THEN {Fin(r, w), LastAck(r, w)}
              ELSE {Data(j, r, w) : j \in (conn.remoteSeq - 1)..Allowed})
              \cup (IF conn.remoteSeq > 1 THEN {Late(r, w)} ELSE {})
  BY <1>3 DEF ClientPackets
<1>5. r \in Int /\ r <= Heard /\ w \in Nat
  BY <1>1, <1>2
<1>6. CASE p \in {Data(j, r, w) : j \in (conn.remoteSeq - 1)..Allowed}
  <2>1. PICK j \in (conn.remoteSeq - 1)..Allowed : p = Data(j, r, w)
    BY <1>6
  <2>2. /\ p.seq = conn.remoteSeq - 1 + 1 /\ p.ack = 1 + r /\ p.win = w
        /\ p.data = Labels(conn.remoteSeq - 1, j)
        /\ p.flags = {"PSH", "ACK"} \/ p.flags = {"ACK"}
    BY <2>1 DEF Data, Packet
  <2>3. ~Has(p, "FIN")
    BY <2>2 DEF Has
  <2>4. CASE j = conn.remoteSeq - 1
    <3>1. p.data = <<>>
      BY <2>2, <2>4 DEF Labels
    <3> QED BY <3>1, <2>2, <2>3, <1>1, <1>2, <1>3, <1>5
  <2>5. CASE j # conn.remoteSeq - 1
    <3>1. j \in Nat /\ conn.remoteSeq <= j /\ j <= Allowed
      BY <2>5, <1>1
    <3> QED BY <3>1, <2>2, <2>3, <1>1, <1>2, <1>3, <1>5
  <2> QED BY <2>4, <2>5
<1>7. CASE p = Late(r, w)
  BY <1>1, <1>2, <1>3, <1>5, <1>7 DEF Late, Packet, Has
<1>8. CASE client.closed /\ p = Fin(r, w)
  <2>1. p.seq = client.end + 1 /\ p.ack = 1 + r /\ p.win = w /\ p.data = <<>>
    BY <1>8 DEF Fin, Packet
  <2> QED BY <2>1, <1>1, <1>2, <1>3, <1>5, <1>8
<1>9. CASE p = LastAck(r, w)
  <2>1. /\ p.seq = client.end + 2 /\ p.ack = 1 + r /\ p.win = w /\ p.data = <<>>
        /\ p.flags = {"ACK"}
    BY <1>9 DEF LastAck, Packet
  <2>2. ~Has(p, "FIN")
    BY <2>1 DEF Has
  <2> QED BY <2>1, <2>2, <1>1, <1>2, <1>3, <1>5
<1> QED BY <1>4, <1>6, <1>7, <1>8, <1>9

\* The browser takes a packet that says what is true.
LEMMA TakesHolds ==
  ASSUME NEW e, Hears(e), NEW p \in Packets, NEW w \in Nat, Truthful(p, w)
  PROVE  /\ Hears(Takes(e, p))
         /\ Takes(e, p).closed = e.closed /\ Takes(e, p).end = e.end
         /\ Len(e.heard) <= Len(Takes(e, p).heard)
         /\ Len(e.heard) <= w => Len(Takes(e, p).heard) <= w
         /\ \A r \in Int : e.acked <= r - 1 /\ p.ack <= r => Takes(e, p).acked <= r - 1
         /\ "FIN" \notin p.flags => Takes(e, p).fin = e.fin
<1> DEFINE f == Takes(e, p)
           l == Len(e.heard)
<1>1. /\ e \in Browsers /\ e.heard = Labels(0, l) /\ l \in Nat /\ e.heard \in Seq(Nat)
      /\ e.acked \in Nat /\ e.edge \in Nat
  BY DEF Hears, Browsers
<1>2. /\ p.seq \in Nat /\ p.ack \in Nat /\ p.win \in Nat /\ p.data \in Seq(Nat)
      /\ Len(p.data) \in Nat
  BY DEF Packets
<1>3. CASE Has(p, "SYN")
  <2>1. f = [e EXCEPT !.up = TRUE, !.edge = p.win]
    BY <1>3 DEF Takes
  <2>2. /\ f \in Browsers /\ f.heard = e.heard /\ f.acked = e.acked /\ f.fin = e.fin
        /\ f.closed = e.closed /\ f.end = e.end
    BY <2>1, <1>1, <1>2 DEF Browsers
  <2> HIDE DEF f
  <2>3. Hears(f) /\ Len(f.heard) = l
    BY <2>2, <1>1 DEF Hears
  <2> QED BY <2>2, <2>3, <1>1 DEF f
<1>4. CASE ~Has(p, "SYN")
  <2> DEFINE x == IF p.seq = 1 + Len(e.heard) /\ ~e.fin THEN e.heard \o p.data ELSE e.heard
             fin == e.fin \/ (Has(p, "FIN") /\ p.seq = 1 + Len(e.heard))
             acked == IF Has(p, "ACK") /\ p.ack - 1 > e.acked THEN p.ack - 1 ELSE e.acked
             edge == IF Has(p, "ACK") /\ p.ack - 1 + p.win > e.edge THEN p.ack - 1 + p.win
                     ELSE e.edge
  <2>1. f = [e EXCEPT !.heard = x, !.fin = fin, !.acked = acked, !.edge = edge]
    BY <1>4 DEF Takes
  <2>2. fin \in BOOLEAN /\ ("FIN" \notin p.flags => fin = e.fin)
    BY <1>1 DEF Has, Browsers
  <2>3. acked \in Nat /\ edge \in Nat
    <3>1. p.ack \in Nat /\ p.win \in Nat /\ e.acked \in Nat /\ e.edge \in Nat
      BY <1>1, <1>2
    <3>2. acked \in Nat
      BY <3>1
    <3>3. edge \in Nat
      BY <3>1
    <3> QED BY <3>2, <3>3
  <2>4. \A r \in Int : e.acked <= r - 1 /\ p.ack <= r => acked <= r - 1
    BY <1>1, <1>2
  <2>5. /\ x \in Seq(Nat) /\ l <= Len(x) /\ (l <= w => Len(x) <= w)
        /\ x = Labels(0, Len(x))
    <3>1. CASE p.seq = 1 + l /\ ~e.fin /\ p.data # <<>>
      <4> DEFINE d == p.data
                 n == Len(d)
      <4>1. x = e.heard \o d /\ d \in Seq(Nat) /\ n \in Nat
        BY <3>1, <1>2
      <4>2. l + n <= w /\ d = Labels(l, l + n)
        <5>1. p.seq - 1 = l
          BY <3>1, <1>1, <1>2
        <5> QED BY <5>1, <3>1 DEF Truthful
      <4> HIDE DEF d, n, x
      <4>3. x = Labels(0, l + n)
        <5>1. 0 \in Nat /\ l + n \in Nat /\ 0 <= l /\ l <= l + n
          BY <4>1, <1>1
        <5>2. Labels(0, l) \o Labels(l, l + n) = Labels(0, l + n)
          BY <5>1, <1>1, LabelsJoin
        <5> QED BY <5>2, <4>1, <4>2, <1>1
      <4>4. x \in Seq(Nat) /\ Len(x) = l + n
        <5> DEFINE i == l + n
        <5>1. i \in Nat /\ 0 \in Nat /\ 0 <= i /\ i - 0 = i
          BY <4>1, <1>1
        <5> HIDE DEF i
        <5>2. Labels(0, i) \in Seq(Nat) /\ Len(Labels(0, i)) = i
          BY <5>1, LabelsAre
        <5> QED BY <5>2, <4>3 DEF i
      <4>5. x = Labels(0, Len(x))
        BY <4>3, <4>4
      <4>6. l <= Len(x) /\ (l <= w => Len(x) <= w)
        <5> HIDE DEF l
        <5>1. l \in Nat /\ n \in Nat /\ l + n <= w /\ Len(x) = l + n
          BY <4>1, <4>2, <4>4, <1>1
        <5> QED BY <5>1
      <4> QED BY <4>4, <4>5, <4>6
    <3>2. CASE ~(p.seq = 1 + l /\ ~e.fin /\ p.data # <<>>)
      <4>1. x = e.heard
        <5>1. e.heard \o <<>> = e.heard
          BY <1>1, ConcatEmptySeq
        <5> QED BY <5>1, <3>2
      <4> HIDE DEF x
      <4> QED BY <4>1, <1>1
    <3> QED BY <3>1, <3>2
  <2> HIDE DEF x, fin, acked, edge
  <2>6. /\ f \in Browsers /\ f.heard = x /\ f.acked = acked /\ f.fin = fin
        /\ f.closed = e.closed /\ f.end = e.end
    BY <2>1, <2>2, <2>3, <2>5, <1>1 DEF Browsers
  <2> HIDE DEF f
  <2>7. Hears(f)
    BY <2>5, <2>6 DEF Hears
  <2> QED BY <2>2, <2>4, <2>5, <2>6, <2>7 DEF f
<1> QED BY <1>3, <1>4

\* The packets of a step reach the browser one by one.
LEMMA ReachesIs ==
  ASSUME NEW c, NEW n \in Nat, Reaches(c, n)
  PROVE  \E f : /\ f = [k \in 0..n |-> IF k = 0 THEN client ELSE Takes(f[k - 1], c.out[k])]
                /\ client' = f[n] /\ conn' = [c EXCEPT !.out = <<>>]
<1> DEFINE Follow(f, m) ==
             f = [k \in 0..m |-> IF k = 0 THEN client ELSE Takes(f[k - 1], c.out[k])]
           Bad == {m \in 0..n : ~ \E f : Follow(f, m)}
<1>1. \E f : Follow(f, n)
  <2>1. SUFFICES ASSUME ~ \E f : Follow(f, n) PROVE FALSE
    OBVIOUS
  <2>2. Bad # {} /\ Bad \subseteq Nat
    BY <2>1
  <2>3. PICK m \in Bad : \A k \in Bad : m <= k
    BY <2>2, LeastNat
  <2>4. m \in Nat /\ m <= n
    BY <2>3
  <2>5. CASE m = 0
    <3>1. Follow([k \in 0..0 |-> client], 0)
      OBVIOUS
    <3> QED BY <3>1, <2>3, <2>5
  <2>6. CASE m # 0
    <3>1. m - 1 \in 0..n /\ ~(m <= m - 1)
      BY <2>4, <2>6
    <3>2. PICK f : Follow(f, m - 1)
      <4> HIDE DEF Follow
      <4>1. m - 1 \notin Bad
        <5> HIDE DEF Bad
        <5> QED BY <3>1, <2>3
      <4> QED BY <4>1, <3>1
    <3> DEFINE g == [k \in 0..m |-> IF k = m THEN Takes(f[m - 1], c.out[m]) ELSE f[k]]
    <3>3. ASSUME NEW k \in 0..m
          PROVE  g[k] = IF k = 0 THEN client ELSE Takes(g[k - 1], c.out[k])
      <4>1. CASE k = m
        BY <4>1, <2>4, <2>6
      <4>2. CASE k # m
        <5>1. k \in 0..(m - 1) /\ (k # 0 => k - 1 \in 0..m /\ k - 1 # m)
          BY <4>2, <2>4, <2>6
        <5>2. f[k] = IF k = 0 THEN client ELSE Takes(f[k - 1], c.out[k])
          BY <5>1, <3>2
        <5> QED BY <5>1, <5>2, <4>2
      <4> QED BY <4>1, <4>2
    <3>4. Follow(g, m)
      BY <3>3
    <3> HIDE DEF Follow, g
    <3> QED BY <3>4, <2>3
  <2> QED BY <2>5, <2>6
<1> DEFINE after == CHOOSE f : Follow(f, n)
<1>2. Follow(after, n)
  BY <1>1
<1>3. client' = after[n] /\ conn' = [c EXCEPT !.out = <<>>]
  BY DEF Reaches
<1> HIDE DEF after
<1> QED BY <1>2, <1>3

\* The packets of a step leave the invariant as they find it.
LEMMA Arrives ==
  ASSUME NEW c, NEW h, NEW w \in Nat, NEW n \in 0..Len(c.out),
         Inv(c, h, client), kind \in LastKinds, Sending(c, w),
         c.state # "NONE",
         c.state = "SYN_RECV" => w = 0,
         c.state = "ESTABLISHED" => w = h.written,
         Dies(c), Reaches(c, n), http' = h, kind' = kind
  PROVE  IInv'
<1>0. c \in Connections /\ Len(c.out) \in Nat /\ n \in Nat /\ n <= Len(c.out) /\ Hears(client)
  BY DEF Inv, Connections
<1>1. PICK f :
        /\ f = [k \in 0..n |-> IF k = 0 THEN client ELSE Takes(f[k - 1], c.out[k])]
        /\ client' = f[n] /\ conn' = [c EXCEPT !.out = <<>>]
  BY <1>0, ReachesIs
<1> DEFINE P(e) ==
             /\ Hears(e) /\ e.closed = client.closed /\ e.end = client.end
             /\ Len(client.heard) <= Len(e.heard)
             /\ Len(client.heard) <= w => Len(e.heard) <= w
             /\ c.state \in {"SYN_RECV", "ESTABLISHED", "LAST_ACK"}
                  /\ client.acked <= c.remoteSeq - 1 => e.acked <= c.remoteSeq - 1
             /\ c.state \in {"SYN_RECV", "ESTABLISHED"} => e.fin = client.fin
           Bad == {k \in 0..n : ~P(f[k])}
<1>2. P(client)
  BY <1>0 DEF Hears, Browsers
<1>3. ASSUME NEW k \in 1..n, P(f[k - 1])
      PROVE  P(f[k])
  <2> DEFINE e == f[k - 1]
             p == c.out[k]
  <2>1. k \in 0..n /\ k # 0 /\ k \in 1..Len(c.out) /\ f[k] = Takes(e, p)
    <3>1. k \in 0..n /\ k # 0 /\ k \in 1..Len(c.out)
      BY <1>0
    <3> QED BY <3>1, <1>1
  <2>2. /\ p \in Packets /\ Truthful(p, w) /\ p.ack \in Nat /\ c.remoteSeq \in Int
        /\ c.state \in {"SYN_RECV", "ESTABLISHED", "LAST_ACK"} => p.ack <= c.remoteSeq
        /\ c.state \in {"SYN_RECV", "ESTABLISHED"} => "FIN" \notin p.flags
    <3>1. c.out \in Seq(Packets)
      BY DEF Sending
    <3>2. p \in Packets
      BY <3>1, <2>1, ElementOfSeq
    <3>3. p.ack \in Nat /\ c.remoteSeq \in Int
      <4> HIDE DEF p
      <4> QED BY <3>2, <1>0 DEF Packets, Connections
    <3> QED BY <3>2, <3>3, <2>1 DEF Sending
  <2>3. Hears(e)
    BY <1>3
  <2> HIDE DEF e, p
  <2>4. /\ Hears(Takes(e, p))
        /\ Takes(e, p).closed = e.closed /\ Takes(e, p).end = e.end
        /\ Len(e.heard) <= Len(Takes(e, p).heard)
        /\ Len(e.heard) <= w => Len(Takes(e, p).heard) <= w
        /\ \A r \in Int : e.acked <= r - 1 /\ p.ack <= r => Takes(e, p).acked <= r - 1
        /\ "FIN" \notin p.flags => Takes(e, p).fin = e.fin
    BY <2>2, <2>3, TakesHolds
  <2> DEFINE g == Takes(e, p)
  <2>5. P(e)
    BY <1>3 DEF e
  <2>6. Len(e.heard) \in Nat /\ Len(g.heard) \in Nat /\ Len(client.heard) \in Nat
    <3>1. \A b : Hears(b) => Len(b.heard) \in Nat
      BY DEF Hears, Browsers
    <3> QED BY <3>1, <2>3, <2>4, <1>0
  <2> HIDE DEF g
  <2>7. /\ Hears(g) /\ g.closed = client.closed /\ g.end = client.end
        /\ Len(client.heard) <= Len(g.heard)
        /\ Len(client.heard) <= w => Len(g.heard) <= w
    BY <2>4, <2>5, <2>6 DEF g
  <2>8. /\ c.state \in {"SYN_RECV", "ESTABLISHED", "LAST_ACK"}
             /\ client.acked <= c.remoteSeq - 1 => g.acked <= c.remoteSeq - 1
        /\ c.state \in {"SYN_RECV", "ESTABLISHED"} => g.fin = client.fin
    BY <2>2, <2>4, <2>5 DEF g
  <2> QED BY <2>1, <2>7, <2>8 DEF g
<1>4. P(f[n])
  <2>1. SUFFICES ASSUME ~P(f[n]) PROVE FALSE
    OBVIOUS
  <2> HIDE DEF P
  <2>2. Bad # {} /\ Bad \subseteq Nat
    BY <2>1, <1>0
  <2>3. PICK k \in Bad : \A j \in Bad : k <= j
    BY <2>2, LeastNat
  <2>4. k \in 0..n /\ k \in Nat /\ ~P(f[k])
    BY <2>3, <1>0
  <2>5. CASE k = 0
    <3>1. f[0] = client
      BY <1>0, <1>1
    <3> QED BY <3>1, <2>4, <2>5, <1>2
  <2>6. CASE k # 0
    <3>1. k \in 1..n /\ k - 1 \in 0..n /\ ~(k <= k - 1)
      BY <2>4, <2>6, <1>0
    <3>2. k - 1 \notin Bad
      <4> HIDE DEF Bad
      <4> QED BY <3>1, <2>3
    <3>3. P(f[k - 1])
      BY <3>1, <3>2
    <3> QED BY <3>1, <3>3, <2>4, <1>3
  <2> QED BY <2>5, <2>6
<1>5. /\ conn' \in Connections /\ conn'.out = <<>>
      /\ conn'.state = c.state /\ conn'.retry = c.retry /\ conn'.localSeq = c.localSeq
      /\ conn'.remoteSeq = c.remoteSeq /\ conn'.inRing = c.inRing /\ conn'.outRing = c.outRing
      /\ conn'.needRecv = c.needRecv /\ conn'.canRecv = c.canRecv
      /\ conn'.timer1 = c.timer1 /\ conn'.listener = c.listener
  <2>1. <<>> \in Seq(Packets)
    OBVIOUS
  <2> QED BY <2>1, <1>0, <1>1 DEF Connections
<1>6. P(client')
  BY <1>1, <1>4
<1>7. Bounded(conn') /\ Timed(conn') /\ Listens(conn', http')
  BY <1>5 DEF Inv, Bounded, Tried, Timed, Listens
<1>8. ASSUME c.state = "SYN_RECV" PROVE Fresh(conn') /\ Unheard(client')
  <2>1. Fresh(c) /\ Unheard(client) /\ w = 0
    BY <1>8 DEF Inv
  <2>2. Fresh(conn')
    BY <2>1, <1>5 DEF Fresh
  <2>3. /\ client.heard = <<>> /\ client.fin = FALSE
        /\ client.acked = 0 /\ c.remoteSeq = 1
    BY <2>1, <1>0 DEF Unheard, Fresh, Hears, Browsers
  <2>4. Len(client'.heard) <= 0 /\ client'.heard \in Seq(Nat)
    <3>1. Len(client.heard) <= 0
      BY <2>3
    <3> QED BY <3>1, <2>1, <1>6 DEF Hears, Browsers
  <2>5. client'.heard = <<>>
    BY <2>4, EmptySeq
  <2>6. client'.acked \in Nat /\ client'.acked <= 0
    BY <2>3, <1>6, <1>8 DEF Hears, Browsers
  <2> QED BY <2>2, <2>3, <2>5, <2>6, <1>6, <1>8 DEF Unheard
<1>9. ASSUME c.state = "ESTABLISHED" PROVE Serving(conn', http') /\ Follows(conn', http', client')
  <2>1. Serving(c, h) /\ Follows(c, h, client) /\ w = h.written
    BY <1>9 DEF Inv
  <2>2. Serving(conn', http')
    BY <2>1, <1>5 DEF Serving, Outgoing, Incoming, Responding, Requesting
  <2>3. Len(client'.heard) <= http'.written /\ ~client'.fin /\ client'.acked <= conn'.remoteSeq - 1
    BY <2>1, <1>5, <1>6, <1>9 DEF Follows
  <2> QED BY <2>2, <2>3 DEF Follows
<1>10. ASSUME c.listener, c.state # "ESTABLISHED"
       PROVE  Ending(conn', http') /\ Ended(conn', client')
  <2>1. Ending(c, h) /\ Ended(c, client)
    BY <1>10 DEF Inv
  <2>2. Ending(conn', http')
    BY <2>1, <1>5 DEF Ending, Outgoing
  <2>3. Ended(conn', client')
    BY <2>1, <1>5, <1>6 DEF Ended
  <2> QED BY <2>2, <2>3
<1>11. ASSUME c.listener, c.state = "LAST_ACK" PROVE client'.acked <= conn'.remoteSeq - 1
  BY <1>5, <1>6, <1>11 DEF Inv
<1>12. conn'.state # "NONE"
  BY <1>5
<1>15. Dies(conn)'
  BY <1>5, <1>6 DEF Dies
<1> HIDE DEF P
<1>13. Hears(client')
  BY <1>6 DEF P
<1>14. Inv(conn', http', client')
  BY <1>5, <1>7, <1>8, <1>9, <1>10, <1>11, <1>12, <1>13 DEF Inv
<1> QED BY <1>5, <1>14, <1>15 DEF IInv, Inv, Hears

-----------------------------------------------------------------------------
(* The connection: sending.                                                 *)

\* Two connections that differ in what they have sent at most.
Alike(d, c) ==
  /\ d \in Connections
  /\ d.state = c.state /\ d.retry = c.retry /\ d.localSeq = c.localSeq
  /\ d.remoteSeq = c.remoteSeq /\ d.wnd = c.wnd /\ d.inRing = c.inRing
  /\ d.outRing = c.outRing /\ d.needRecv = c.needRecv /\ d.needSend = c.needSend
  /\ d.canRecv = c.canRecv /\ d.canSend = c.canSend /\ d.timer1 = c.timer1
  /\ d.timer2 = c.timer2 /\ d.listener = c.listener

\* sendPacket sends one packet without data.
LEMMA SendPacketIs ==
  ASSUME NEW c \in Connections, Len(c.inRing) <= RingSize, c.out = <<>>,
         NEW flags \in SUBSET Flags
  PROVE  LET d == SendPacket(c, flags, 0, <<>>) IN
         /\ Alike(d, c)
         /\ \A k \in 1..Len(d.out) : /\ d.out[k].data = <<>> /\ d.out[k].ack = c.remoteSeq
                                     /\ "FIN" \notin flags => "FIN" \notin d.out[k].flags
<1> DEFINE acks == IF c.needAck THEN {"ACK"} ELSE {}
           p == Packet(flags \cup acks, c.localSeq + 0, c.remoteSeq, InFree(c), <<>>)
           d == [c EXCEPT !.needAck = FALSE, !.out = Append(<<>>, p)]
<1>1. SendPacket(c, flags, 0, <<>>) = d
  BY DEF SendPacket
<1>2. InFree(c) \in Nat
  BY ServerTcpAssumption DEF InFree, Connections
<1>3. acks \in SUBSET Flags /\ "FIN" \notin acks
  BY DEF Flags
<1>4. c.localSeq + 0 \in Nat /\ c.remoteSeq \in Nat /\ <<>> \in Seq(Nat)
  BY DEF Connections
<1> HIDE DEF acks
<1>5. /\ p \in Packets /\ p.data = <<>> /\ p.ack = c.remoteSeq
      /\ p.flags = flags \cup acks
  BY <1>2, <1>3, <1>4 DEF Packet, Packets
<1> HIDE DEF p
<1>6. Append(<<>>, p) = <<p>> /\ <<p>> \in Seq(Packets) /\ Len(<<p>>) = 1
  BY <1>5
<1>7. Alike(d, c) /\ d.out = <<p>>
  BY <1>6 DEF Alike, Connections
<1> HIDE DEF d
<1>8. ASSUME NEW k \in 1..Len(d.out) PROVE d.out[k] = p
  <2>1. k = 1
    BY <1>6, <1>7
  <2> QED BY <2>1, <1>7
<1>9. "FIN" \notin flags => "FIN" \notin p.flags
  BY <1>3, <1>5
<1> QED BY <1>1, <1>5, <1>7, <1>8, <1>9

\* A piece of the ring in a packet, at its place.
LEMMA PieceTruthful ==
  ASSUME NEW seq \in Nat, seq >= 1, NEW w \in Nat, NEW s \in Seq(Nat), s = Labels(seq - 1, w),
         seq - 1 + Len(s) = w, NEW a \in Nat, NEW m \in Nat, m <= Len(s),
         NEW p, p.seq = seq + a, p.data = Part(s, a + 1, m)
  PROVE  p.data \in Seq(Nat) /\ Truthful(p, w)
<1>1. CASE m <= a
  <2>1. a + 1 \in Int /\ m \in Int /\ m < a + 1
    BY <1>1
  <2>2. p.data = <<>>
    BY <2>1, SubSeqEmpty DEF Part
  <2>3. p.data \in Seq(Nat)
    BY <2>2, EmptySeq
  <2> QED BY <2>2, <2>3 DEF Truthful
<1>2. CASE a < m
  <2>1. PICK i \in Nat, n \in Nat, l \in Nat, from \in Nat, to \in Nat :
          i = seq - 1 /\ n = a + 1 /\ l = Len(s) /\ from = i + a /\ to = i + m
    <3>1. seq - 1 \in Nat /\ a + 1 \in Nat /\ Len(s) \in Nat
      OBVIOUS
    <3>2. seq - 1 + a \in Nat /\ seq - 1 + m \in Nat
      BY <3>1
    <3> QED BY <3>1, <3>2
  <2>2. /\ i <= w /\ 1 <= n /\ n <= m + 1 /\ m <= w - i /\ from = i + n - 1
        /\ from <= to /\ to <= w
    <3>1. i + l = w /\ m <= l
      BY <2>1
    <3> QED BY <3>1, <2>1, <1>2
  <2>3. p.data = Part(Labels(i, w), n, m) /\ p.seq - 1 = from /\ p.seq >= 1
    BY <2>1
  <2>4. Part(Labels(i, w), n, m) = Labels(from, to)
    BY <2>1, <2>2, LabelsPart
  <2>5. p.data \in Seq(Nat) /\ Len(p.data) = to - from
    <3>1. Labels(from, to) \in Seq(Nat) /\ Len(Labels(from, to)) = to - from
      BY <2>2, LabelsAre
    <3> QED BY <3>1, <2>3, <2>4
  <2>6. from + Len(p.data) = to
    BY <2>5
  <2> QED BY <2>2, <2>3, <2>4, <2>5, <2>6 DEF Truthful
<1> QED BY <1>1, <1>2

\* _send repeats nothing but what the ring holds, at its place.
LEMMA SendRingHolds ==
  ASSUME NEW c \in Connections, Bounded(c), c.out = <<>>, c.localSeq >= 1,
         NEW w \in Nat, c.outRing = Labels(c.localSeq - 1, w),
         c.localSeq - 1 + Len(c.outRing) = w,
         NEW offset \in Nat, NEW bytes \in Nat, offset + bytes = Len(c.outRing)
  PROVE  LET d == SendRing(c, offset, bytes) IN
         /\ Alike(d, c)
         /\ \A k \in 1..Len(d.out) : /\ Truthful(d.out[k], w) /\ d.out[k].ack = c.remoteSeq
                                     /\ "FIN" \notin d.out[k].flags
<1> DEFINE l == Lower(offset + bytes, c.wnd)
           packets == IF l > offset THEN (l - offset + SegSize - 1) \div SegSize ELSE 0
           at(k) == offset + (k - 1) * SegSize
           packet(k) == Packet(IF k = packets THEN {"PSH", "ACK"} ELSE {"ACK"}, c.localSeq + at(k),
                               c.remoteSeq, InFree(c),
                               SubSeq(c.outRing, at(k) + 1, Lower(at(k) + SegSize, l)))
           d == SendRing(c, offset, bytes)
<1>1. /\ SegSize \in Nat \ {0} /\ c.wnd \in Nat /\ c.localSeq \in Nat /\ c.remoteSeq \in Nat
      /\ c.outRing \in Seq(Nat) /\ Len(c.outRing) \in Nat
  BY ServerTcpAssumption DEF Connections
<1>2. InFree(c) \in Nat
  BY ServerTcpAssumption DEF InFree, Bounded, Connections
<1>3. l \in Nat /\ l <= Len(c.outRing)
  BY <1>1 DEF Lower
<1>4. d = IF packets > 0
          THEN [c EXCEPT !.needAck = FALSE, !.out = @ \o [k \in 1..packets |-> packet(k)]]
          ELSE IF c.needAck THEN SendPacket(c, {}, 0, <<>>) ELSE c
  BY DEF SendRing
<1> HIDE DEF l
<1>5. packets \in Int
  <2>1. l - offset + SegSize - 1 \in Int
    BY <1>1, <1>3
  <2> QED BY <2>1, <1>1
<1> HIDE DEF packets, d
<1>6. ASSUME NEW k \in 1..packets
      PROVE  /\ packet(k) \in Packets /\ Truthful(packet(k), w)
             /\ packet(k).ack = c.remoteSeq /\ "FIN" \notin packet(k).flags
  <2> DEFINE a == at(k)
             m == Lower(a + SegSize, l)
             s == SubSeq(c.outRing, a + 1, m)
             f == IF k = packets THEN {"PSH", "ACK"} ELSE {"ACK"}
  <2>1. a \in Nat
    <3>1. k - 1 \in Nat
      BY <1>5
    <3>2. (k - 1) * SegSize \in Nat
      BY <3>1, <1>1
    <3> QED BY <3>2
  <2>2. packet(k) = [flags |-> f, seq |-> c.localSeq + a, ack |-> c.remoteSeq,
                     win |-> InFree(c), data |-> s]
    BY DEF Packet
  <2> DEFINE p == packet(k)
  <2>5. p.seq = c.localSeq + a /\ p.data = s /\ p.ack = c.remoteSeq /\ p.flags = f
    <3> HIDE DEF a, s, f
    <3> QED BY <2>2
  <2>3. f \in SUBSET Flags /\ "FIN" \notin f
    BY DEF Flags
  <2> HIDE DEF a, f, packet, at
  <2>4. m \in Nat /\ m <= Len(c.outRing)
    BY <2>1, <1>1, <1>3 DEF Lower
  <2> HIDE DEF m
  <2> HIDE DEF p
  <2>6. s \in Seq(Nat) /\ Truthful(p, w)
    <3>1. p.data = Part(c.outRing, a + 1, m)
      BY <2>5 DEF s, Part
    <3> HIDE DEF s
    <3>2. PICK q \in Nat, b \in Nat, e \in Nat, r \in Seq(Nat) :
            q = c.localSeq /\ b = a /\ e = m /\ r = c.outRing
      BY <2>1, <2>4, <1>1
    <3>3. q >= 1 /\ r = Labels(q - 1, w) /\ q - 1 + Len(r) = w /\ e <= Len(r)
      BY <3>2, <2>4
    <3>4. p.seq = q + b /\ p.data = Part(r, b + 1, e)
      BY <3>1, <3>2, <2>5
    <3>5. p.data \in Seq(Nat) /\ Truthful(p, w)
      BY <3>3, <3>4, PieceTruthful, ZenonT(60)
    <3> QED BY <3>5, <2>5
  <2>7. c.localSeq + a \in Nat
    BY <2>1, <1>1
  <2>8. p \in Packets
    <3> HIDE DEF s
    <3> QED BY <2>2, <2>3, <2>6, <2>7, <1>1, <1>2 DEF p, Packets
  <2> QED BY <2>3, <2>5, <2>6, <2>8 DEF p
<1>7. CASE packets > 0
  <2> DEFINE ps == [k \in 1..packets |-> packet(k)]
  <2>1. ps \in Seq(Packets) /\ Len(ps) = packets /\ \A k \in 1..packets : ps[k] = packet(k)
    <3> HIDE DEF packet
    <3>1. packets \in Nat /\ \A k \in 1..packets : packet(k) \in Packets
      BY <1>5, <1>6, <1>7
    <3> QED BY <3>1
  <2> HIDE DEF ps
  <2>2. d = [c EXCEPT !.needAck = FALSE, !.out = @ \o ps]
    BY <1>4, <1>7 DEF ps
  <2>3. <<>> \o ps = ps
    BY <2>1, ConcatEmptySeq
  <2>4. Alike(d, c) /\ d.out = ps
    BY <2>1, <2>2, <2>3 DEF Alike, Connections
  <2> HIDE DEF packet
  <2> QED BY <2>1, <2>4, <1>6 DEF d
<1>8. CASE ~(packets > 0) /\ c.needAck
  <2> DEFINE g == SendPacket(c, {}, 0, <<>>)
  <2>1. {} \in SUBSET Flags /\ "FIN" \notin {}
    OBVIOUS
  <2>2. /\ Alike(g, c)
        /\ \A k \in 1..Len(g.out) : /\ g.out[k].data = <<>> /\ g.out[k].ack = c.remoteSeq
                                    /\ "FIN" \notin g.out[k].flags
    BY <2>1, SendPacketIs DEF Bounded
  <2> HIDE DEF g
  <2>3. d = g
    BY <1>4, <1>8 DEF g
  <2> QED BY <2>2, <2>3 DEF d, Truthful
<1>9. CASE ~(packets > 0) /\ ~c.needAck
  <2>1. d = c
    BY <1>4, <1>9
  <2>2. Len(d.out) = 0
    BY <2>1
  <2>3. Alike(d, c)
    BY <2>1 DEF Alike
  <2> QED BY <2>2, <2>3 DEF d
<1> QED BY <1>7, <1>8, <1>9

-----------------------------------------------------------------------------
(* The connection: receiving.                                               *)

\* An acknowledgement of what the browser heard takes it off the ring.
LEMMA TakeAckHolds ==
  ASSUME NEW c \in Connections, Bounded(c), c.state = "ESTABLISHED",
         NEW h \in Listener, Outgoing(c, h),
         NEW p, p.ack \in Int, p.ack - 1 <= h.written
  PROVE  LET d == TakeAck(c, p) IN
         /\ d \in Connections /\ Bounded(d) /\ Outgoing(d, h)
         /\ d.state = "ESTABLISHED" /\ d.remoteSeq = c.remoteSeq /\ d.inRing = c.inRing
         /\ d.needRecv = c.needRecv /\ d.canRecv = c.canRecv
         /\ d.listener = c.listener /\ d.out = c.out
<1>1. PICK ack \in Int : ack = p.ack - c.localSeq
  BY DEF Connections
<1>2. CASE ~Has(p, "ACK") \/ ack <= 0
  <2>1. TakeAck(c, p) = c
    BY <1>1, <1>2 DEF TakeAck
  <2> QED BY <2>1
<1>3. CASE Has(p, "ACK") /\ ack > 0
  <2> DEFINE r == c.outRing
             empty == ack >= Len(r)
             ring == SubSeq(r, ack + 1, Len(r))
             canSend == c.canSend \/ empty
             timer1 == c.timer1 \/ (empty /\ c.needSend)
             d == [c EXCEPT !.outRing = ring, !.localSeq = @ + ack, !.canSend = canSend,
                            !.timer1 = timer1]
  <2>1. TakeAck(c, p) = d
    BY <1>1, <1>3 DEF TakeAck
  <2>2. PICK i \in Nat, w \in Nat, l \in Nat, n \in Nat, from \in Nat :
          /\ i = c.localSeq - 1 /\ w = h.written /\ l = Len(r) /\ n = ack + 1 /\ from = i + ack
          /\ i + l = w /\ r = Labels(i, w)
    <3>1. c.localSeq \in Nat /\ c.localSeq >= 1 /\ h.written \in Nat /\ r \in Seq(Nat)
      BY DEF Connections, Listener, Outgoing
    <3>2. c.localSeq - 1 \in Nat /\ Len(r) \in Nat /\ ack + 1 \in Nat /\ c.localSeq - 1 + ack \in Nat
      BY <3>1, <1>3
    <3> QED BY <3>1, <3>2 DEF Outgoing
  <2>3. ack <= l
    <3>1. PICK q \in Nat : q = c.localSeq
      BY DEF Connections
    <3>2. PICK x \in Int : x = p.ack
      OBVIOUS
    <3>3. ack = x - q /\ i = q - 1 /\ x - 1 <= w /\ i + l = w
      BY <3>1, <3>2, <1>1, <2>2
    <3> QED BY <3>3
  <2>4. i <= w /\ 1 <= n /\ n <= l + 1 /\ l <= w - i /\ from = i + n - 1 /\ w = i + l /\ from <= w
    BY <1>3, <2>2, <2>3
  <2>5. Part(Labels(i, w), n, l) = Labels(from, w)
    BY <2>4, LabelsPart
  <2>6. ring = Part(Labels(i, w), n, l)
    BY <2>2 DEF Part
  <2> HIDE DEF ring
  <2>7. ring = Labels(from, w) /\ ring \in Seq(Nat) /\ Len(ring) = w - from
    <3>1. Labels(from, w) \in Seq(Nat) /\ Len(Labels(from, w)) = w - from
      BY <2>4, LabelsAre
    <3> QED BY <3>1, <2>5, <2>6
  <2>8. c.localSeq + ack = from + 1 /\ c.localSeq + ack \in Nat
    <3>1. PICK q \in Nat : q = c.localSeq
      BY DEF Connections
    <3>2. i = q - 1 /\ from = i + ack
      BY <3>1, <2>2
    <3> QED BY <3>1, <3>2
  <2>9. Len(ring) <= RingSize
    <3>1. l <= RingSize
      BY <2>2 DEF Bounded
    <3>2. w - from <= l
      BY <2>4, <1>3
    <3> QED BY <3>1, <3>2, <2>7, ServerTcpAssumption
  <2>10. canSend \in BOOLEAN /\ timer1 \in BOOLEAN
    BY DEF Connections
  <2> HIDE DEF canSend, timer1, empty
  <2>11. /\ d \in Connections /\ d.state = "ESTABLISHED" /\ d.remoteSeq = c.remoteSeq
         /\ d.inRing = c.inRing /\ d.needRecv = c.needRecv /\ d.canRecv = c.canRecv
         /\ d.listener = c.listener /\ d.out = c.out /\ d.retry = c.retry
         /\ d.outRing = ring /\ d.localSeq = c.localSeq + ack
    BY <2>7, <2>8, <2>10 DEF Connections
  <2> HIDE DEF d
  <2>12. Bounded(d)
    BY <2>9, <2>11 DEF Bounded, Tried
  <2>13. Outgoing(d, h)
    <3>1. d.localSeq >= 1 /\ d.localSeq - 1 = from
      BY <2>8, <2>11
    <3>2. from + Len(ring) = w
      BY <2>4, <2>7
    <3> QED BY <3>1, <3>2, <2>2, <2>7, <2>11 DEF Outgoing
  <2> QED BY <2>1, <2>11, <2>12, <2>13
<1> QED BY <1>1, <1>2, <1>3

\* Data that is next in order goes behind what the ring holds.
LEMMA TakeDataHolds ==
  ASSUME NEW c \in Connections, Bounded(c), c.state = "ESTABLISHED",
         NEW h \in Listener, Incoming(c, h), c.canRecv => c.inRing # <<>>,
         NEW p, NEW j \in Nat, c.remoteSeq <= j, p.data = Labels(c.remoteSeq - 1, j)
  PROVE  LET d == TakeData(c, p) IN
         /\ d \in Connections /\ Bounded(d) /\ Incoming(d, h)
         /\ d.canRecv => d.inRing # <<>>
         /\ c.remoteSeq <= d.remoteSeq /\ d.remoteSeq - 1 <= j
         /\ d.state = "ESTABLISHED" /\ d.localSeq = c.localSeq /\ d.outRing = c.outRing
         /\ d.needRecv = c.needRecv /\ d.listener = c.listener /\ d.out = c.out
<1>1. PICK i \in Nat, b \in Nat, l \in Nat :
        /\ i = c.remoteSeq - 1 /\ b = Before(h) /\ l = Len(c.inRing)
        /\ h.request \o c.inRing = Labels(b, i)
        /\ b + Len(h.request) + l = i
  <2>1. c.remoteSeq - 1 \in Nat /\ Len(c.inRing) \in Nat /\ Before(h) \in Nat
    <3>1. c.remoteSeq \in Nat /\ c.remoteSeq >= 1 /\ c.inRing \in Seq(Nat) /\ Before(h) \in Nat
      BY DEF Connections, Incoming
    <3> QED BY <3>1
  <2> QED BY <2>1 DEF Incoming
<1>2. /\ h.request \in Seq(Nat) /\ c.inRing \in Seq(Nat) /\ l <= RingSize
      /\ Len(h.request) \in Nat /\ i < j /\ p.data = Labels(i, j) /\ b <= i
      /\ c.remoteSeq = i + 1 /\ RingSize \in Nat
  <2>1. h.request \in Seq(Nat) /\ c.inRing \in Seq(Nat) /\ RingSize \in Nat
    BY ServerTcpAssumption DEF Connections, Listener
  <2>2. l <= RingSize
    BY <1>1 DEF Bounded
  <2>3. Len(h.request) \in Nat
    BY <2>1
  <2>4. PICK q \in Nat : q = c.remoteSeq
    BY DEF Connections
  <2>5. i = q - 1 /\ q <= j
    BY <2>4, <1>1
  <2>6. i < j /\ q = i + 1
    BY <2>5
  <2>7. b <= i
    BY <2>3, <1>1
  <2> QED BY <2>1, <2>2, <2>3, <2>4, <2>6, <2>7, <1>1
<1>3. p.data \in Seq(Nat) /\ Len(p.data) = j - i
  <2>1. i <= j
    BY <1>2
  <2> QED BY <2>1, <1>2, LabelsAre
<1>4. PICK n \in Nat : n = Lower(Len(p.data), InFree(c)) /\ n <= j - i /\ n <= RingSize - l
  <2>1. InFree(c) = RingSize - l
    BY <1>1 DEF InFree
  <2>2. RingSize \in Nat /\ l <= RingSize /\ i < j
    BY <1>2
  <2>3. RingSize - l \in Nat /\ j - i \in Nat
    BY <2>2
  <2> QED BY <2>1, <2>3, <1>3 DEF Lower
<1>5. CASE n = 0
  <2>1. TakeData(c, p) = c
    BY <1>4, <1>5 DEF TakeData
  <2> QED BY <2>1, <1>2
<1>6. CASE n # 0
  <2> DEFINE s == Part(p.data, 1, n)
             ring == c.inRing \o s
             canRecv == c.canRecv \/ Has(p, "PSH") \/ n = InFree(c)
             d == [c EXCEPT !.inRing = ring, !.remoteSeq = @ + n, !.canRecv = canRecv,
                            !.needAck = TRUE, !.timer1 = TRUE]
  <2>1. TakeData(c, p) = d
    BY <1>4, <1>6 DEF TakeData, Part
  <2>2. PICK to \in Nat : to = i + n
    OBVIOUS
  <2>3. i <= to /\ to <= j
    BY <1>4, <2>2
  <2>4. s = Labels(i, to) /\ s \in Seq(Nat) /\ Len(s) = n
    <3>1. i <= j /\ n <= j - i
      BY <1>2, <1>4
    <3>2. Part(Labels(i, j), 1, n) = Labels(i, to)
      BY <3>1, <2>2, LabelsFirst
    <3>4. s = Labels(i, to)
      BY <3>2, <1>2
    <3> HIDE DEF s
    <3>5. s \in Seq(Nat) /\ Len(s) = to - i
      BY <3>4, <2>3, LabelsAre
    <3> QED BY <3>4, <3>5, <2>2
  <2> HIDE DEF s
  <2>5. ring \in Seq(Nat) /\ Len(ring) = l + n
    BY <2>4, <1>1, <1>2, ConcatProperties
  <2>6. h.request \o ring = Labels(b, to)
    <3>1. h.request \o ring = (h.request \o c.inRing) \o s
      <4>1. h.request \in Seq(Nat) /\ c.inRing \in Seq(Nat) /\ s \in Seq(Nat)
        BY <2>4, <1>2
      <4> QED BY <4>1, JoinsJoin, Zenon
    <3>2. Labels(b, i) \o Labels(i, to) = Labels(b, to)
      <4>1. b <= i /\ i <= to
        BY <1>2, <2>3
      <4> QED BY <4>1, LabelsJoin
    <3> QED BY <3>1, <3>2, <2>4, <1>1
  <2> HIDE DEF ring
  <2>7. ring # <<>>
    <3>1. Len(ring) > 0
      BY <2>5, <1>6
    <3> QED BY <3>1, EmptySeq
  <2>8. canRecv \in BOOLEAN
    BY DEF Connections
  <2> HIDE DEF canRecv
  <2>9. /\ d \in Connections /\ d.state = "ESTABLISHED" /\ d.localSeq = c.localSeq
        /\ d.outRing = c.outRing /\ d.needRecv = c.needRecv /\ d.listener = c.listener
        /\ d.out = c.out /\ d.retry = c.retry /\ d.inRing = ring
        /\ d.remoteSeq = c.remoteSeq + n
    <3>1. c.remoteSeq + n \in Nat
      BY DEF Connections
    <3> QED BY <3>1, <2>5, <2>8 DEF Connections
  <2> HIDE DEF d
  <2>10. d.remoteSeq = to + 1
    BY <2>2, <2>9, <1>2
  <2>11. Bounded(d)
    <3>1. Len(ring) <= RingSize
      BY <2>5, <1>2, <1>4
    <3> QED BY <3>1, <2>9 DEF Bounded, Tried
  <2>12. Incoming(d, h)
    <3>1. d.remoteSeq >= 1 /\ d.remoteSeq - 1 = to
      BY <2>10
    <3>2. b + Len(h.request) + Len(ring) = to
      <4>1. PICK q \in Nat : q = Len(h.request)
        BY <1>2
      <4>2. b + q + l = i
        BY <4>1, <1>1
      <4>3. b + q + (l + n) = to
        BY <4>2, <2>2
      <4> QED BY <4>1, <4>3, <2>5
    <3> QED BY <3>1, <3>2, <2>6, <2>9, <1>1 DEF Incoming
  <2>13. c.remoteSeq <= d.remoteSeq /\ d.remoteSeq - 1 <= j
    BY <2>3, <2>10, <1>2
  <2> QED BY <2>1, <2>7, <2>9, <2>11, <2>12, <2>13
<1> QED BY <1>5, <1>6

-----------------------------------------------------------------------------
(* The invariant over steps that leave most of it alone.                    *)

\* Two connections of which the invariant says the same.
Same(d, c) ==
  /\ d \in Connections
  /\ d.state = c.state /\ d.retry = c.retry /\ d.localSeq = c.localSeq
  /\ d.remoteSeq = c.remoteSeq /\ d.inRing = c.inRing
  /\ d.outRing = c.outRing /\ d.needRecv = c.needRecv
  /\ d.canRecv = c.canRecv /\ d.listener = c.listener

\* A step that changes nothing that the invariant speaks of.
LEMMA Stays ==
  ASSUME NEW c, NEW h, NEW e, Inv(c, h, e), c.state # "NONE",
         NEW d, Same(d, c), Timed(d)
  PROVE  Inv(d, h, e)
<1>1. d \in Connections /\ d.state # "LISTEN" /\ d.state # "NONE" /\ Hears(e)
  BY DEF Inv, Same
<1>2. Bounded(d) /\ Listens(d, h)
  BY DEF Inv, Same, Bounded, Tried, Listens
<1>3. ASSUME d.state = "SYN_RECV" PROVE Fresh(d) /\ Unheard(e)
  BY <1>3 DEF Inv, Same, Fresh
<1>4. ASSUME d.state = "ESTABLISHED" PROVE Serving(d, h) /\ Follows(d, h, e)
  <2>1. Serving(c, h) /\ Follows(c, h, e)
    BY <1>4 DEF Inv, Same
  <2>2. Serving(d, h)
    BY <2>1 DEF Same, Serving, Outgoing, Incoming, Responding, Requesting
  <2>3. Follows(d, h, e)
    BY <2>1 DEF Same, Follows
  <2> QED BY <2>2, <2>3
<1>5. ASSUME d.listener, d.state # "ESTABLISHED" PROVE Ending(d, h) /\ Ended(d, e)
  <2>1. Ending(c, h) /\ Ended(c, e)
    BY <1>5 DEF Inv, Same
  <2> QED BY <2>1 DEF Same, Ending, Ended, Outgoing
<1>6. ASSUME d.listener, d.state = "LAST_ACK" PROVE e.acked <= d.remoteSeq - 1
  BY <1>6 DEF Inv, Same
<1> QED BY <1>1, <1>2, <1>3, <1>4, <1>5, <1>6 DEF Inv

\* Marking that the loop has passed.
LEMMA PassedHolds ==
  ASSUME NEW c, NEW h, NEW e, Inv(c, h, e)
  PROVE  Inv(c, [h EXCEPT !.passed = h.state = "RESPONSE"], e)
<1> DEFINE passed == h.state = "RESPONSE"
           g == [h EXCEPT !.passed = passed]
<1>1. h \in Listener /\ passed \in BOOLEAN
  BY DEF Inv, Listens
<1>2. h = NoListener => passed = FALSE
  BY DEF NoListener
<1> HIDE DEF passed
<1>3. /\ g \in Listener /\ g.state = h.state /\ g.request = h.request
      /\ g.number = h.number /\ g.todo = h.todo /\ g.written = h.written
      /\ g.passed = passed
  BY <1>1 DEF Listener
<1>4. ASSUME h = NoListener PROVE g = NoListener
  <2>1. \A r \in Listener :
          r = [state |-> r.state, request |-> r.request, number |-> r.number,
               todo |-> r.todo, written |-> r.written, passed |-> r.passed]
    BY DEF Listener
  <2> HIDE DEF g
  <2>2. g = [state |-> h.state, request |-> h.request, number |-> h.number,
             todo |-> h.todo, written |-> h.written, passed |-> FALSE]
    BY <2>1, <1>2, <1>3, <1>4
  <2> QED BY <2>2, <1>4 DEF NoListener
<1> HIDE DEF g
<1>5. g.passed => g.state = "RESPONSE"
  BY <1>3 DEF passed
<1>6. Listens(c, g)
  BY <1>3, <1>4, <1>5 DEF Inv, Listens
<1>7. ASSUME c.state = "ESTABLISHED" PROVE Serving(c, g) /\ Follows(c, g, e)
  <2>1. Serving(c, h) /\ Follows(c, h, e)
    BY <1>7 DEF Inv
  <2>2. Before(g) = Before(h)
    BY <1>3 DEF Before
  <2> QED BY <2>1, <2>2, <1>3 DEF Serving, Outgoing, Incoming, Responding, Requesting, Follows
<1>8. ASSUME c.listener, c.state # "ESTABLISHED" PROVE Ending(c, g)
  <2>1. Ending(c, h)
    BY <1>8 DEF Inv
  <2>2. Before(g) = Before(h)
    BY <1>3 DEF Before
  <2> QED BY <2>1, <2>2, <1>3 DEF Ending, Outgoing
<1>9. Inv(c, g, e)
  BY <1>6, <1>7, <1>8 DEF Inv
<1> QED BY <1>9 DEF g, passed

\* A connection that nobody listens to any more.
Alone(c) ==
  /\ c \in Connections /\ Bounded(c) /\ Timed(c) /\ ~c.listener
  /\ c.state \notin {"LISTEN", "NONE", "SYN_RECV", "ESTABLISHED", "CRASHED"}

\* Without a listener the invariant asks for little, and for less of a dead process.
LEMMA AloneHolds ==
  ASSUME NEW c, NEW e, Hears(e),
         \/ Alone(c)
         \/ c \in Connections /\ Bounded(c) /\ ~c.listener /\ c.state = "CRASHED"
  PROVE  Inv(c, NoListener, e)
<1>1. NoListener \in Listener /\ ~NoListener.passed
  <2>1. 0 \in 0..Len(Requests) /\ <<>> \in Seq(Nat)
    BY Ends DEF N
  <2> QED BY <2>1 DEF NoListener, Listener
<1>2. Listens(c, NoListener)
  BY <1>1 DEF Listens, Alone
<1>3. Timed(c)
  BY DEF Alone, Timed
<1> QED BY <1>2, <1>3 DEF Inv, Alone

\* Without data a packet says nothing of the stream.
Quiet(c) ==
  /\ c.out \in Seq(Packets)
  /\ \A k \in 1..Len(c.out) :
       /\ c.out[k].data = <<>>
       /\ c.state \in {"SYN_RECV", "ESTABLISHED", "LAST_ACK"} => c.out[k].ack <= c.remoteSeq
       /\ c.state \in {"SYN_RECV", "ESTABLISHED"} => "FIN" \notin c.out[k].flags

\* What is quiet is true, however much is written.
LEMMA QuietSends ==
  ASSUME NEW c, Quiet(c), NEW w
  PROVE  Sending(c, w)
BY DEF Quiet, Sending, Truthful

\* What sends nothing is quiet.
LEMMA SilentIsQuiet ==
  ASSUME NEW c, c.out = <<>>
  PROVE  Quiet(c)
BY DEF Quiet

\* What Sends and Reaches do with a step that holds the invariant.
LEMMA SendsHolds ==
  ASSUME NEW c, NEW h, NEW w \in Nat,
         Inv(c, h, client), kind \in LastKinds, Sending(c, w),
         c.state # "NONE",
         c.state = "SYN_RECV" => w = 0,
         c.state = "ESTABLISHED" => w = h.written,
         Dies(c), Sends(c), http' = h, kind' = kind
  PROVE  IInv'
<1>1. PICK n \in 0..Len(c.out) : Reaches(c, n)
  BY DEF Sends
<1> QED BY <1>1, Arrives

\* The same for a connection that sends no data.
LEMMA QuietHolds ==
  ASSUME NEW c, NEW h, Inv(c, h, client), kind \in LastKinds, Quiet(c), c.state # "NONE",
         Dies(c), NEW n \in 0..Len(c.out), Reaches(c, n), http' = h, kind' = kind
  PROVE  IInv'
<1>1. h.written \in Nat /\ 0 \in Nat
  BY DEF Inv, Listens, Listener
<1>2. CASE c.state = "SYN_RECV"
  <2>1. Sending(c, 0)
    BY QuietSends
  <2> QED BY <2>1, <1>1, <1>2, Arrives
<1>3. CASE c.state # "SYN_RECV"
  <2>1. Sending(c, h.written)
    BY QuietSends
  <2> QED BY <2>1, <1>1, <1>3, Arrives
<1> QED BY <1>2, <1>3

-----------------------------------------------------------------------------
(* Packets of the browser.                                                  *)

\* Going to another state without a listener.
LEMMA GotoAlone ==
  ASSUME NEW c \in Connections, Bounded(c), ~c.listener,
         NEW s \in {"CLOSED", "LAST_ACK", "FIN_WAIT_2", "CLOSING"},
         s \in {"LAST_ACK", "CLOSING"} => c.retry <= MaxTries
  PROVE  Alone(Goto(c, s)) /\ Goto(c, s).out = c.out /\ Goto(c, s).state = s
<1> DEFINE d == [c EXCEPT !.state = s, !.timer1 = TRUE]
<1>1. Goto(c, s) = d
  BY DEF Goto
<1>2. s \in States
  BY DEF States
<1>3. /\ d \in Connections /\ d.state = s /\ d.timer1 = TRUE /\ d.retry = c.retry
      /\ d.inRing = c.inRing /\ d.outRing = c.outRing /\ d.listener = c.listener
      /\ d.out = c.out
  BY <1>2 DEF Connections
<1> HIDE DEF d
<1> QED BY <1>1, <1>3 DEF Alone, Bounded, Tried, Timed

\* A packet in a state that nobody serves any more leads to another one.
LEMMA AloneDispatched ==
  ASSUME IInv, NEW p, p.win \in Nat, ~conn.listener,
         conn.state \in {"LAST_ACK", "CLOSING", "FIN_WAIT_1", "FIN_WAIT_2", "CLOSED"}
  PROVE  Alone(DispatchPacket(conn, p)) /\ Quiet(DispatchPacket(conn, p))
<1> DEFINE c == [conn EXCEPT !.wnd = p.win]
           d == DispatchPacket(conn, p)
<1>1. /\ conn \in Connections /\ Bounded(conn) /\ Timed(conn) /\ conn.out = <<>>
  BY DEF IInv, Inv
<1>2. /\ c \in Connections /\ c.state = conn.state /\ c.timer1 = conn.timer1
      /\ c.retry = conn.retry /\ c.inRing = conn.inRing /\ c.outRing = conn.outRing
      /\ ~c.listener /\ c.out = <<>> /\ c.localSeq = conn.localSeq
      /\ c.remoteSeq = conn.remoteSeq
  BY <1>1 DEF Connections
<1>3. d = CASE p.seq # c.remoteSeq -> c
            [] p.seq = c.remoteSeq /\ c.state \in {"LAST_ACK", "CLOSING"} -> Acknowledged(c, p)
            [] p.seq = c.remoteSeq /\ c.state = "FIN_WAIT_1" -> FinWait1(c, p)
            [] p.seq = c.remoteSeq /\ c.state = "FIN_WAIT_2" -> FinWait2(c, p)
            [] p.seq = c.remoteSeq /\ c.state \in {"SYN_RECV", "ESTABLISHED", "CLOSED"} ->
                 IF Has(p, "FIN") THEN [Begin(c, "LAST_ACK") EXCEPT !.remoteSeq = @ + 1]
                 ELSE CASE c.state = "SYN_RECV" -> SynReceived(c, p)
                        [] c.state = "ESTABLISHED" -> TakeData(TakeAck(c, p), p)
                        [] OTHER -> c
  BY DEF DispatchPacket
<1> HIDE DEF c, d
<1>4. Bounded(c) /\ Timed(c)
  BY <1>1, <1>2 DEF Bounded, Tried, Timed
<1>5. Alone(c) /\ Quiet(c)
  BY <1>2, <1>4, SilentIsQuiet DEF Alone
<1>6. ASSUME NEW s \in {"CLOSED", "FIN_WAIT_2"}, d = [Goto(c, s) EXCEPT !.localSeq = @ + 1]
      PROVE  Alone(d) /\ Quiet(d)
  <2> DEFINE g == Goto(c, s)
  <2>1. Alone(g) /\ g.out = <<>>
    BY <1>2, <1>4, GotoAlone
  <2> HIDE DEF g
  <2>2. g \in Connections /\ g.localSeq + 1 \in Nat
    BY <2>1 DEF Alone, Connections
  <2>3. d = [g EXCEPT !.localSeq = @ + 1]
    BY <1>6 DEF g
  <2>4. /\ d \in Connections /\ d.state = g.state /\ d.retry = g.retry
        /\ d.inRing = g.inRing /\ d.outRing = g.outRing /\ d.listener = g.listener
        /\ d.timer1 = g.timer1 /\ d.out = g.out
    BY <2>2, <2>3 DEF Connections
  <2> QED BY <2>1, <2>4, SilentIsQuiet DEF Alone, Bounded, Tried, Timed
<1>7. ASSUME NEW b \in Connections, Same(b, c) \/ Alike(b, c), b.out = <<>>,
             NEW s \in {"LAST_ACK", "CLOSING"}
      PROVE  Alone(Begin(b, s)) /\ Begin(b, s).out = <<>>
  <2> DEFINE g == [b EXCEPT !.state = s, !.timer1 = TRUE, !.retry = 0]
  <2>1. Begin(b, s) = g
    BY DEF Begin, Goto
  <2>2. s \in States
    BY DEF States
  <2>3. /\ g \in Connections /\ g.state = s /\ g.timer1 = TRUE /\ g.retry = 0
        /\ g.inRing = c.inRing /\ g.outRing = c.outRing /\ g.listener = c.listener
        /\ g.out = b.out
    BY <1>7, <2>2 DEF Connections, Same, Alike
  <2> HIDE DEF g
  <2>4. 0 <= MaxTries /\ 0 <= MaxTries + 1
    BY ServerTcpAssumption
  <2> QED BY <1>2, <1>4, <1>7, <2>1, <2>3, <2>4 DEF Alone, Bounded, Tried, Timed
<1>8. Same(c, c)
  BY <1>2 DEF Same
<1>9. ASSUME p.seq # c.remoteSeq PROVE Alone(d) /\ Quiet(d)
  BY <1>3, <1>5, <1>9
<1>10. ASSUME p.seq = c.remoteSeq /\ c.state \in {"LAST_ACK", "CLOSING"}
       PROVE  Alone(d) /\ Quiet(d)
  <2>1. d = Acknowledged(c, p)
    BY <1>3, <1>10
  <2>2. d = c \/ d = [Goto(c, "CLOSED") EXCEPT !.localSeq = @ + 1]
    BY <2>1 DEF Acknowledged
  <2> QED BY <2>2, <1>5, <1>6
<1>11. ASSUME p.seq = c.remoteSeq /\ c.state = "FIN_WAIT_1"
       PROVE  Alone(d) /\ Quiet(d)
  <2>1. d = FinWait1(c, p)
    BY <1>3, <1>11
  <2>2. \/ d = c \/ d = Begin(c, "CLOSING")
        \/ d = [Goto(c, "FIN_WAIT_2") EXCEPT !.localSeq = @ + 1]
    BY <2>1 DEF FinWait1
  <2>3. Alone(Begin(c, "CLOSING")) /\ Begin(c, "CLOSING").out = <<>>
    BY <1>2, <1>7, <1>8
  <2> QED BY <2>2, <2>3, <1>5, <1>6, SilentIsQuiet
<1>12. ASSUME p.seq = c.remoteSeq /\ c.state = "FIN_WAIT_2"
       PROVE  Alone(d) /\ Quiet(d)
  <2> DEFINE g == SendPacket(c, {"ACK"}, 0, <<>>)
             f == Goto(g, "CLOSED")
  <2>1. d = c \/ d = f
    BY <1>3, <1>12 DEF FinWait2
  <2>2. Alike(g, c) /\ \A k \in 1..Len(g.out) : g.out[k].data = <<>>
    <3>1. {"ACK"} \in SUBSET Flags
      BY DEF Flags
    <3> QED BY <3>1, <1>2, <1>4, SendPacketIs DEF Bounded
  <2> HIDE DEF g
  <2>3. g \in Connections /\ Bounded(g) /\ ~g.listener
    BY <2>2, <1>2, <1>4 DEF Alike, Bounded, Tried
  <2>4. Alone(f) /\ f.out = g.out /\ f.state = "CLOSED"
    <3>1. Alone(f) /\ f.out = g.out
      BY <2>3, GotoAlone
    <3>2. f.state = "CLOSED"
      BY <2>3 DEF Goto, Connections
    <3> QED BY <3>1, <3>2
  <2> HIDE DEF f
  <2>5. Quiet(f)
    BY <2>2, <2>4 DEF Quiet, Alone, Connections
  <2> QED BY <2>1, <2>4, <2>5, <1>5
<1>13. ASSUME p.seq = c.remoteSeq /\ c.state = "CLOSED"
       PROVE  Alone(d) /\ Quiet(d)
  <2>1. d = c \/ d = [Begin(c, "LAST_ACK") EXCEPT !.remoteSeq = @ + 1]
    BY <1>3, <1>13
  <2> DEFINE g == Begin(c, "LAST_ACK")
             f == [g EXCEPT !.remoteSeq = @ + 1]
  <2>2. Alone(g) /\ g.out = <<>>
    BY <1>2, <1>7, <1>8
  <2> HIDE DEF g
  <2>3. g \in Connections /\ g.remoteSeq + 1 \in Nat
    BY <2>2 DEF Alone, Connections
  <2>4. /\ f \in Connections /\ f.state = g.state /\ f.retry = g.retry
        /\ f.inRing = g.inRing /\ f.outRing = g.outRing /\ f.listener = g.listener
        /\ f.timer1 = g.timer1 /\ f.out = g.out
    BY <2>3 DEF Connections
  <2> HIDE DEF f
  <2>5. Alone(f) /\ Quiet(f)
    BY <2>2, <2>4, SilentIsQuiet DEF Alone, Bounded, Tried, Timed
  <2> QED BY <2>1, <2>5, <1>5 DEF f, g
<1>14. Alone(d) /\ Quiet(d)
  BY <1>2, <1>9, <1>10, <1>11, <1>12, <1>13
<1> QED BY <1>14 DEF d

\* The window is taken from every packet.
LEMMA Windowed ==
  ASSUME NEW c \in Connections, NEW w \in Nat
  PROVE  LET d == [c EXCEPT !.wnd = w] IN
         Same(d, c) /\ d.out = c.out /\ d.timer1 = c.timer1
BY DEF Same, Connections

\* dispatchPacket for the states of a connection that may have a listener.
LEMMA DispatchIs ==
  ASSUME NEW c \in Connections, NEW p, p.win \in Nat
  PROVE  LET b == [c EXCEPT !.wnd = p.win]
             d == DispatchPacket(c, p)
         IN /\ p.seq # c.remoteSeq => d = b
            /\ p.seq = c.remoteSeq =>
                 /\ c.state = "LAST_ACK" => d = Acknowledged(b, p)
                 /\ c.state \in {"SYN_RECV", "ESTABLISHED", "CLOSED"} /\ Has(p, "FIN") =>
                      d = [Begin(b, "LAST_ACK") EXCEPT !.remoteSeq = @ + 1]
                 /\ c.state = "SYN_RECV" /\ ~Has(p, "FIN") => d = SynReceived(b, p)
                 /\ c.state = "ESTABLISHED" /\ ~Has(p, "FIN") => d = TakeData(TakeAck(b, p), p)
                 /\ c.state = "CLOSED" /\ ~Has(p, "FIN") => d = b
<1> DEFINE b == [c EXCEPT !.wnd = p.win]
           d == DispatchPacket(c, p)
<1>1. b.remoteSeq = c.remoteSeq /\ b.state = c.state
  BY DEF Connections
<1>2. d = CASE p.seq # b.remoteSeq -> b
            [] p.seq = b.remoteSeq /\ b.state \in {"LAST_ACK", "CLOSING"} -> Acknowledged(b, p)
            [] p.seq = b.remoteSeq /\ b.state = "FIN_WAIT_1" -> FinWait1(b, p)
            [] p.seq = b.remoteSeq /\ b.state = "FIN_WAIT_2" -> FinWait2(b, p)
            [] p.seq = b.remoteSeq /\ b.state \in {"SYN_RECV", "ESTABLISHED", "CLOSED"} ->
                 IF Has(p, "FIN") THEN [Begin(b, "LAST_ACK") EXCEPT !.remoteSeq = @ + 1]
                 ELSE CASE b.state = "SYN_RECV" -> SynReceived(b, p)
                        [] b.state = "ESTABLISHED" -> TakeData(TakeAck(b, p), p)
                        [] OTHER -> b
  BY DEF DispatchPacket
<1> HIDE DEF b, d
<1>3. p.seq # c.remoteSeq => d = b
  BY <1>1, <1>2
<1>4. p.seq = c.remoteSeq /\ c.state = "LAST_ACK" => d = Acknowledged(b, p)
  BY <1>1, <1>2
<1>5. p.seq = c.remoteSeq /\ c.state \in {"SYN_RECV", "ESTABLISHED", "CLOSED"} /\ Has(p, "FIN") =>
        d = [Begin(b, "LAST_ACK") EXCEPT !.remoteSeq = @ + 1]
  BY <1>1, <1>2
<1>6. p.seq = c.remoteSeq /\ c.state = "SYN_RECV" /\ ~Has(p, "FIN") => d = SynReceived(b, p)
  BY <1>1, <1>2
<1>7. p.seq = c.remoteSeq /\ c.state = "ESTABLISHED" /\ ~Has(p, "FIN") =>
        d = TakeData(TakeAck(b, p), p)
  BY <1>1, <1>2
<1>8. p.seq = c.remoteSeq /\ c.state = "CLOSED" /\ ~Has(p, "FIN") => d = b
  BY <1>1, <1>2
<1> QED BY <1>3, <1>4, <1>5, <1>6, <1>7, <1>8 DEF b, d

\* A FIN that is next in order.
LEMMA FinMoves ==
  ASSUME NEW c \in Connections, NEW b, Same(b, c), b.out = <<>>
  PROVE  LET d == [Begin(b, "LAST_ACK") EXCEPT !.remoteSeq = @ + 1] IN
         /\ d \in Connections /\ d.state = "LAST_ACK" /\ d.timer1 = TRUE /\ d.retry = 0
         /\ d.inRing = c.inRing /\ d.outRing = c.outRing /\ d.listener = c.listener
         /\ d.localSeq = c.localSeq /\ d.remoteSeq = c.remoteSeq + 1 /\ d.out = <<>>
<1> DEFINE g == [b EXCEPT !.state = "LAST_ACK", !.timer1 = TRUE, !.retry = 0]
           d == [g EXCEPT !.remoteSeq = @ + 1]
<1>1. Begin(b, "LAST_ACK") = g
  BY DEF Begin, Goto
<1>2. "LAST_ACK" \in States
  BY DEF States
<1>3. /\ g \in Connections /\ g.state = "LAST_ACK" /\ g.timer1 = TRUE /\ g.retry = 0
      /\ g.inRing = c.inRing /\ g.outRing = c.outRing /\ g.listener = c.listener
      /\ g.localSeq = c.localSeq /\ g.remoteSeq = c.remoteSeq /\ g.out = <<>>
  BY <1>2 DEF Same, Connections
<1> HIDE DEF g
<1>4. g.remoteSeq + 1 \in Nat
  BY <1>3 DEF Connections
<1>5. /\ d \in Connections /\ d.state = "LAST_ACK" /\ d.timer1 = TRUE /\ d.retry = 0
      /\ d.inRing = c.inRing /\ d.outRing = c.outRing /\ d.listener = c.listener
      /\ d.localSeq = c.localSeq /\ d.remoteSeq = c.remoteSeq + 1 /\ d.out = <<>>
  BY <1>3, <1>4 DEF Connections
<1> QED BY <1>1, <1>5

\* The packet that completes the handshake, one that does not, or a FIN.
LEMMA SynDispatched ==
  ASSUME IInv, NEW p \in ClientPackets, conn.state = "SYN_RECV"
  PROVE  LET d == DispatchPacket(conn, p) IN
         /\ d \in Connections /\ d.out = <<>>
         /\ \/ d.state \in {"SYN_RECV", "LAST_ACK"} /\ Inv(d, http, client)
            \/ d.state = "ESTABLISHED" /\ d.localSeq = 1 /\ Same(d, [conn EXCEPT !.state = "ESTABLISHED", !.localSeq = 1])
<1> DEFINE b == [conn EXCEPT !.wnd = p.win]
           d == DispatchPacket(conn, p)
<1>1. /\ conn \in Connections /\ Fresh(conn) /\ Unheard(client) /\ Hears(client)
      /\ conn.out = <<>> /\ Inv(conn, http, client) /\ http = NoListener /\ ~conn.listener
  <2>1. Inv(conn, http, client) /\ conn.out = <<>>
    BY DEF IInv
  <2>2. Listens(conn, http)
    BY <2>1 DEF Inv
  <2>3. ~conn.listener /\ http = NoListener
    BY <2>2 DEF Listens
  <2> QED BY <2>1, <2>3 DEF Inv
<1>2. p.win \in Nat
  BY <1>1, PacketIs
<1>3. Same(b, conn) /\ b.out = conn.out /\ b.timer1 = conn.timer1
  BY <1>1, <1>2, Windowed
<1>4. d = b \/ d = SynReceived(b, p) \/ d = [Begin(b, "LAST_ACK") EXCEPT !.remoteSeq = @ + 1]
  BY <1>1, <1>2, DispatchIs
<1> HIDE DEF b, d
<1>5. \/ d = b
      \/ d = [b EXCEPT !.state = "ESTABLISHED", !.localSeq = @ + 1]
      \/ d = [Begin(b, "LAST_ACK") EXCEPT !.remoteSeq = @ + 1]
  BY <1>4 DEF SynReceived
<1>6. ASSUME d = b
      PROVE  d \in Connections /\ d.state = "SYN_RECV" /\ Inv(d, http, client) /\ d.out = <<>>
  <2>1. Timed(b)
    BY <1>1, <1>3 DEF IInv, Inv, Same, Timed
  <2>2. Inv(b, http, client)
    BY <2>1, <1>1, <1>3, Stays
  <2> QED BY <2>2, <1>1, <1>3, <1>6 DEF Same
<1>7. ASSUME d = [b EXCEPT !.state = "ESTABLISHED", !.localSeq = @ + 1]
      PROVE  /\ d \in Connections /\ d.out = <<>> /\ d.state = "ESTABLISHED" /\ d.localSeq = 1
             /\ Same(d, [conn EXCEPT !.state = "ESTABLISHED", !.localSeq = 1])
  <2>1. b \in Connections /\ b.localSeq = 0 /\ b.out = <<>>
    BY <1>1, <1>3 DEF Same, Fresh
  <2>2. "ESTABLISHED" \in States
    BY DEF States
  <2>3. /\ d \in Connections /\ d.out = <<>> /\ d.state = "ESTABLISHED" /\ d.localSeq = 1
        /\ d.retry = b.retry /\ d.remoteSeq = b.remoteSeq /\ d.inRing = b.inRing
        /\ d.outRing = b.outRing /\ d.needRecv = b.needRecv /\ d.canRecv = b.canRecv
        /\ d.listener = b.listener
    <3>1. d = [b EXCEPT !.state = "ESTABLISHED", !.localSeq = 1]
      BY <2>1, <1>7
    <3> QED BY <3>1, <2>1, <2>2 DEF Connections
  <2> DEFINE f == [conn EXCEPT !.state = "ESTABLISHED", !.localSeq = 1]
  <2>4. /\ f.state = "ESTABLISHED" /\ f.localSeq = 1
        /\ f.retry = conn.retry /\ f.remoteSeq = conn.remoteSeq /\ f.inRing = conn.inRing
        /\ f.outRing = conn.outRing /\ f.needRecv = conn.needRecv /\ f.canRecv = conn.canRecv
        /\ f.listener = conn.listener
    BY <1>1 DEF Connections
  <2> HIDE DEF f
  <2>5. Same(d, f)
    BY <2>3, <2>4, <1>3 DEF Same
  <2> QED BY <2>3, <2>5 DEF f
<1>8. ASSUME d = [Begin(b, "LAST_ACK") EXCEPT !.remoteSeq = @ + 1]
      PROVE  d \in Connections /\ d.state = "LAST_ACK" /\ Inv(d, http, client) /\ d.out = <<>>
  <2>1. /\ d \in Connections /\ d.state = "LAST_ACK" /\ d.timer1 = TRUE /\ d.retry = 0
        /\ d.inRing = conn.inRing /\ d.outRing = conn.outRing /\ d.listener = conn.listener
        /\ d.localSeq = conn.localSeq /\ d.remoteSeq = conn.remoteSeq + 1 /\ d.out = <<>>
    BY <1>1, <1>3, <1>8, FinMoves
  <2>2. 0 <= MaxTries /\ 0 <= MaxTries + 1 /\ Bounded(conn)
    BY <1>1, ServerTcpAssumption DEF Inv
  <2>3. Alone(d)
    BY <2>1, <2>2, <1>1 DEF Alone, Bounded, Tried, Timed
  <2>4. Inv(d, NoListener, client)
    BY <2>3, <1>1, AloneHolds
  <2> QED BY <2>1, <2>4, <1>1
<1> QED BY <1>5, <1>6, <1>7, <1>8 DEF d

\* The listener that the handshake makes waits for the first request.
LEMMA ListenerHolds ==
  ASSUME IInv, conn.state = "SYN_RECV", NEW d \in Connections,
         Same(d, [conn EXCEPT !.state = "ESTABLISHED", !.localSeq = 1]), d.out = <<>>
  PROVE  LET b == WaitToRecv([d EXCEPT !.listener = TRUE]) IN
         /\ Inv(b, [NoListener EXCEPT !.state = "REQUEST_HEADER"], client)
         /\ b.out = <<>> /\ b.state = "ESTABLISHED"
<1> DEFINE a == [d EXCEPT !.listener = TRUE]
           timer1 == a.timer1 \/ a.canRecv
           b == [a EXCEPT !.needRecv = TRUE, !.timer1 = timer1]
           h == [NoListener EXCEPT !.state = "REQUEST_HEADER"]
<1>1. conn \in Connections /\ Fresh(conn) /\ Unheard(client) /\ Hears(client) /\ Bounded(conn)
  BY DEF IInv, Inv
<1>2. /\ d.state = "ESTABLISHED" /\ d.localSeq = 1 /\ d.retry = conn.retry /\ d.remoteSeq = 1
      /\ d.inRing = <<>> /\ d.outRing = <<>> /\ d.canRecv = FALSE
  BY <1>1 DEF Same, Connections, Fresh
<1>3. /\ a \in Connections /\ a.state = "ESTABLISHED" /\ a.localSeq = 1 /\ a.retry = conn.retry
      /\ a.remoteSeq = 1 /\ a.inRing = <<>> /\ a.outRing = <<>> /\ a.canRecv = FALSE
      /\ a.listener = TRUE /\ a.out = <<>>
  BY <1>2 DEF Connections
<1> HIDE DEF a
<1>4. WaitToRecv(a) = b
  BY <1>3 DEF WaitToRecv
<1>5. timer1 \in BOOLEAN
  BY <1>3 DEF Connections
<1> HIDE DEF timer1
<1>6. /\ b \in Connections /\ b.state = "ESTABLISHED" /\ b.localSeq = 1 /\ b.retry = conn.retry
      /\ b.remoteSeq = 1 /\ b.inRing = <<>> /\ b.outRing = <<>> /\ b.canRecv = FALSE
      /\ b.listener = TRUE /\ b.out = <<>>
  BY <1>3, <1>5 DEF Connections
<1> HIDE DEF b
<1>7. /\ h \in Listener /\ h.state = "REQUEST_HEADER" /\ h.request = <<>> /\ h.number = 0
      /\ h.todo = 0 /\ h.written = 0 /\ h.passed = FALSE
  <2>1. 0 \in 0..Len(Requests) /\ <<>> \in Seq(Nat)
    BY Ends DEF N
  <2> QED BY <2>1 DEF NoListener, Listener
<1> HIDE DEF h
<1>8. Bounded(b) /\ Timed(b) /\ Listens(b, h)
  <2>1. Len(<<>>) = 0 /\ 0 <= RingSize
    BY ServerTcpAssumption
  <2> QED BY <2>1, <1>1, <1>6, <1>7 DEF Bounded, Tried, Timed, Listens
<1>9. Labels(0, 0) = <<>>
  BY NoLabels
<1>10. Outgoing(b, h)
  BY <1>6, <1>7, <1>9 DEF Outgoing
<1>11. Incoming(b, h)
  <2>1. Before(h) = 0
    BY <1>7, Ends DEF Before
  <2>2. <<>> \o <<>> = <<>>
    OBVIOUS
  <2> QED BY <2>1, <2>2, <1>6, <1>7, <1>9 DEF Incoming
<1>12. Requesting(b, h)
  <2>1. Lower(0 + 1, N) \in 0..N /\ 0 \in 0..N
    BY Ends DEF Lower
  <2>2. Total(Requests, Lower(0 + 1, N)) \in Nat /\ Total(Responses, 0) = 0
    BY <2>1, Ends
  <2> QED BY <2>2, <1>6, <1>7 DEF Requesting
<1>13. Serving(b, h)
  BY <1>7, <1>10, <1>11, <1>12 DEF Serving
<1>14. Follows(b, h, client)
  <2>1. Len(<<>>) = 0
    OBVIOUS
  <2> QED BY <2>1, <1>1, <1>6, <1>7 DEF Follows, Unheard
<1>15. Inv(b, h, client)
  BY <1>1, <1>6, <1>8, <1>13, <1>14 DEF Inv
<1> QED BY <1>4, <1>6, <1>15 DEF h, a

\* The browser's FIN, which may come in the middle of a request or of a response.
LEMMA FinTaken ==
  ASSUME IInv, NEW p \in ClientPackets, conn.state = "ESTABLISHED",
         Has(p, "FIN"), p.seq = conn.remoteSeq, NEW b, Same(b, conn), b.out = <<>>
  PROVE  LET d == [Begin(b, "LAST_ACK") EXCEPT !.remoteSeq = @ + 1] IN
         Inv(d, http, client) /\ d.out = <<>> /\ d.state = "LAST_ACK"
<1> DEFINE d == [Begin(b, "LAST_ACK") EXCEPT !.remoteSeq = @ + 1]
<1>1. /\ conn \in Connections /\ Serving(conn, http) /\ Follows(conn, http, client)
      /\ Hears(client) /\ Listens(conn, http) /\ Bounded(conn) /\ http \in Listener
  BY DEF IInv, Inv, Listens
<1>2. client.closed /\ conn.remoteSeq = client.end + 1 /\ client.end \in Int
  BY <1>1, PacketIs DEF Hears, Browsers
<1>3. PICK i \in Nat : i = conn.remoteSeq
  BY <1>1 DEF Connections
<1>4. /\ d \in Connections /\ d.state = "LAST_ACK" /\ d.timer1 = TRUE /\ d.retry = 0
      /\ d.inRing = conn.inRing /\ d.outRing = conn.outRing /\ d.listener = conn.listener
      /\ d.localSeq = conn.localSeq /\ d.remoteSeq = conn.remoteSeq + 1 /\ d.out = <<>>
  BY <1>1, FinMoves
<1> HIDE DEF d
<1>5. d.remoteSeq = i + 1 /\ d.remoteSeq - 2 = i - 1 /\ d.remoteSeq - 1 = i
  BY <1>3, <1>4
<1>6. Bounded(d) /\ Timed(d) /\ Listens(d, http)
  <2>1. 0 <= MaxTries /\ 0 <= MaxTries + 1
    BY ServerTcpAssumption
  <2> QED BY <2>1, <1>1, <1>4 DEF Bounded, Tried, Timed, Listens
<1>7. Ending(d, http)
  <2>1. Outgoing(d, http)
    BY <1>1, <1>4 DEF Serving, Outgoing
  <2>2. /\ i >= 1 /\ Before(http) \in Nat
        /\ http.request \o conn.inRing = Labels(Before(http), i - 1)
        /\ Before(http) + Len(http.request) + Len(conn.inRing) = i - 1
    BY <1>1, <1>3 DEF Serving, Incoming
  <2>3. http.state = "RESPONSE" => http.todo > 0
    BY <1>1 DEF Serving, Responding
  <2>4. d.remoteSeq >= 2
    BY <2>2, <1>5
  <2> QED BY <2>1, <2>2, <2>3, <2>4, <1>4, <1>5 DEF Ending
<1>8. Ended(d, client)
  <2>1. client.end + 2 = i + 1
    BY <1>2, <1>3
  <2> QED BY <2>1, <1>2, <1>5 DEF Ended
<1>9. client.acked <= d.remoteSeq - 1
  <2>1. client.acked \in Nat /\ client.acked <= i - 1
    BY <1>1, <1>3 DEF Follows, Hears, Browsers
  <2> QED BY <2>1, <1>5
<1>10. Inv(d, http, client)
  BY <1>1, <1>4, <1>6, <1>7, <1>8, <1>9 DEF Inv
<1> QED BY <1>4, <1>10 DEF d

\* Acknowledgements and data while the connection is established.
LEMMA DataTaken ==
  ASSUME IInv, NEW p \in ClientPackets, conn.state = "ESTABLISHED",
         NEW b, Same(b, conn), b.out = <<>>
  PROVE  LET d == TakeData(TakeAck(b, p), p) IN
         Inv(d, http, client) /\ d.out = <<>> /\ d.state = "ESTABLISHED"
<1> DEFINE a == TakeAck(b, p)
           d == TakeData(a, p)
<1>1. /\ conn \in Connections /\ Serving(conn, http) /\ Follows(conn, http, client)
      /\ Hears(client) /\ Listens(conn, http) /\ Bounded(conn) /\ http \in Listener
  BY DEF IInv, Inv, Listens
<1>2. /\ p.ack \in Int /\ p.ack - 1 <= Heard
      /\ p.data = <<>> \/ \E j \in Nat : /\ conn.remoteSeq <= j /\ j <= Allowed
                                         /\ p.data = Labels(conn.remoteSeq - 1, j)
  BY <1>1, PacketIs
<1>3. PICK heard \in Nat, written \in Nat, todo \in Nat, number \in 0..N :
        /\ heard = Len(client.heard) /\ written = http.written /\ todo = http.todo
        /\ number = http.number
  BY <1>1 DEF Hears, Browsers, Listener, N
<1>4. /\ N \in Nat \ {0} /\ N \in 0..N
      /\ \A n \in 0..N : Total(Requests, n) \in Nat /\ Total(Responses, n) \in Nat
  BY Ends
<1>5. heard <= written /\ Heard = heard
  <2>1. client.fin = FALSE
    BY <1>1 DEF Follows, Hears, Browsers
  <2>2. Heard = heard + 0
    BY <2>1, <1>3 DEF Heard
  <2> QED BY <2>2, <1>1, <1>3 DEF Follows
<1>6. b \in Connections /\ Bounded(b) /\ b.state = "ESTABLISHED" /\ Outgoing(b, http)
  BY <1>1 DEF Same, Bounded, Tried, Serving, Outgoing
<1>7. p.ack - 1 <= http.written
  <2>1. PICK x \in Int : x = p.ack
    BY <1>2
  <2>2. x - 1 <= heard /\ heard <= written
    BY <2>1, <1>2, <1>5
  <2>3. x - 1 <= written
    BY <2>2
  <2> QED BY <2>1, <2>3, <1>3
<1>8. /\ a \in Connections /\ Bounded(a) /\ Outgoing(a, http)
      /\ a.state = "ESTABLISHED" /\ a.remoteSeq = conn.remoteSeq /\ a.inRing = conn.inRing
      /\ a.needRecv = conn.needRecv /\ a.canRecv = conn.canRecv
      /\ a.listener = conn.listener /\ a.out = <<>>
  <2>1. /\ a \in Connections /\ Bounded(a) /\ Outgoing(a, http)
        /\ a.state = "ESTABLISHED" /\ a.remoteSeq = b.remoteSeq /\ a.inRing = b.inRing
        /\ a.needRecv = b.needRecv /\ a.canRecv = b.canRecv
        /\ a.listener = b.listener /\ a.out = b.out
    BY <1>1, <1>2, <1>6, <1>7, TakeAckHolds
  <2> HIDE DEF a
  <2> QED BY <2>1 DEF Same
<1> HIDE DEF a
<1>9. Incoming(a, http)
  BY <1>1, <1>8 DEF Serving, Incoming
<1>10. ASSUME NEW g, g \in Connections, Bounded(g), Serving(g, http), g.state = "ESTABLISHED",
              conn.remoteSeq <= g.remoteSeq, g.listener = conn.listener
       PROVE  Inv(g, http, client)
  <2>1. Timed(g) /\ Listens(g, http)
    BY <1>1, <1>10 DEF Timed, Listens
  <2>2. client.acked <= g.remoteSeq - 1
    <3>1. client.acked \in Nat /\ conn.remoteSeq \in Nat /\ g.remoteSeq \in Nat
      BY <1>1, <1>10 DEF Hears, Browsers, Connections
    <3>2. client.acked <= conn.remoteSeq - 1
      BY <1>1 DEF Follows
    <3> QED BY <3>1, <3>2, <1>10
  <2>3. Follows(g, http, client)
    BY <2>2, <1>1 DEF Follows
  <2> QED BY <2>1, <2>3, <1>1, <1>10 DEF Inv
<1>11. Serving(a, http)
  BY <1>1, <1>8, <1>9 DEF Serving, Responding, Requesting
<1>12. a.remoteSeq \in Nat /\ conn.remoteSeq <= a.remoteSeq
  BY <1>8 DEF Connections
<1>13. ASSUME p.data = <<>>
       PROVE  Inv(d, http, client) /\ d.out = <<>> /\ d.state = "ESTABLISHED"
  <2>1. InFree(a) \in Nat
    BY <1>8, ServerTcpAssumption DEF InFree, Bounded, Connections
  <2>2. Lower(Len(p.data), InFree(a)) = 0
    BY <2>1, <1>13 DEF Lower
  <2>3. d = a
    BY <2>2 DEF TakeData
  <2> HIDE DEF d
  <2> QED BY <2>3, <1>8, <1>10, <1>11, <1>12
<1>14. ASSUME NEW j \in Nat, conn.remoteSeq <= j, j <= Allowed,
              p.data = Labels(conn.remoteSeq - 1, j)
       PROVE  Inv(d, http, client) /\ d.out = <<>> /\ d.state = "ESTABLISHED"
  <2>0. PICK i \in Nat : i = conn.remoteSeq
    BY <1>1 DEF Connections
  <2>1. http.state # "RESPONSE"
    <3>1. SUFFICES ASSUME http.state = "RESPONSE" PROVE FALSE
      OBVIOUS
    <3>2. number > 0 /\ todo > 0 /\ written + todo = Total(Responses, number) /\ conn.inRing = <<>>
      BY <3>1, <1>1, <1>3 DEF Serving, Responding
    <3>3. number \in 1..N /\ heard < Total(Responses, number)
      <4>1. Total(Responses, number) \in Nat /\ number \in 1..N
        BY <3>2, <1>3, <1>4
      <4> QED BY <4>1, <3>2, <1>3, <1>5
    <3>4. Allowed \in Nat /\ Allowed <= Total(Requests, number)
      BY <3>3, <1>1, <1>3, AllowedIs DEF Hears
    <3>5. PICK q \in Nat, t \in Nat : q = Len(http.request) /\ t = Total(Requests, number)
      BY <1>1, <1>4 DEF Listener
    <3>6. Before(http) = t - q
      BY <3>1, <3>5, <1>3 DEF Before
    <3>7. (t - q) + q + 0 = i - 1
      <4>1. Len(<<>>) = 0
        OBVIOUS
      <4> QED BY <4>1, <3>2, <3>5, <3>6, <2>0, <1>1 DEF Serving, Incoming
    <3>8. t = i - 1 /\ i <= j /\ j <= Allowed /\ Allowed <= t
      BY <3>4, <3>5, <3>7, <2>0, <1>14
    <3> QED BY <3>8, <3>4, <3>5, <2>0
  <2>2. a.canRecv => a.inRing # <<>>
    BY <2>1, <1>1, <1>8 DEF Serving, Requesting
  <2>3. a.remoteSeq <= j /\ p.data = Labels(a.remoteSeq - 1, j)
    BY <1>8, <1>14
  <2>4. /\ d \in Connections /\ Bounded(d) /\ Incoming(d, http)
        /\ d.canRecv => d.inRing # <<>>
        /\ a.remoteSeq <= d.remoteSeq /\ d.remoteSeq - 1 <= j
        /\ d.state = "ESTABLISHED" /\ d.localSeq = a.localSeq /\ d.outRing = a.outRing
        /\ d.needRecv = a.needRecv /\ d.listener = a.listener /\ d.out = a.out
    BY <2>2, <2>3, <1>1, <1>8, <1>9, TakeDataHolds
  <2> HIDE DEF d
  <2>5. Outgoing(d, http)
    BY <2>4, <1>8 DEF Outgoing
  <2>6. http.written = Total(Responses, number) /\ http.todo = 0
    BY <2>1, <1>1, <1>3 DEF Serving, Requesting
  <2>7. Allowed \in Nat /\ Allowed <= Total(Requests, Lower(number + 1, N))
    <3>1. heard <= Total(Responses, number)
      BY <2>6, <1>3, <1>5
    <3> QED BY <3>1, <1>1, <1>3, AllowedIs DEF Hears
  <2>8. Lower(number + 1, N) \in 0..N
    <3>1. N \in Nat /\ number \in 0..N
      BY <1>4
    <3> QED BY <3>1 DEF Lower
  <2>9. d.remoteSeq - 1 <= Total(Requests, Lower(number + 1, N))
    <3>1. PICK t \in Nat, k \in Nat : t = Total(Requests, Lower(number + 1, N)) /\ k = d.remoteSeq
      BY <2>4, <2>8, <1>4 DEF Connections
    <3>2. k - 1 <= j /\ j <= Allowed /\ Allowed <= t
      BY <3>1, <2>4, <2>7, <1>14
    <3>3. k - 1 <= t
      BY <3>2, <2>7
    <3> QED BY <3>1, <3>3
  <2>10. Requesting(d, http)
    BY <2>4, <2>6, <2>9, <1>3 DEF Requesting
  <2>11. Serving(d, http)
    BY <2>1, <2>4, <2>5, <2>10 DEF Serving
  <2>12. conn.remoteSeq <= d.remoteSeq /\ d.listener = conn.listener /\ d.out = <<>>
    BY <2>4, <1>8
  <2>13. Inv(d, http, client)
    BY <2>4, <2>11, <2>12, <1>10
  <2> QED BY <2>4, <2>12, <2>13
<1>15. Inv(d, http, client) /\ d.out = <<>> /\ d.state = "ESTABLISHED"
  BY <1>2, <1>13, <1>14
<1> QED BY <1>15 DEF d, a

\* Packets while the listener waits for the connection's end.
LEMMA EndingDispatched ==
  ASSUME IInv, NEW p \in ClientPackets, conn.listener, conn.state \in {"LAST_ACK", "CLOSED"}
  PROVE  LET d == DispatchPacket(conn, p) IN
         Inv(d, http, client) /\ d.out = <<>> /\ d.state \in {"LAST_ACK", "CLOSED"}
<1> DEFINE b == [conn EXCEPT !.wnd = p.win]
           d == DispatchPacket(conn, p)
<1>1. /\ conn \in Connections /\ Ending(conn, http) /\ Ended(conn, client)
      /\ Hears(client) /\ Listens(conn, http) /\ Bounded(conn) /\ Timed(conn)
      /\ conn.out = <<>> /\ Inv(conn, http, client)
  BY DEF IInv, Inv
<1>2. p.win \in Nat /\ (Has(p, "FIN") => p.seq = client.end + 1)
  BY <1>1, PacketIs
<1>3. Same(b, conn) /\ b.out = conn.out /\ b.timer1 = conn.timer1
  BY <1>1, <1>2, Windowed
<1>4. ~(conn.state = "CLOSED" /\ p.seq = conn.remoteSeq /\ Has(p, "FIN"))
  <2>1. client.end \in Int
    BY <1>1 DEF Hears, Browsers
  <2>2. conn.remoteSeq = client.end + 2
    BY <1>1 DEF Ended
  <2> QED BY <2>1, <2>2, <1>2
<1>5. d = b \/ (conn.state = "LAST_ACK" /\ d = Acknowledged(b, p))
  BY <1>1, <1>2, <1>4, DispatchIs
<1> HIDE DEF b, d
<1>6. d = b \/ d = [Goto(b, "CLOSED") EXCEPT !.localSeq = @ + 1]
  BY <1>5 DEF Acknowledged
<1>7. ASSUME d = b
      PROVE  Inv(d, http, client) /\ d.out = <<>> /\ d.state \in {"LAST_ACK", "CLOSED"}
  <2>1. Timed(b)
    BY <1>1, <1>3 DEF Same, Timed
  <2>2. Inv(b, http, client)
    BY <2>1, <1>1, <1>3, Stays
  <2> QED BY <2>2, <1>1, <1>3, <1>7 DEF Same
<1>8. ASSUME d = [Goto(b, "CLOSED") EXCEPT !.localSeq = @ + 1]
      PROVE  Inv(d, http, client) /\ d.out = <<>> /\ d.state \in {"LAST_ACK", "CLOSED"}
  <2> DEFINE g == [b EXCEPT !.state = "CLOSED", !.timer1 = TRUE]
  <2>1. Goto(b, "CLOSED") = g
    BY DEF Goto
  <2>2. "CLOSED" \in States
    BY DEF States
  <2>3. /\ g \in Connections /\ g.state = "CLOSED" /\ g.timer1 = TRUE /\ g.retry = conn.retry
        /\ g.inRing = conn.inRing /\ g.outRing = conn.outRing /\ g.listener = conn.listener
        /\ g.remoteSeq = conn.remoteSeq /\ g.out = <<>>
    BY <2>2, <1>1, <1>3 DEF Same, Connections
  <2> HIDE DEF g
  <2>4. g.localSeq + 1 \in Nat
    BY <2>3 DEF Connections
  <2>5. /\ d \in Connections /\ d.state = "CLOSED" /\ d.timer1 = TRUE /\ d.retry = conn.retry
        /\ d.inRing = conn.inRing /\ d.outRing = conn.outRing /\ d.listener = conn.listener
        /\ d.remoteSeq = conn.remoteSeq /\ d.out = <<>>
    BY <2>1, <2>3, <2>4, <1>8 DEF Connections
  <2> HIDE DEF d
  <2>6. Bounded(d) /\ Timed(d) /\ Listens(d, http)
    BY <2>5, <1>1 DEF Bounded, Tried, Timed, Listens
  <2>7. Ending(d, http) /\ Ended(d, client)
    BY <2>5, <1>1 DEF Ending, Ended
  <2>8. Inv(d, http, client)
    BY <2>5, <2>6, <2>7, <1>1 DEF Inv
  <2> QED BY <2>5, <2>8
<1>9. Inv(d, http, client) /\ d.out = <<>> /\ d.state \in {"LAST_ACK", "CLOSED"}
  BY <1>6, <1>7, <1>8
<1> QED BY <1>9 DEF d

\* What a step that calls no listener leaves behind.
LEMMA PassesHolds ==
  ASSUME NEW d, NEW w \in Nat, Inv(d, http, client), kind \in LastKinds, Sending(d, w),
         d.state # "NONE",
         d.state = "SYN_RECV" => w = 0,
         d.state = "ESTABLISHED" => w = http.written,
         Dies(d), Sends(d), Passed, kind' = kind
  PROVE  IInv'
<1> DEFINE passed == http.state = "RESPONSE"
           h == [http EXCEPT !.passed = passed]
<1>1. Inv(d, h, client) /\ http' = h
  BY PassedHolds DEF Passed
<1>2. h.written = http.written
  <2> HIDE DEF passed
  <2>1. http \in Listener
    BY DEF Inv, Listens
  <2> QED BY <2>1 DEF Listener
<1> HIDE DEF h
<1> QED BY <1>1, <1>2, SendsHolds

\* The same for a connection that sends no data.
LEMMA PassesQuietly ==
  ASSUME NEW d, Inv(d, http, client), kind \in LastKinds, Quiet(d), d.state # "NONE",
         Dies(d), Sends(d), Passed, kind' = kind
  PROVE  IInv'
<1>1. http.written \in Nat /\ 0 \in Nat
  BY DEF Inv, Listens, Listener
<1>2. CASE d.state = "SYN_RECV"
  <2>1. Sending(d, 0)
    BY QuietSends
  <2> QED BY <2>1, <1>1, <1>2, PassesHolds
<1>3. CASE d.state # "SYN_RECV"
  <2>1. Sending(d, http.written)
    BY QuietSends
  <2> QED BY <2>1, <1>1, <1>3, PassesHolds
<1> QED BY <1>2, <1>3

\* A packet of the browser.
LEMMA DispatchHolds ==
  ASSUME IInv, NEW p \in ClientPackets, conn.state \notin {"NONE", "GONE", "CRASHED"},
         ~(conn.state = "SYN_RECV" /\ DispatchPacket(conn, p).state = "ESTABLISHED")
  PROVE  LET d == DispatchPacket(conn, p) IN
         Inv(d, http, client) /\ Quiet(d) /\ d.state \notin {"NONE", "CRASHED"}
<1> DEFINE d == DispatchPacket(conn, p)
           b == [conn EXCEPT !.wnd = p.win]
<1>1. /\ conn \in Connections /\ Hears(client) /\ Listens(conn, http) /\ conn.out = <<>>
      /\ Inv(conn, http, client)
  BY DEF IInv, Inv
<1>2. p.win \in Nat
  BY <1>1, PacketIs
<1>3. conn.state \in {"SYN_RECV", "ESTABLISHED", "LAST_ACK", "FIN_WAIT_1", "FIN_WAIT_2",
                      "CLOSING", "CLOSED"}
  BY <1>1 DEF Connections, States, Inv
<1>4. ASSUME conn.state = "SYN_RECV"
      PROVE  Inv(d, http, client) /\ d.out = <<>> /\ d.state \notin {"NONE", "CRASHED"}
  BY <1>4, SynDispatched
<1>5. ASSUME conn.state = "ESTABLISHED"
      PROVE  Inv(d, http, client) /\ d.out = <<>> /\ d.state \notin {"NONE", "CRASHED"}
  <2>1. Same(b, conn) /\ b.out = <<>> /\ b.timer1 = conn.timer1
    BY <1>1, <1>2, Windowed
  <2>2. \/ p.seq # conn.remoteSeq /\ d = b
        \/ /\ p.seq = conn.remoteSeq /\ Has(p, "FIN")
           /\ d = [Begin(b, "LAST_ACK") EXCEPT !.remoteSeq = @ + 1]
        \/ d = TakeData(TakeAck(b, p), p)
    BY <1>1, <1>2, <1>5, DispatchIs
  <2> HIDE DEF b, d
  <2>3. ASSUME d = b
        PROVE  Inv(d, http, client) /\ d.out = <<>> /\ d.state \notin {"NONE", "CRASHED"}
    <3>1. Timed(b)
      BY <2>1, <1>5 DEF Same, Timed
    <3> QED BY <3>1, <2>1, <2>3, <1>1, <1>5, Stays DEF Same
  <2>4. ASSUME p.seq = conn.remoteSeq, Has(p, "FIN"),
               d = [Begin(b, "LAST_ACK") EXCEPT !.remoteSeq = @ + 1]
        PROVE  Inv(d, http, client) /\ d.out = <<>> /\ d.state \notin {"NONE", "CRASHED"}
    BY <2>1, <2>4, <1>5, FinTaken
  <2>5. ASSUME d = TakeData(TakeAck(b, p), p)
        PROVE  Inv(d, http, client) /\ d.out = <<>> /\ d.state \notin {"NONE", "CRASHED"}
    BY <2>1, <2>5, <1>5, DataTaken
  <2> QED BY <2>2, <2>3, <2>4, <2>5
<1>6. ASSUME conn.listener, conn.state \in {"LAST_ACK", "CLOSED"}
      PROVE  Inv(d, http, client) /\ d.out = <<>> /\ d.state \notin {"NONE", "CRASHED"}
  BY <1>6, EndingDispatched
<1>7. ASSUME ~conn.listener,
             conn.state \in {"LAST_ACK", "CLOSING", "FIN_WAIT_1", "FIN_WAIT_2", "CLOSED"}
      PROVE  Inv(d, http, client) /\ Quiet(d) /\ d.state \notin {"NONE", "CRASHED"}
  <2>1. Alone(d) /\ Quiet(d)
    BY <1>2, <1>7, AloneDispatched
  <2>2. http = NoListener
    BY <1>1, <1>7 DEF Listens
  <2> HIDE DEF d
  <2> QED BY <2>1, <2>2, <1>1, AloneHolds DEF Alone
<1> HIDE DEF d
<1>8. conn.listener => conn.state \in {"ESTABLISHED", "LAST_ACK", "CLOSED"}
  BY <1>1 DEF Listens
<1>9. Inv(d, http, client) /\ Quiet(d) /\ d.state \notin {"NONE", "CRASHED"}
  BY <1>3, <1>4, <1>5, <1>6, <1>7, <1>8, SilentIsQuiet
<1> QED BY <1>9 DEF d

\* A packet of the browser, and a listener for the one that ends the handshake.
LEMMA ServePacketHolds ==
  ASSUME IInv, ServePacket
  PROVE  IInv'
<1>1. PICK p \in ClientPackets : Serve(p)
  BY DEF ServePacket
<1> DEFINE d == DispatchPacket(conn, p)
<1>2. conn.state \notin {"NONE", "GONE", "CRASHED"} /\ kind' = kind /\ kind \in LastKinds
  BY <1>1 DEF Serve, IInv
<1>3. IF conn.state = "SYN_RECV" /\ d.state = "ESTABLISHED"
      THEN /\ Sends(WaitToRecv([d EXCEPT !.listener = TRUE]))
           /\ http' = [NoListener EXCEPT !.state = "REQUEST_HEADER"]
      ELSE Sends(d) /\ Passed
  BY <1>1 DEF Serve
<1>4. ASSUME conn.state = "SYN_RECV", d.state = "ESTABLISHED" PROVE IInv'
  <2> DEFINE b == WaitToRecv([d EXCEPT !.listener = TRUE])
             h == [NoListener EXCEPT !.state = "REQUEST_HEADER"]
  <2>1. Inv(b, h, client) /\ b.out = <<>> /\ b.state = "ESTABLISHED"
    <3>1. /\ d \in Connections /\ d.out = <<>>
          /\ Same(d, [conn EXCEPT !.state = "ESTABLISHED", !.localSeq = 1])
      BY <1>4, SynDispatched
    <3> HIDE DEF d
    <3> QED BY <3>1, <1>4, ListenerHolds
  <2>2. Sends(b) /\ http' = h
    BY <1>3, <1>4
  <2> HIDE DEF b, h, d
  <2>3. h.written \in Nat
    BY <2>1 DEF Inv, Listens, Listener
  <2>4. Sending(b, h.written)
    BY <2>1, SilentIsQuiet, QuietSends
  <2>5. Dies(b)
    BY <2>1 DEF Dies
  <2> QED BY <2>1, <2>2, <2>3, <2>4, <2>5, <1>2, SendsHolds
<1>5. ASSUME ~(conn.state = "SYN_RECV" /\ d.state = "ESTABLISHED") PROVE IInv'
  <2>1. Inv(d, http, client) /\ Quiet(d) /\ d.state \notin {"NONE", "CRASHED"}
    BY <1>2, <1>5, DispatchHolds
  <2>2. Sends(d) /\ Passed
    BY <1>3, <1>5
  <2> HIDE DEF d
  <2>3. Dies(d)
    BY <2>1 DEF Dies
  <2> QED BY <2>1, <2>2, <2>3, <1>2, PassesQuietly
<1> QED BY <1>4, <1>5

-----------------------------------------------------------------------------
(* The timers.                                                              *)

\* A packet of the handshakes is sent again, or the connection is given up.
LEMMA TriesIs ==
  ASSUME NEW c \in Connections, Bounded(c), c.out = <<>>,
         c.state \in {"SYN_RECV", "LAST_ACK", "FIN_WAIT_1", "CLOSING"},
         NEW flags \in SUBSET Flags
  PROVE  LET d == Tries(c, flags) IN
         /\ d \in Connections /\ Bounded(d) /\ d.timer1 = TRUE
         /\ d.state = c.state \/ d.state = "CLOSED"
         /\ d.localSeq = c.localSeq /\ d.remoteSeq = c.remoteSeq /\ d.inRing = c.inRing
         /\ d.outRing = c.outRing /\ d.needRecv = c.needRecv /\ d.canRecv = c.canRecv
         /\ d.listener = c.listener
         /\ \A k \in 1..Len(d.out) : /\ d.out[k].data = <<>> /\ d.out[k].ack = c.remoteSeq
                                     /\ "FIN" \notin flags => "FIN" \notin d.out[k].flags
<1> DEFINE d == Tries(c, flags)
           b == [c EXCEPT !.retry = @ + 1, !.timer1 = TRUE]
           g == SendPacket(b, flags, 0, <<>>)
           f == SendPacket(b, {"RST"}, 0, <<>>)
<1>0. PICK retry \in Nat : retry = c.retry
  BY DEF Connections
<1>1. /\ b \in Connections /\ b.retry = retry + 1 /\ b.timer1 = TRUE /\ b.state = c.state
      /\ b.localSeq = c.localSeq /\ b.remoteSeq = c.remoteSeq /\ b.inRing = c.inRing
      /\ b.outRing = c.outRing /\ b.needRecv = c.needRecv /\ b.canRecv = c.canRecv
      /\ b.listener = c.listener /\ b.out = <<>>
  <2>1. retry + 1 \in Nat
    BY <1>0
  <2>2. b = [c EXCEPT !.retry = retry + 1, !.timer1 = TRUE]
    BY <1>0
  <2> HIDE DEF b
  <2> QED BY <2>1, <2>2 DEF Connections
<1>2. d = IF c.retry < MaxTries THEN g ELSE Goto(f, "CLOSED")
  BY DEF Tries
<1> HIDE DEF b
<1>3. Len(b.inRing) <= RingSize /\ retry <= MaxTries /\ MaxTries \in Nat
  BY <1>0, <1>1, ServerTcpAssumption DEF Bounded, Tried
<1>4. /\ Alike(g, b)
      /\ \A k \in 1..Len(g.out) : /\ g.out[k].data = <<>> /\ g.out[k].ack = b.remoteSeq
                                  /\ "FIN" \notin flags => "FIN" \notin g.out[k].flags
  BY <1>1, <1>3, SendPacketIs
<1>5. /\ Alike(f, b)
      /\ \A k \in 1..Len(f.out) : /\ f.out[k].data = <<>> /\ f.out[k].ack = b.remoteSeq
                                  /\ "FIN" \notin f.out[k].flags
  <2>1. {"RST"} \in SUBSET Flags /\ "FIN" \notin {"RST"}
    BY DEF Flags
  <2> QED BY <2>1, <1>1, <1>3, SendPacketIs
<1> HIDE DEF d, f, g
<1>6. CASE c.retry < MaxTries
  <2>1. d = g
    BY <1>2, <1>6
  <2>2. d.retry = retry + 1 /\ retry + 1 <= MaxTries
    BY <2>1, <1>0, <1>1, <1>3, <1>4, <1>6 DEF Alike
  <2>3. Bounded(d)
    <3>1. d.retry <= MaxTries /\ d.retry <= MaxTries + 1
      BY <2>2, <1>3
    <3> QED BY <2>1, <3>1, <1>1, <1>4 DEF Alike, Bounded, Tried
  <2> QED BY <2>1, <2>3, <1>1, <1>4 DEF d, Alike
<1>7. CASE ~(c.retry < MaxTries)
  <2> DEFINE e == [f EXCEPT !.state = "CLOSED", !.timer1 = TRUE]
  <2>1. d = e
    BY <1>2, <1>7 DEF Goto
  <2>2. "CLOSED" \in States
    BY DEF States
  <2>3. f \in Connections
    BY <1>5 DEF Alike
  <2>4. /\ e \in Connections /\ e.state = "CLOSED" /\ e.timer1 = TRUE /\ e.retry = f.retry
        /\ e.localSeq = f.localSeq /\ e.remoteSeq = f.remoteSeq /\ e.inRing = f.inRing
        /\ e.outRing = f.outRing /\ e.needRecv = f.needRecv /\ e.canRecv = f.canRecv
        /\ e.listener = f.listener /\ e.out = f.out
    BY <2>2, <2>3 DEF Connections
  <2> HIDE DEF e
  <2>5. Bounded(d)
    <3>1. d.retry <= MaxTries + 1
      BY <2>1, <2>4, <1>1, <1>3, <1>5 DEF Alike
    <3> QED BY <2>1, <2>4, <3>1, <1>1, <1>5 DEF Alike, Bounded, Tried
  <2> QED BY <2>1, <2>4, <2>5, <1>1, <1>5 DEF d, Alike
<1> QED BY <1>6, <1>7

\* What a timer may do to a connection that is not established.
LEMMA TimedOut ==
  ASSUME IInv,
         conn.state \in {"SYN_RECV", "LAST_ACK", "FIN_WAIT_1", "FIN_WAIT_2", "CLOSING"},
         NEW d \in Connections, Bounded(d),
         \/ d.timer1 /\ d.state = conn.state
         \/ d.timer1 /\ d.state = "CLOSED"
         \/ d.state = "CLOSING" /\ d.state = conn.state,
         d.localSeq = conn.localSeq, d.remoteSeq = conn.remoteSeq, d.inRing = conn.inRing,
         d.outRing = conn.outRing, d.canRecv = conn.canRecv, d.listener = conn.listener
  PROVE  Inv(d, http, client) /\ d.state \notin {"NONE", "CRASHED"}
<1>1. /\ Hears(client) /\ Listens(conn, http) /\ Inv(conn, http, client)
      /\ conn.listener => conn.state = "LAST_ACK"
  BY DEF IInv, Inv, Listens
<1>2. Timed(d) /\ d.state \notin {"LISTEN", "NONE", "CRASHED", "ESTABLISHED"}
  BY DEF Timed
<1>3. Listens(d, http)
  BY <1>1 DEF Listens
<1>4. ASSUME d.state = "SYN_RECV" PROVE Fresh(d) /\ Unheard(client)
  BY <1>1, <1>4 DEF Inv, Fresh
<1>5. ASSUME d.listener
      PROVE  Ending(d, http) /\ Ended(d, client) /\ client.acked <= d.remoteSeq - 1
  <2>1. conn.state = "LAST_ACK" /\ conn.listener
    BY <1>1, <1>5
  <2>2. Ending(conn, http) /\ Ended(conn, client) /\ client.acked <= conn.remoteSeq - 1
    BY <2>1, <1>1 DEF Inv
  <2> QED BY <2>1, <2>2 DEF Ending, Ended, Outgoing
<1> QED BY <1>1, <1>2, <1>3, <1>4, <1>5 DEF Inv

\* onTimeout in the states in which it calls nobody.
LEMMA OnTimeoutHolds ==
  ASSUME IInv,
         conn.state \in {"SYN_RECV", "LAST_ACK", "FIN_WAIT_1", "FIN_WAIT_2", "CLOSING"}
  PROVE  LET d == OnTimeout(conn) IN
         Inv(d, http, client) /\ Quiet(d) /\ d.state \notin {"NONE", "CRASHED"}
<1> DEFINE d == OnTimeout(conn)
           c == [conn EXCEPT !.timer1 = FALSE]
<1>1. conn \in Connections /\ Bounded(conn) /\ conn.out = <<>>
  BY DEF IInv, Inv
<1>2. /\ c \in Connections /\ c.state = conn.state /\ c.retry = conn.retry /\ c.out = <<>>
      /\ c.localSeq = conn.localSeq /\ c.remoteSeq = conn.remoteSeq /\ c.inRing = conn.inRing
      /\ c.outRing = conn.outRing /\ c.canRecv = conn.canRecv /\ c.listener = conn.listener
  BY <1>1 DEF Connections
<1>3. d = CASE c.state = "SYN_RECV" -> Tries(c, {"SYN", "ACK"})
            [] c.state \in {"LAST_ACK", "FIN_WAIT_1"} -> Tries(c, {"FIN", "ACK"})
            [] c.state = "FIN_WAIT_2" -> Goto(SendPacket(c, {"RST"}, 0, <<>>), "CLOSED")
            [] c.state = "CLOSING" ->
                 IF c.retry < MaxTries THEN [Tries(c, {"ACK"}) EXCEPT !.timer1 = FALSE]
                 ELSE Tries(c, {"ACK"})
            [] OTHER -> c
  BY DEF OnTimeout
<1> HIDE DEF c, d
<1>4. Bounded(c)
  BY <1>1, <1>2 DEF Bounded, Tried
<1>5. {"SYN", "ACK"} \in SUBSET Flags /\ {"FIN", "ACK"} \in SUBSET Flags /\ {"ACK"} \in SUBSET Flags
      /\ {"RST"} \in SUBSET Flags /\ "FIN" \notin {"SYN", "ACK"} /\ "FIN" \notin {"RST"}
  BY DEF Flags
<1>6. ASSUME NEW flags \in SUBSET Flags, c.state = "SYN_RECV" => "FIN" \notin flags,
             d = Tries(c, flags), c.state # "FIN_WAIT_2"
      PROVE  Inv(d, http, client) /\ Quiet(d) /\ d.state \notin {"NONE", "CRASHED"}
  <2>1. /\ d \in Connections /\ Bounded(d) /\ d.timer1 = TRUE
        /\ d.state = c.state \/ d.state = "CLOSED"
        /\ d.localSeq = c.localSeq /\ d.remoteSeq = c.remoteSeq /\ d.inRing = c.inRing
        /\ d.outRing = c.outRing /\ d.needRecv = c.needRecv /\ d.canRecv = c.canRecv
        /\ d.listener = c.listener
        /\ \A k \in 1..Len(d.out) : /\ d.out[k].data = <<>> /\ d.out[k].ack = c.remoteSeq
                                    /\ "FIN" \notin flags => "FIN" \notin d.out[k].flags
    <3>1. c.state \in {"SYN_RECV", "LAST_ACK", "FIN_WAIT_1", "CLOSING"}
      BY <1>2, <1>6
    <3> QED BY <3>1, <1>2, <1>4, <1>6, TriesIs
  <2>2. Inv(d, http, client) /\ d.state \notin {"NONE", "CRASHED"}
    BY <2>1, <1>2, TimedOut
  <2>3. d.out \in Seq(Packets) /\ d.remoteSeq \in Nat
    BY <2>1 DEF Connections
  <2>4. ASSUME NEW k \in 1..Len(d.out)
        PROVE  /\ d.out[k].data = <<>> /\ d.out[k].ack <= d.remoteSeq
               /\ d.state \in {"SYN_RECV", "ESTABLISHED"} => "FIN" \notin d.out[k].flags
    BY <2>1, <2>3, <1>2, <1>6
  <2>5. Quiet(d)
    BY <2>3, <2>4 DEF Quiet
  <2> QED BY <2>2, <2>5
<1>7. CASE c.state = "SYN_RECV"
  <2>1. d = Tries(c, {"SYN", "ACK"})
    BY <1>3, <1>7
  <2> QED BY <2>1, <1>5, <1>6, <1>7 DEF d
<1>8. CASE c.state \in {"LAST_ACK", "FIN_WAIT_1"}
  <2>1. d = Tries(c, {"FIN", "ACK"})
    BY <1>3, <1>8
  <2> QED BY <2>1, <1>5, <1>6, <1>8 DEF d
<1>9. CASE c.state = "FIN_WAIT_2"
  <2> DEFINE f == SendPacket(c, {"RST"}, 0, <<>>)
             e == [f EXCEPT !.state = "CLOSED", !.timer1 = TRUE]
  <2>1. d = e
    BY <1>3, <1>9 DEF Goto
  <2>2. Alike(f, c) /\ \A k \in 1..Len(f.out) : f.out[k].data = <<>>
    BY <1>2, <1>4, <1>5, SendPacketIs DEF Bounded
  <2> HIDE DEF f
  <2>3. "CLOSED" \in States /\ f \in Connections
    BY <2>2 DEF States, Alike
  <2>4. /\ e \in Connections /\ e.state = "CLOSED" /\ e.timer1 = TRUE /\ e.retry = f.retry
        /\ e.localSeq = f.localSeq /\ e.remoteSeq = f.remoteSeq /\ e.inRing = f.inRing
        /\ e.outRing = f.outRing /\ e.canRecv = f.canRecv
        /\ e.listener = f.listener /\ e.out = f.out
    BY <2>3 DEF Connections
  <2> HIDE DEF e
  <2>5. Bounded(e)
    BY <2>2, <2>4, <1>4 DEF Alike, Bounded, Tried
  <2>6. Inv(e, http, client) /\ e.state \notin {"NONE", "CRASHED"}
    BY <2>2, <2>4, <2>5, <1>2, TimedOut DEF Alike
  <2>7. Quiet(e)
    BY <2>2, <2>4 DEF Quiet, Connections
  <2> QED BY <2>1, <2>6, <2>7 DEF d
<1>10. CASE c.state = "CLOSING"
  <2>1. CASE c.retry < MaxTries
    <3> DEFINE f == Tries(c, {"ACK"})
               e == [f EXCEPT !.timer1 = FALSE]
    <3>1. d = e
      BY <2>1, <1>3, <1>10
    <3>2. /\ f \in Connections /\ Bounded(f)
          /\ f.state = c.state \/ f.state = "CLOSED"
          /\ f.localSeq = c.localSeq /\ f.remoteSeq = c.remoteSeq /\ f.inRing = c.inRing
          /\ f.outRing = c.outRing /\ f.canRecv = c.canRecv
          /\ f.listener = c.listener
          /\ \A k \in 1..Len(f.out) : f.out[k].data = <<>>
      <4>1. {"ACK"} \in SUBSET Flags
        BY <1>5
      <4> QED BY <4>1, <1>2, <1>4, <1>10, TriesIs
    <3>3. f.state = "CLOSING"
      <4>1. f = SendPacket([c EXCEPT !.retry = @ + 1, !.timer1 = TRUE], {"ACK"}, 0, <<>>)
        BY <2>1 DEF Tries
      <4>2. f.state = c.state
        BY <4>1, <1>2 DEF SendPacket, Connections
      <4> QED BY <4>2, <1>10
    <3> HIDE DEF f
    <3>4. /\ e \in Connections /\ e.state = "CLOSING" /\ e.retry = f.retry
          /\ e.localSeq = f.localSeq /\ e.remoteSeq = f.remoteSeq /\ e.inRing = f.inRing
          /\ e.outRing = f.outRing /\ e.canRecv = f.canRecv
          /\ e.listener = f.listener /\ e.out = f.out
      BY <3>2, <3>3 DEF Connections
    <3> HIDE DEF e
    <3>5. Bounded(e)
      BY <3>2, <3>3, <3>4 DEF Bounded, Tried
    <3>6. Inv(e, http, client) /\ e.state \notin {"NONE", "CRASHED"}
      BY <3>2, <3>4, <3>5, <1>2, <1>10, TimedOut
    <3>7. Quiet(e)
      BY <3>2, <3>4 DEF Quiet, Connections
    <3> QED BY <3>1, <3>6, <3>7 DEF d
  <2>2. CASE ~(c.retry < MaxTries)
    <3>1. d = Tries(c, {"ACK"})
      BY <2>2, <1>3, <1>10
    <3> QED BY <3>1, <1>5, <1>6, <1>10 DEF d
  <2> QED BY <2>1, <2>2
<1> QED BY <1>2, <1>7, <1>8, <1>9, <1>10

\* The first timer in those states.
LEMMA ServeTimer1Holds ==
  ASSUME IInv, ServeTimer1
  PROVE  IInv'
<1> DEFINE d == OnTimeout(conn)
<1>1. /\ conn.state \notin {"ESTABLISHED", "CLOSED", "NONE", "GONE", "CRASHED"}
      /\ Sends(d) /\ Passed /\ kind' = kind /\ kind \in LastKinds
  BY DEF ServeTimer1, IInv
<1>2. conn.state \in {"SYN_RECV", "LAST_ACK", "FIN_WAIT_1", "FIN_WAIT_2", "CLOSING"}
  BY <1>1 DEF IInv, Inv, Connections, States
<1>3. Inv(d, http, client) /\ Quiet(d) /\ d.state \notin {"NONE", "CRASHED"}
  BY <1>2, OnTimeoutHolds
<1> HIDE DEF d
<1>4. Dies(d)
  BY <1>3 DEF Dies
<1> QED BY <1>1, <1>3, <1>4, PassesQuietly

\* The second timer sends the ring again.
LEMMA ServeTimer2Holds ==
  ASSUME IInv, ServeTimer2
  PROVE  IInv'
<1> DEFINE c == [conn EXCEPT !.timer2 = FALSE]
           g == SendRing(c, 0, Len(c.outRing))
           d == OnTimeout2(conn)
<1>1. /\ conn \in Connections /\ Bounded(conn) /\ conn.out = <<>> /\ http \in Listener
      /\ Inv(conn, http, client) /\ Timed(conn) /\ kind \in LastKinds
  BY DEF IInv, Inv, Listens
<1>2. Sends(d) /\ Passed /\ kind' = kind
  BY DEF ServeTimer2
<1>3. conn.state # "NONE"
  BY <1>1 DEF ServeTimer2, Inv
<1>4. Same(c, conn) /\ c.timer1 = conn.timer1 /\ c.out = <<>>
  BY <1>1 DEF Same, Connections
<1>5. d = IF c.state = "ESTABLISHED" THEN [g EXCEPT !.timer2 = TRUE] ELSE c
  BY DEF OnTimeout2
<1> HIDE DEF c
<1>6. CASE conn.state # "ESTABLISHED"
  <2>1. d = c
    BY <1>4, <1>5, <1>6 DEF Same
  <2> HIDE DEF d
  <2>2. Timed(c)
    BY <1>1, <1>4 DEF Same, Timed
  <2>3. Inv(c, http, client) /\ c.state # "NONE"
    BY <2>2, <1>1, <1>3, <1>4, Stays DEF Same
  <2>4. Quiet(c)
    BY <1>4, SilentIsQuiet
  <2>5. Dies(c)
    BY <1>4 DEF IInv, Dies, Same
  <2> QED BY <2>1, <2>3, <2>4, <2>5, <1>1, <1>2, PassesQuietly
<1>7. CASE conn.state = "ESTABLISHED"
  <2> DEFINE w == http.written
  <2>1. Outgoing(conn, http)
    BY <1>1, <1>7 DEF Inv, Serving
  <2>2. /\ c \in Connections /\ Bounded(c) /\ c.localSeq >= 1 /\ w \in Nat
        /\ c.outRing = Labels(c.localSeq - 1, w) /\ c.localSeq - 1 + Len(c.outRing) = w
        /\ Len(c.outRing) \in Nat
    <3>1. c \in Connections /\ Bounded(c)
      BY <1>1, <1>4 DEF Same, Bounded, Tried
    <3>2. w \in Nat
      BY <1>1 DEF Listener
    <3>3. Len(c.outRing) \in Nat
      BY <3>1 DEF Connections
    <3> QED BY <3>1, <3>2, <3>3, <2>1, <1>4 DEF Same, Outgoing
  <2> HIDE DEF w
  <2>3. 0 \in Nat /\ 0 + Len(c.outRing) = Len(c.outRing)
    BY <2>2
  <2>4. /\ Alike(g, c)
        /\ \A k \in 1..Len(g.out) : /\ Truthful(g.out[k], w) /\ g.out[k].ack = c.remoteSeq
                                    /\ "FIN" \notin g.out[k].flags
    BY <2>2, <2>3, <1>4, SendRingHolds
  <2> HIDE DEF g
  <2>5. d = [g EXCEPT !.timer2 = TRUE]
    BY <1>4, <1>5, <1>7 DEF Same
  <2> HIDE DEF d
  <2>6. Same(d, conn) /\ d.out = g.out
    BY <2>4, <2>5, <1>4 DEF Alike, Same, Connections
  <2>7. Timed(d)
    BY <2>6, <1>7 DEF Same, Timed
  <2>8. Inv(d, http, client)
    BY <2>6, <2>7, <1>1, <1>3, Stays
  <2>9. Sending(d, w)
    <3>1. d.out \in Seq(Packets) /\ d.remoteSeq \in Nat /\ c.remoteSeq = d.remoteSeq
      BY <2>6, <1>4 DEF Same, Connections
    <3>2. \A k \in 1..Len(d.out) : d.out[k].ack <= d.remoteSeq
      BY <3>1, <2>4, <2>6
    <3> QED BY <3>1, <3>2, <2>4, <2>6 DEF Sending
  <2>10. d.state = "ESTABLISHED" /\ Dies(d)
    BY <2>6, <1>7 DEF Same, Dies
  <2> QED BY <2>2, <2>8, <2>9, <2>10, <1>1, <1>2, PassesHolds DEF w
<1> QED BY <1>6, <1>7

-----------------------------------------------------------------------------
(* The listener.                                                            *)

\* send puts the response's next bytes behind those in the ring.
LEMMA SendHolds ==
  ASSUME NEW c \in Connections, Bounded(c), c.out = <<>>, c.state = "ESTABLISHED",
         NEW h \in Listener, Outgoing(c, h), c.listener,
         NEW n \in Nat, n <= OutFree(c), NEW v \in Nat, v = h.written + n
  PROVE  LET d == Send(c, Labels(h.written, v)) IN
         /\ d \in Connections /\ Bounded(d) /\ Sending(d, v)
         /\ d.localSeq >= 1
         /\ d.outRing = Labels(d.localSeq - 1, v) /\ d.localSeq - 1 + Len(d.outRing) = v
         /\ d.state = "ESTABLISHED" /\ d.remoteSeq = c.remoteSeq /\ d.inRing = c.inRing
         /\ d.needRecv = c.needRecv /\ d.canRecv = c.canRecv /\ d.listener
<1>1. PICK i \in Nat, w \in Nat, l \in Nat :
        /\ i = c.localSeq - 1 /\ w = h.written /\ l = Len(c.outRing) /\ i + l = w
        /\ c.outRing = Labels(i, w) /\ c.localSeq = i + 1
  <2>1. c.localSeq \in Nat /\ c.localSeq >= 1 /\ h.written \in Nat /\ c.outRing \in Seq(Nat)
    BY DEF Connections, Listener, Outgoing
  <2>2. c.localSeq - 1 \in Nat /\ Len(c.outRing) \in Nat /\ c.localSeq = c.localSeq - 1 + 1
    BY <2>1
  <2> QED BY <2>1, <2>2 DEF Outgoing
<1>2. /\ i <= w /\ w <= v /\ v = w + n /\ RingSize \in Nat /\ l <= RingSize /\ n <= RingSize - l
      /\ c.outRing \in Seq(Nat)
  <2>1. RingSize \in Nat /\ l <= RingSize /\ c.outRing \in Seq(Nat)
    BY <1>1, ServerTcpAssumption DEF Bounded, Connections
  <2>2. n <= RingSize - l
    BY <1>1 DEF OutFree
  <2>3. v = w + n
    BY <1>1
  <2>4. i <= w /\ w <= v
    <3>1. i + l = w
      BY <1>1
    <3> QED BY <3>1, <2>3
  <2> QED BY <2>1, <2>2, <2>3, <2>4
<1> DEFINE data == Labels(h.written, v)
           ring == c.outRing \o data
           canSend == c.canSend /\ Len(data) < OutFree(c)
           b == [c EXCEPT !.outRing = ring, !.canSend = canSend]
           g == SendRing(b, Len(c.outRing), Len(data))
           d == Send(c, data)
<1>3. data \in Seq(Nat) /\ Len(data) = n
  <2>1. data = Labels(w, v)
    BY <1>1
  <2>2. Labels(w, v) \in Seq(Nat) /\ Len(Labels(w, v)) = v - w
    BY <1>2, LabelsAre
  <2> HIDE DEF data
  <2> QED BY <2>1, <2>2, <1>2
<1>4. ring = Labels(i, v) /\ ring \in Seq(Nat) /\ Len(ring) = l + n
  <2>1. Labels(i, w) \o Labels(w, v) = Labels(i, v)
    BY <1>2, LabelsJoin
  <2>2. ring = Labels(i, v)
    BY <2>1, <1>1
  <2> HIDE DEF data
  <2>3. ring \in Seq(Nat) /\ Len(ring) = Len(c.outRing) + Len(data)
    BY <1>2, <1>3, ConcatProperties
  <2> HIDE DEF ring
  <2> QED BY <2>2, <2>3, <1>1, <1>3
<1>5. d = IF data = <<>> THEN b ELSE [g EXCEPT !.timer2 = TRUE]
  BY DEF Send
<1>6. canSend \in BOOLEAN
  BY DEF Connections
<1> HIDE DEF data, ring, canSend
<1>7. /\ b \in Connections /\ b.outRing = ring /\ b.localSeq = c.localSeq /\ b.retry = c.retry
      /\ b.state = "ESTABLISHED" /\ b.remoteSeq = c.remoteSeq /\ b.inRing = c.inRing
      /\ b.needRecv = c.needRecv /\ b.canRecv = c.canRecv /\ b.listener /\ b.out = <<>>
  BY <1>4, <1>6 DEF Connections
<1> HIDE DEF b
<1>8. Bounded(b)
  <2>1. Len(ring) <= RingSize
    BY <1>2, <1>4
  <2> QED BY <2>1, <1>7 DEF Bounded, Tried
<1>9. b.localSeq >= 1 /\ b.outRing = Labels(b.localSeq - 1, v) /\ b.localSeq - 1 + Len(b.outRing) = v
  <2>1. b.localSeq = i + 1
    BY <1>1, <1>7
  <2>2. b.localSeq - 1 = i /\ b.localSeq >= 1
    BY <2>1
  <2>3. i + (l + n) = v
    BY <1>1, <1>2
  <2> QED BY <2>2, <2>3, <1>4, <1>7
<1>10. /\ Alike(g, b)
       /\ \A k \in 1..Len(g.out) : /\ Truthful(g.out[k], v) /\ g.out[k].ack = b.remoteSeq
                                   /\ "FIN" \notin g.out[k].flags
  <2>1. Len(c.outRing) \in Nat /\ Len(data) \in Nat /\ Len(c.outRing) + Len(data) = Len(b.outRing)
    BY <1>1, <1>3, <1>4, <1>7
  <2> QED BY <2>1, <1>7, <1>8, <1>9, SendRingHolds
<1> HIDE DEF g, d
<1>11. ASSUME data = <<>>
       PROVE  d = b /\ Sending(b, v)
  <2>1. d = b
    BY <1>5, <1>11
  <2>2. Quiet(b)
    BY <1>7, SilentIsQuiet
  <2> QED BY <2>1, <2>2, QuietSends
<1>12. ASSUME data # <<>>
       PROVE  d \in Connections /\ Bounded(d) /\ Same(d, b) /\ Sending(d, v)
  <2>1. d = [g EXCEPT !.timer2 = TRUE]
    BY <1>5, <1>12
  <2>2. Same(d, b) /\ d.out = g.out /\ d \in Connections
    BY <2>1, <1>10 DEF Alike, Same, Connections
  <2>3. Bounded(d)
    BY <2>2, <1>8 DEF Same, Bounded, Tried
  <2>4. Sending(d, v)
    <3>1. d.out \in Seq(Packets) /\ d.remoteSeq \in Nat /\ b.remoteSeq = d.remoteSeq
      BY <2>2 DEF Same, Connections
    <3>2. \A k \in 1..Len(d.out) : d.out[k].ack <= d.remoteSeq
      BY <3>1, <2>2, <1>10
    <3> QED BY <3>1, <3>2, <2>2, <1>10 DEF Sending
  <2> QED BY <2>2, <2>3, <2>4
<1>13. d \in Connections /\ Bounded(d) /\ Same(d, b) /\ Sending(d, v)
  <2>1. Same(b, b)
    BY <1>7 DEF Same
  <2> QED BY <2>1, <1>7, <1>8, <1>11, <1>12
<1>14. /\ d.localSeq >= 1
       /\ d.outRing = Labels(d.localSeq - 1, v) /\ d.localSeq - 1 + Len(d.outRing) = v
       /\ d.state = "ESTABLISHED" /\ d.remoteSeq = c.remoteSeq /\ d.inRing = c.inRing
       /\ d.needRecv = c.needRecv /\ d.canRecv = c.canRecv /\ d.listener
  BY <1>7, <1>9, <1>13 DEF Same
<1> QED BY <1>13, <1>14 DEF d, data

\* The listener goes on: the callback is back in onTimeout.
LEMMA ReturnsHolds ==
  ASSUME NEW c, NEW h, Inv(c, h, client), kind \in LastKinds, c.state = "ESTABLISHED",
         Sending(c, h.written), Returns(c), http' = h, kind' = kind
  PROVE  IInv'
<1> DEFINE needSend == c.needSend /\ ~c.canSend
           d == [c EXCEPT !.needSend = needSend]
<1>1. c \in Connections /\ c.listener /\ h.written \in Nat
  BY DEF Inv, Listens, Listener
<1>2. Sends(d)
  BY <1>1 DEF Returns
<1>3. needSend \in BOOLEAN
  BY <1>1 DEF Connections
<1> HIDE DEF needSend
<1>4. Same(d, c) /\ d.out = c.out
  BY <1>1, <1>3 DEF Same, Connections
<1> HIDE DEF d
<1>5. Timed(d) /\ d.state = "ESTABLISHED" /\ Dies(d)
  BY <1>4 DEF Same, Timed, Dies
<1>6. Inv(d, h, client)
  BY <1>4, <1>5, Stays
<1>7. Sending(d, h.written)
  BY <1>4 DEF Same, Sending
<1> QED BY <1>1, <1>2, <1>5, <1>6, <1>7, SendsHolds

\* The listener has closed the connection: the process goes on without it, or dies.
LEMMA ClosedReturns ==
  ASSUME NEW c, Alone(c), c.state = "FIN_WAIT_1", NEW w \in Nat, Sending(c, w),
         Hears(client), kind = "close", kind \in LastKinds, Returns(c), http' = NoListener, kind' = kind
  PROVE  IInv'
<1>1. c \in Connections /\ ~c.listener /\ c.out \in Seq(Packets)
  BY DEF Alone, Connections
<1>2. CASE c.needSend /\ c.canSend
  <2> DEFINE d == [NewConnection EXCEPT !.state = "CRASHED", !.out = c.out]
  <2>1. Reaches(d, Len(c.out))
    BY <1>1, <1>2 DEF Returns
  <2>2. /\ d \in Connections /\ d.state = "CRASHED" /\ d.retry = 0 /\ d.inRing = <<>>
        /\ d.outRing = <<>> /\ d.listener = FALSE /\ d.out = c.out
    <3>1. <<>> \in Seq(Nat) /\ "CRASHED" \in States
      BY DEF States
    <3> QED BY <3>1, <1>1 DEF NewConnection, Connections
  <2> HIDE DEF d
  <2>3. Bounded(d) /\ Dies(d)
    <3>1. Len(<<>>) = 0 /\ 0 <= RingSize /\ 0 <= MaxTries + 1
      BY ServerTcpAssumption
    <3> QED BY <3>1, <2>2 DEF Bounded, Tried, Dies
  <2>4. Inv(d, NoListener, client)
    BY <2>2, <2>3, AloneHolds
  <2>5. Sending(d, w)
    BY <2>2 DEF Sending
  <2>6. Len(c.out) \in 0..Len(d.out)
    BY <1>1, <2>2
  <2> QED BY <2>1, <2>2, <2>3, <2>4, <2>5, <2>6, Arrives
<1>3. CASE ~(c.needSend /\ c.canSend)
  <2> DEFINE needSend == c.needSend /\ ~c.canSend
             d == [c EXCEPT !.needSend = needSend]
  <2>1. Sends(d)
    BY <1>1, <1>3 DEF Returns
  <2>2. needSend \in BOOLEAN
    BY <1>1 DEF Connections
  <2> HIDE DEF needSend
  <2>3. Same(d, c) /\ d.out = c.out /\ d.timer1 = c.timer1
    BY <1>1, <2>2 DEF Same, Connections
  <2> HIDE DEF d
  <2>4. Alone(d) /\ d.state = "FIN_WAIT_1" /\ Dies(d)
    BY <2>3 DEF Same, Alone, Bounded, Tried, Timed, Dies
  <2>5. Inv(d, NoListener, client)
    BY <2>4, AloneHolds
  <2>6. Sending(d, w)
    BY <2>3, <2>4 DEF Sending
  <2> QED BY <2>1, <2>4, <2>5, <2>6, SendsHolds
<1> QED BY <1>2, <1>3

\* _send after the browser's FIN: nothing is taken any more, and it turns on.
LEMMA WriteOnEnding ==
  ASSUME NEW c, NEW h, Inv(c, h, client), kind \in LastKinds, c.out = <<>>,
         h.state = "RESPONSE", c.state # "ESTABLISHED", WriteOn(c, h), kind' = kind
  PROVE  IInv'
<1> DEFINE h1 == [h EXCEPT !.todo = @ - 0, !.written = @ + 0, !.passed = FALSE]
<1>1. /\ c \in Connections /\ Hears(client) /\ Listens(c, h) /\ h \in Listener
  BY DEF Inv, Listens
<1>2. c.listener /\ c.state \in {"LAST_ACK", "CLOSED"}
  <2>1. c.listener
    BY <1>1 DEF Listens, NoListener
  <2> QED BY <2>1, <1>1 DEF Listens
<1>3. Ending(c, h) /\ h.todo > 0
  BY <1>2 DEF Inv, Ending
<1>4. Send(c, Labels(h.written, h.written + 0)) = c /\ WaitToSend(c) = c
  BY DEF Send, WaitToSend
<1>5. Sends(c) /\ http' = h1
  BY <1>3, <1>4 DEF WriteOn
<1>6. /\ h1 \in Listener /\ h1.state = h.state /\ h1.request = h.request
      /\ h1.number = h.number /\ h1.todo = h.todo /\ h1.written = h.written
      /\ h1.passed = FALSE
  <2>1. h.todo \in Nat /\ h.written \in Nat
    BY <1>1 DEF Listener
  <2>3. h.todo - 0 = h.todo /\ h.written + 0 = h.written
    BY <2>1
  <2>2. h1 = [h EXCEPT !.todo = h.todo, !.written = h.written, !.passed = FALSE]
    BY <2>3, Zenon
  <2> HIDE DEF h1
  <2> QED BY <2>1, <2>2, <1>1 DEF Listener
<1> HIDE DEF h1
<1>7. Ending(c, h1)
  <2>1. Before(h1) = Before(h)
    BY <1>6 DEF Before
  <2> QED BY <2>1, <1>3, <1>6 DEF Ending, Outgoing
<1>8. Listens(c, h1)
  BY <1>1, <1>2, <1>6 DEF Listens
<1>9. Inv(c, h1, client) /\ Dies(c)
  BY <1>2, <1>7, <1>8 DEF Inv, Dies
<1>10. Sending(c, h1.written) /\ h1.written \in Nat
  BY <1>6, SilentIsQuiet, QuietSends DEF Listener
<1> QED BY <1>2, <1>5, <1>9, <1>10, SendsHolds

\* _send: part of the response is written, or the rest of it.
LEMMA WriteOnHolds ==
  ASSUME NEW c, NEW h, Inv(c, h, client), kind \in LastKinds, c.out = <<>>,
         h.state = "RESPONSE", WriteOn(c, h), kind' = kind
  PROVE  IInv'
<1>0. SUFFICES ASSUME c.state = "ESTABLISHED" PROVE IInv'
  BY WriteOnEnding
<1> DEFINE n == IF c.state = "ESTABLISHED" THEN Lower(h.todo, OutFree(c)) ELSE 0
           v == h.written + n
           h1 == [h EXCEPT !.todo = @ - n, !.written = @ + n, !.passed = FALSE]
           a == Send(c, Labels(h.written, v))
<1>1. /\ c \in Connections /\ Bounded(c) /\ Hears(client) /\ Listens(c, h) /\ h \in Listener
  BY DEF Inv, Listens
<1>2. c.listener /\ c.state = "ESTABLISHED"
  BY <1>0, <1>1 DEF Listens
<1>3. Outgoing(c, h) /\ Incoming(c, h) /\ Responding(c, h) /\ Follows(c, h, client)
  BY <1>2 DEF Inv, Serving
<1>4. PICK todo \in Nat, w \in Nat, number \in 0..N :
        /\ todo = h.todo /\ w = h.written /\ number = h.number
        /\ number > 0 /\ todo > 0 /\ w + todo = Total(Responses, number)
  BY <1>1, <1>3 DEF Listener, Responding, N
<1>5. n \in Nat /\ n <= OutFree(c) /\ n <= todo /\ v \in Nat /\ v = w + n /\ h.written <= v
  <2>1. OutFree(c) \in Nat
    BY <1>1, ServerTcpAssumption DEF OutFree, Bounded, Connections
  <2>2. n \in Nat /\ n <= OutFree(c) /\ n <= todo
    BY <2>1, <1>2, <1>4 DEF Lower
  <2> HIDE DEF n
  <2> QED BY <2>2, <1>4
<1>6. \/ n < h.todo /\ Sends(WaitToSend(a)) /\ http' = h1
      \/ Closing(h.number) /\ ~(n < h.todo) /\ Returns(Close(a)) /\ http' = NoListener
      \/ /\ ~(n < h.todo) /\ Returns(WaitToRecv(a))
         /\ http' = [h1 EXCEPT !.state = "REQUEST_HEADER", !.request = <<>>]
  BY DEF WriteOn
<1> HIDE DEF n, v
<1>7. /\ a \in Connections /\ Bounded(a) /\ Sending(a, v)
      /\ a.localSeq >= 1
      /\ a.outRing = Labels(a.localSeq - 1, v) /\ a.localSeq - 1 + Len(a.outRing) = v
      /\ a.state = "ESTABLISHED" /\ a.remoteSeq = c.remoteSeq /\ a.inRing = c.inRing
      /\ a.needRecv = c.needRecv /\ a.canRecv = c.canRecv /\ a.listener
  <2>1. v = h.written + n
    BY DEF v
  <2> QED BY <2>1, <1>1, <1>2, <1>3, <1>5, SendHolds
<1> HIDE DEF a
<1>8. /\ h1 \in Listener /\ h1.state = "RESPONSE" /\ h1.request = h.request
      /\ h1.number = h.number /\ h1.todo = todo - n /\ h1.written = v /\ h1.passed = FALSE
  <2>1. todo - n \in Nat /\ h.written + n = v
    BY <1>4, <1>5
  <2>2. h1 = [h EXCEPT !.todo = todo - n, !.written = v, !.passed = FALSE]
    BY <2>1, <1>4
  <2> HIDE DEF h1
  <2> QED BY <2>1, <2>2, <1>1, <1>5 DEF Listener
<1> HIDE DEF h1
<1>9. Before(h1) = Before(h)
  BY <1>8 DEF Before
<1>10. Len(client.heard) \in Nat /\ Len(client.heard) <= v
  <2>1. Len(client.heard) \in Nat
    BY <1>1 DEF Hears, Browsers
  <2>2. Len(client.heard) <= w
    BY <1>3, <1>4 DEF Follows
  <2> QED BY <2>1, <2>2, <1>5
<1>11. ASSUME n < h.todo, Sends(WaitToSend(a)), http' = h1
       PROVE  IInv'
  <2> DEFINE timer1 == a.timer1 \/ a.canSend
             d == [a EXCEPT !.needSend = TRUE, !.timer1 = timer1]
  <2>1. WaitToSend(a) = d
    BY <1>7 DEF WaitToSend
  <2>2. timer1 \in BOOLEAN
    BY <1>7 DEF Connections
  <2> HIDE DEF timer1
  <2>3. Same(d, a) /\ d.out = a.out
    BY <2>2, <1>7 DEF Same, Connections
  <2> HIDE DEF d
  <2>4. Bounded(d) /\ Timed(d) /\ Listens(d, h1) /\ d.state = "ESTABLISHED"
    BY <2>3, <1>7, <1>8 DEF Same, Bounded, Tried, Timed, Listens
  <2>5. Outgoing(d, h1)
    BY <2>3, <1>7, <1>8 DEF Same, Outgoing
  <2>6. Incoming(d, h1)
    BY <2>3, <1>3, <1>7, <1>8, <1>9 DEF Same, Incoming
  <2>7. Responding(d, h1)
    <3>1. h1.todo > 0 /\ h1.written + h1.todo = Total(Responses, h1.number)
      <4>1. v + (todo - n) = w + todo /\ todo - n > 0
        BY <1>4, <1>5, <1>11
      <4> QED BY <4>1, <1>4, <1>8
    <3> QED BY <3>1, <2>3, <1>3, <1>7, <1>8 DEF Same, Responding
  <2>8. Follows(d, h1, client)
    BY <2>3, <1>3, <1>7, <1>8, <1>10 DEF Same, Follows
  <2>9. Inv(d, h1, client)
    BY <2>3, <2>4, <2>5, <2>6, <2>7, <2>8, <1>1, <1>8 DEF Inv, Serving, Same
  <2>10. Sending(d, v)
    BY <2>3, <2>4, <1>7 DEF Same, Sending
  <2>11. Dies(d)
    BY <2>4 DEF Dies
  <2> QED BY <2>1, <2>4, <2>9, <2>10, <2>11, <1>5, <1>8, <1>11, SendsHolds
<1>12. ASSUME Closing(h.number), Returns(Close(a)), http' = NoListener
       PROVE  IInv'
  <2> DEFINE d == [a EXCEPT !.listener = FALSE, !.state = "FIN_WAIT_1", !.timer1 = TRUE,
                            !.retry = 0]
  <2>1. "FIN_WAIT_1" \in States
    BY DEF States
  <2>2. Close(a) = d
    <3> DEFINE b == [a EXCEPT !.listener = FALSE]
    <3>1. Close(a) = Begin(b, "FIN_WAIT_1")
      BY <1>7 DEF Close
    <3>2. Begin(b, "FIN_WAIT_1") = [[b EXCEPT !.state = "FIN_WAIT_1", !.timer1 = TRUE]
                                       EXCEPT !.retry = 0]
      BY DEF Begin, Goto
    <3>3. [[b EXCEPT !.state = "FIN_WAIT_1", !.timer1 = TRUE] EXCEPT !.retry = 0] = d
      BY <1>7 DEF Connections
    <3> QED BY <3>1, <3>2, <3>3
  <2>3. /\ d \in Connections /\ d.state = "FIN_WAIT_1" /\ d.timer1 = TRUE /\ d.retry = 0
        /\ d.inRing = a.inRing /\ d.outRing = a.outRing /\ d.listener = FALSE /\ d.out = a.out
    BY <2>1, <1>7 DEF Connections
  <2> HIDE DEF d
  <2>4. Alone(d)
    <3>1. 0 <= MaxTries /\ 0 <= MaxTries + 1
      BY ServerTcpAssumption
    <3> QED BY <3>1, <2>3, <1>7 DEF Alone, Bounded, Tried, Timed
  <2>5. Sending(d, v)
    BY <2>3, <1>7 DEF Sending
  <2>6. kind = "close"
    BY <1>12 DEF Closing
  <2> QED BY <2>2, <2>3, <2>4, <2>5, <2>6, <1>1, <1>5, <1>12, ClosedReturns
<1>13. ASSUME ~(n < h.todo), Returns(WaitToRecv(a)),
              http' = [h1 EXCEPT !.state = "REQUEST_HEADER", !.request = <<>>]
       PROVE  IInv'
  <2> DEFINE timer1 == a.timer1 \/ a.canRecv
             d == [a EXCEPT !.needRecv = TRUE, !.timer1 = timer1]
             h2 == [h1 EXCEPT !.state = "REQUEST_HEADER", !.request = <<>>]
  <2>1. WaitToRecv(a) = d
    BY <1>7 DEF WaitToRecv
  <2>2. timer1 \in BOOLEAN
    BY <1>7 DEF Connections
  <2> HIDE DEF timer1
  <2>3. /\ d \in Connections /\ d.state = "ESTABLISHED" /\ d.retry = a.retry
        /\ d.localSeq = a.localSeq /\ d.remoteSeq = a.remoteSeq /\ d.inRing = a.inRing
        /\ d.outRing = a.outRing /\ d.canRecv = a.canRecv /\ d.listener = a.listener
        /\ d.out = a.out
    BY <2>2, <1>7 DEF Connections
  <2> HIDE DEF d
  <2>4. /\ h2 \in Listener /\ h2.state = "REQUEST_HEADER" /\ h2.request = <<>>
        /\ h2.number = number /\ h2.todo = 0 /\ h2.written = v /\ h2.passed = FALSE
    <3>1. <<>> \in Seq(Nat) /\ todo - n = 0
      BY <1>4, <1>5, <1>13
    <3> QED BY <3>1, <1>4, <1>8 DEF Listener
  <2> HIDE DEF h2
  <2>5. Bounded(d) /\ Timed(d) /\ Listens(d, h2)
    BY <2>3, <2>4, <1>7 DEF Bounded, Tried, Timed, Listens
  <2>6. Outgoing(d, h2)
    BY <2>3, <2>4, <1>7 DEF Outgoing
  <2>7. PICK t \in Nat, i \in Nat : /\ t = Total(Requests, number) /\ i = c.remoteSeq
                                    /\ Total(Requests, number) \in Nat
    <3>1. Total(Requests, number) \in Nat
      BY Ends
    <3> QED BY <3>1, <1>1 DEF Connections
  <2>8. i - 1 = t /\ i >= 1 /\ c.inRing = <<>> /\ ~c.canRecv
    <3>1. PICK q \in Nat : q = Len(h.request)
      BY <1>1 DEF Listener
    <3>2. Before(h) = t - q
      BY <3>1, <2>7, <1>4 DEF Before
    <3>3. Len(<<>>) = 0 /\ c.inRing = <<>> /\ ~c.canRecv
      BY <1>3 DEF Responding
    <3>4. (t - q) + q + 0 = i - 1
      BY <3>1, <3>2, <3>3, <2>7, <1>3 DEF Incoming
    <3> QED BY <3>3, <3>4, <2>7
  <2>9. Incoming(d, h2)
    <3>1. Before(h2) = t
      BY <2>4, <2>7 DEF Before
    <3>2. d.remoteSeq - 1 = t /\ d.remoteSeq >= 1 /\ d.inRing = <<>>
      BY <2>3, <2>7, <2>8, <1>7
    <3>3. <<>> \o <<>> = <<>> /\ Len(<<>>) = 0 /\ t + 0 + 0 = t
      OBVIOUS
    <3>4. Labels(t, t) = <<>>
      BY NoLabels
    <3> QED BY <3>1, <3>2, <3>3, <3>4, <2>4 DEF Incoming
  <2>10. Requesting(d, h2)
    <3>1. h2.written = Total(Responses, h2.number)
      <4>1. v = w + todo
        BY <1>4, <1>5, <1>13
      <4> QED BY <4>1, <2>4, <1>4
    <3>2. d.remoteSeq - 1 <= Total(Requests, Lower(h2.number + 1, N))
      <4>1. N \in Nat /\ Lower(number + 1, N) \in 0..N /\ number <= Lower(number + 1, N)
        <5>1. N \in Nat
          BY Ends
        <5> QED BY <5>1, <1>4 DEF Lower
      <4>2. PICK u \in Nat : u = Total(Requests, Lower(number + 1, N))
        BY <4>1, Ends
      <4>3. t <= u
        <5>1. CASE number = Lower(number + 1, N)
          BY <5>1, <4>2, <2>7
        <5>2. CASE number < Lower(number + 1, N)
          <6>1. Total(Requests, number) < Total(Requests, Lower(number + 1, N))
            BY <5>2, <4>1, Ends
          <6> QED BY <6>1, <4>2, <2>7
        <5> QED BY <5>1, <5>2, <4>1, <1>4
      <4>4. d.remoteSeq - 1 = t
        BY <2>3, <2>7, <2>8, <1>7
      <4> QED BY <4>2, <4>3, <4>4, <2>4
    <3>3. ~d.canRecv
      BY <2>3, <2>8, <1>7
    <3> QED BY <3>1, <3>2, <3>3, <2>4 DEF Requesting
  <2>11. Follows(d, h2, client)
    BY <2>3, <2>4, <1>3, <1>7, <1>10 DEF Follows
  <2>12. Inv(d, h2, client)
    BY <2>3, <2>4, <2>5, <2>6, <2>9, <2>10, <2>11, <1>1, <1>7 DEF Inv, Serving
  <2>13. Sending(d, v)
    BY <2>3, <1>7 DEF Sending
  <2> QED BY <2>1, <2>3, <2>4, <2>12, <2>13, <1>13, ReturnsHolds DEF h2
<1> QED BY <1>6, <1>11, <1>12, <1>13

\* _send goes on after a pass of the loop.
LEMMA SendOnHolds ==
  ASSUME IInv, SendOn
  PROVE  IInv'
<1>1. http.state = "RESPONSE" /\ WriteOn(conn, http) /\ kind' = kind
  BY DEF SendOn, IInv, Inv, Listens
<1> QED BY <1>1, WriteOnHolds DEF IInv

\* onTcpToRecv: the request grows by what the ring held.
LEMMA OnTcpToRecvHolds ==
  ASSUME IInv, conn.state = "ESTABLISHED", conn.needRecv, conn.canRecv,
         OnTcpToRecv([conn EXCEPT !.timer1 = FALSE, !.needRecv = FALSE]), kind' = kind
  PROVE  IInv'
<1> DEFINE c0 == [conn EXCEPT !.timer1 = FALSE, !.needRecv = FALSE]
           c == [c0 EXCEPT !.inRing = <<>>, !.canRecv = FALSE]
           request == http.request \o conn.inRing
           h == [http EXCEPT !.request = request, !.number = @ + 1, !.state = "RESPONSE"]
           h1 == [h EXCEPT !.todo = Responses[h.number]]
           state == IF Len(request) >= HeaderLen THEN "REQUEST_CONTENT" ELSE http.state
           h2 == [http EXCEPT !.request = request, !.state = state]
<1>1. /\ conn \in Connections /\ Bounded(conn) /\ Hears(client) /\ Listens(conn, http)
      /\ http \in Listener /\ conn.listener /\ conn.out = <<>> /\ kind \in LastKinds
  BY DEF IInv, Inv, Listens
<1>2. /\ Outgoing(conn, http) /\ Incoming(conn, http) /\ Requesting(conn, http)
      /\ Follows(conn, http, client) /\ http.state # "RESPONSE" /\ http.state # "-"
  BY <1>1 DEF IInv, Inv, Serving, Responding, Listens
<1>3. /\ c0 \in Connections /\ c0.state = "ESTABLISHED" /\ c0.inRing = conn.inRing
      /\ c0.retry = conn.retry /\ c0.localSeq = conn.localSeq /\ c0.remoteSeq = conn.remoteSeq
      /\ c0.outRing = conn.outRing /\ c0.needRecv = FALSE /\ c0.listener = conn.listener
      /\ c0.out = <<>>
  BY <1>1 DEF Connections
<1>4. Recv(c0) = c
  BY <1>3 DEF Recv
<1>5. IF Len(request) = Requests[http.number + 1]
      THEN WriteOn(c, h1)
      ELSE Returns(WaitToRecv(c)) /\ http' = h2
  <2>1. http.request \o c0.inRing = request
    BY <1>3
  <2> HIDE DEF c0, c, request
  <2> QED BY <2>1, <1>4 DEF OnTcpToRecv, c0
<1> HIDE DEF c0
<1>6. /\ c \in Connections /\ c.state = "ESTABLISHED" /\ c.inRing = <<>> /\ c.canRecv = FALSE
      /\ c.retry = conn.retry /\ c.localSeq = conn.localSeq /\ c.remoteSeq = conn.remoteSeq
      /\ c.outRing = conn.outRing /\ c.needRecv = FALSE /\ c.listener = conn.listener
      /\ c.out = <<>>
  <2>1. <<>> \in Seq(Nat)
    OBVIOUS
  <2> QED BY <2>1, <1>3 DEF Connections
<1> HIDE DEF c
<1>7. Bounded(c)
  <2>1. Len(<<>>) = 0 /\ 0 <= RingSize
    BY ServerTcpAssumption
  <2> QED BY <2>1, <1>1, <1>6 DEF Bounded, Tried
<1>8. PICK number \in 0..N, q \in Nat, r \in Nat, i \in Nat, t \in Nat :
        /\ number = http.number /\ q = Len(http.request) /\ r = Len(conn.inRing)
        /\ i = conn.remoteSeq - 1 /\ conn.remoteSeq = i + 1 /\ t = Total(Requests, number)
        /\ t + q + r = i /\ request = Labels(t, i) /\ r > 0
  <2>1. /\ http.number \in 0..N /\ http.request \in Seq(Nat) /\ conn.inRing \in Seq(Nat)
        /\ conn.remoteSeq \in Nat /\ conn.remoteSeq >= 1
    BY <1>1, <1>2 DEF Listener, Connections, N, Incoming
  <2>2. /\ Len(http.request) \in Nat /\ Len(conn.inRing) \in Nat /\ conn.remoteSeq - 1 \in Nat
        /\ conn.remoteSeq = conn.remoteSeq - 1 + 1
    BY <2>1
  <2>3. Total(Requests, http.number) \in Nat
    BY <2>1, Ends
  <2>4. Before(http) = Total(Requests, http.number)
    BY <2>3, <1>2 DEF Before
  <2>5. conn.inRing # <<>>
    BY <1>2 DEF Requesting
  <2>6. Len(conn.inRing) > 0
    BY <2>1, <2>2, <2>5, EmptySeq
  <2> QED BY <2>1, <2>2, <2>3, <2>4, <2>6, <1>2 DEF Incoming
<1>9. request \in Seq(Nat) /\ Len(request) = q + r
  <2>1. http.request \in Seq(Nat) /\ conn.inRing \in Seq(Nat)
    BY <1>1 DEF Listener, Connections
  <2>2. request \in Seq(Nat) /\ Len(request) = Len(http.request) + Len(conn.inRing)
    BY <2>1, ConcatProperties
  <2> HIDE DEF request
  <2> QED BY <2>2, <1>8
<1> HIDE DEF request
<1>10. /\ N \in Nat \ {0} /\ number + 1 \in 1..N /\ number + 1 \in 0..N
       /\ Lower(number + 1, N) = number + 1
  <2>1. N \in Nat \ {0}
    BY Ends
  <2>2. number # N
    <3>1. SUFFICES ASSUME number = N PROVE FALSE
      OBVIOUS
    <3>2. Lower(number + 1, N) = N
      BY <2>1, <3>1 DEF Lower
    <3>3. conn.remoteSeq - 1 <= t
      BY <3>1, <3>2, <1>2, <1>8 DEF Requesting
    <3>4. i <= t /\ t + q + r = i /\ r > 0
      BY <3>3, <1>8
    <3> QED BY <3>4, <1>8
  <2>3. number + 1 \in 1..N /\ number + 1 \in 0..N
    BY <2>1, <2>2
  <2> QED BY <2>1, <2>3 DEF Lower
<1>11. PICK l \in Nat \ {0}, m \in Nat \ {0}, u \in Nat, y \in Nat :
         /\ l = Requests[number + 1] /\ m = Responses[number + 1]
         /\ u = Total(Requests, number + 1) /\ u = t + l
         /\ y = Total(Responses, number) /\ Total(Responses, number + 1) = y + m
         /\ http.written = y /\ http.todo = 0 /\ i <= u
  <2>1. Requests[number + 1] \in Nat \ {0} /\ Responses[number + 1] \in Nat \ {0}
    BY <1>10, Ends
  <2>2. /\ Total(Requests, number + 1) \in Nat /\ Total(Responses, number) \in Nat
    BY <1>10, Ends
  <2>3. number + 1 - 1 = number
    BY <1>8
  <2>4. /\ Total(Requests, number + 1) = Total(Requests, number) + Requests[number + 1]
        /\ Total(Responses, number + 1) = Total(Responses, number) + Responses[number + 1]
    BY <1>10, <2>3, Ends
  <2>5. /\ http.written = Total(Responses, number) /\ http.todo = 0
        /\ conn.remoteSeq - 1 <= Total(Requests, number + 1)
    BY <1>2, <1>8, <1>10 DEF Requesting
  <2>6. t = Total(Requests, number) /\ number = http.number /\ i = conn.remoteSeq - 1
    BY <1>8
  <2> QED BY <2>1, <2>2, <2>4, <2>5, <2>6
<1>12. CASE Len(request) = Requests[http.number + 1]
  <2>1. WriteOn(c, h1)
    BY <1>5, <1>12
  <2>2. q + r = l
    BY <1>8, <1>9, <1>11, <1>12
  <2>3. /\ h1 \in Listener /\ h1.state = "RESPONSE" /\ h1.request = request
        /\ h1.number = number + 1 /\ h1.todo = m /\ h1.written = y /\ h1.passed = http.passed
    <3>1. number + 1 \in 0..Len(Requests)
      BY <1>10 DEF N
    <3>2. /\ h \in Listener /\ h.state = "RESPONSE" /\ h.request = request
          /\ h.number = number + 1 /\ h.written = y /\ h.passed = http.passed
      <4>1. h = [http EXCEPT !.request = request, !.number = number + 1, !.state = "RESPONSE"]
        BY <1>8
      <4> HIDE DEF h
      <4> QED BY <3>1, <4>1, <1>1, <1>8, <1>9, <1>11 DEF Listener
    <3> HIDE DEF h
    <3>3. h1 = [h EXCEPT !.todo = m]
      BY <3>2, <1>11
    <3> HIDE DEF h1
    <3> QED BY <3>2, <3>3 DEF Listener
  <2> HIDE DEF h1
  <2>4. Timed(c) /\ Listens(c, h1)
    BY <2>3, <1>1, <1>6 DEF Timed, Listens
  <2>5. Outgoing(c, h1)
    BY <2>3, <1>2, <1>6, <1>11 DEF Outgoing
  <2>6. Incoming(c, h1)
    <3>1. Before(h1) = t
      <4>1. Before(h1) = u - (q + r)
        BY <2>3, <1>9, <1>11 DEF Before
      <4>2. u = t + l
        BY <1>11
      <4>3. (t + l) - l = t
        OBVIOUS
      <4> QED BY <4>1, <4>2, <4>3, <2>2
    <3>2. request \o <<>> = request
      BY <1>9, ConcatEmptySeq
    <3>3. Len(<<>>) = 0 /\ t + (q + r) + 0 = i
      <4>1. t + q + r = i
        BY <1>8
      <4>2. t + (q + r) + 0 = i
        BY <4>1
      <4> QED BY <4>2
    <3>4. c.remoteSeq - 1 = i /\ c.remoteSeq >= 1
      BY <1>6, <1>8
    <3> QED BY <3>1, <3>2, <3>3, <3>4, <2>3, <1>6, <1>8, <1>9 DEF Incoming
  <2>7. Responding(c, h1)
    <3>1. number + 1 > 0 /\ m > 0 /\ y + m = Total(Responses, number + 1)
      <4>1. number + 1 > 0
        BY <1>10
      <4>2. m > 0
        OBVIOUS
      <4>3. y + m = Total(Responses, number + 1)
        BY <1>11
      <4> QED BY <4>1, <4>2, <4>3
    <3>2. Len(request) = Requests[number + 1]
      BY <1>8, <1>12
    <3> QED BY <3>1, <3>2, <2>3, <1>6 DEF Responding
  <2>8. Follows(c, h1, client)
    BY <2>3, <1>2, <1>6, <1>11 DEF Follows
  <2>9. Inv(c, h1, client)
    BY <2>3, <2>4, <2>5, <2>6, <2>7, <2>8, <1>1, <1>6, <1>7 DEF Inv, Serving
  <2> QED BY <2>1, <2>3, <2>9, <1>1, <1>6, WriteOnHolds
<1>13. CASE Len(request) # Requests[http.number + 1]
  <2> DEFINE timer1 == c.timer1 \/ c.canRecv
             d == [c EXCEPT !.needRecv = TRUE, !.timer1 = timer1]
  <2>1. Returns(WaitToRecv(c)) /\ http' = h2
    BY <1>5, <1>13
  <2>2. WaitToRecv(c) = d
    BY <1>6 DEF WaitToRecv
  <2>3. timer1 \in BOOLEAN
    BY <1>6 DEF Connections
  <2> HIDE DEF timer1
  <2>4. /\ d \in Connections /\ d.state = "ESTABLISHED" /\ d.retry = c.retry
        /\ d.localSeq = c.localSeq /\ d.remoteSeq = c.remoteSeq /\ d.inRing = <<>>
        /\ d.outRing = c.outRing /\ d.canRecv = FALSE /\ d.listener = c.listener
        /\ d.out = <<>>
    BY <2>3, <1>6 DEF Connections
  <2> HIDE DEF d
  <2>5. /\ state \in {"REQUEST_HEADER", "REQUEST_CONTENT"}
    BY <1>1, <1>2 DEF Listener
  <2> HIDE DEF state
  <2>6. /\ h2 \in Listener /\ h2.state = state /\ h2.request = request /\ h2.number = number
        /\ h2.todo = 0 /\ h2.written = y /\ h2.passed = http.passed
    BY <2>5, <1>1, <1>8, <1>9, <1>11 DEF Listener
  <2> HIDE DEF h2
  <2>7. Bounded(d) /\ Timed(d) /\ Listens(d, h2)
    <3>1. Bounded(d)
      BY <2>4, <1>6, <1>7 DEF Bounded, Tried
    <3>2. ~http.passed
      BY <1>1, <1>2 DEF Listens
    <3> QED BY <3>1, <3>2, <2>4, <2>5, <2>6, <1>1, <1>6 DEF Timed, Listens
  <2>8. Outgoing(d, h2)
    BY <2>4, <2>6, <1>2, <1>6, <1>11 DEF Outgoing
  <2>9. Incoming(d, h2)
    <3>1. Before(h2) = t
      <4>1. t = Total(Requests, number) /\ t - 0 = t
        BY <1>8
      <4>2. h2.state # "RESPONSE"
        BY <2>5, <2>6
      <4> QED BY <4>1, <4>2, <2>6 DEF Before
    <3>2. request \o <<>> = request
      BY <1>9, ConcatEmptySeq
    <3>3. Len(<<>>) = 0 /\ t + (q + r) + 0 = i
      <4>1. t + q + r = i
        BY <1>8
      <4>2. t + (q + r) + 0 = i
        BY <4>1
      <4> QED BY <4>2
    <3>4. d.remoteSeq - 1 = i /\ d.remoteSeq >= 1
      BY <2>4, <1>6, <1>8
    <3> QED BY <3>1, <3>2, <3>3, <3>4, <2>4, <2>6, <1>8, <1>9 DEF Incoming
  <2>10. Requesting(d, h2)
    <3>1. d.remoteSeq - 1 <= Total(Requests, Lower(number + 1, N))
      BY <2>4, <1>6, <1>8, <1>10, <1>11
    <3> QED BY <3>1, <2>4, <2>6, <1>11 DEF Requesting
  <2>11. Follows(d, h2, client)
    BY <2>4, <2>6, <1>2, <1>6, <1>11 DEF Follows
  <2>12. Inv(d, h2, client)
    BY <2>4, <2>5, <2>6, <2>7, <2>8, <2>9, <2>10, <2>11, <1>1, <1>6 DEF Inv, Serving
  <2>13. Sending(d, h2.written)
    BY <2>4, SilentIsQuiet, QuietSends
  <2> QED BY <2>1, <2>2, <2>4, <2>12, <2>13, <1>1, ReturnsHolds
<1> QED BY <1>12, <1>13

\* The first timer while the connection is established.
LEMMA ServeTimer1EstablishedHolds ==
  ASSUME IInv, ServeTimer1Established
  PROVE  IInv'
<1> DEFINE c == [conn EXCEPT !.timer1 = FALSE]
           passed == http.state = "RESPONSE"
           h == [http EXCEPT !.passed = passed]
<1>1. /\ conn \in Connections /\ conn.out = <<>> /\ kind \in LastKinds
      /\ Inv(conn, http, client) /\ http \in Listener
  BY DEF IInv, Inv, Listens
<1>2. /\ conn.state = "ESTABLISHED" /\ kind' = kind
      /\ IF c.needRecv /\ c.canRecv THEN OnTcpToRecv([c EXCEPT !.needRecv = FALSE])
         ELSE Returns(c) /\ Passed
  BY DEF ServeTimer1Established
<1>3. /\ Same(c, conn) /\ c.out = conn.out /\ c.needRecv = conn.needRecv
      /\ c.canRecv = conn.canRecv
      /\ [c EXCEPT !.needRecv = FALSE] = [conn EXCEPT !.timer1 = FALSE, !.needRecv = FALSE]
  BY <1>1 DEF Same, Connections
<1> HIDE DEF c
<1>4. CASE c.needRecv /\ c.canRecv
  BY <1>2, <1>3, <1>4, OnTcpToRecvHolds
<1>5. CASE ~(c.needRecv /\ c.canRecv)
  <2>1. Returns(c) /\ http' = h
    BY <1>2, <1>5 DEF Passed
  <2>2. Timed(c) /\ c.state = "ESTABLISHED"
    BY <1>2, <1>3 DEF Same, Timed
  <2>3. Inv(c, http, client)
    BY <2>2, <1>1, <1>2, <1>3, Stays
  <2>4. Inv(c, h, client)
    BY <2>3, PassedHolds
  <2> HIDE DEF h
  <2>5. Sending(c, h.written)
    BY <1>1, <1>3, SilentIsQuiet, QuietSends
  <2> QED BY <2>1, <2>2, <2>4, <2>5, <1>1, <1>2, ReturnsHolds
<1> QED BY <1>4, <1>5

-----------------------------------------------------------------------------
(* The other steps.                                                         *)

\* The connection is deleted, and its listener: under _send when there is a response in
\* hand, which takes a FIN of the browser.
LEMMA ServeTimer1ClosedHolds ==
  ASSUME IInv, ServeTimer1Closed
  PROVE  IInv'
<1> DEFINE state == IF http.state = "RESPONSE" THEN "CRASHED" ELSE "GONE"
<1>1. /\ conn' = [NewConnection EXCEPT !.state = state] /\ http' = NoListener
      /\ client' = client /\ kind' = kind /\ kind \in LastKinds /\ Hears(client)
      /\ conn.state = "CLOSED" /\ Listens(conn, http) /\ Inv(conn, http, client)
  BY DEF ServeTimer1Closed, IInv, Inv
<1>2. state \in {"CRASHED", "GONE"} /\ state \in States
  BY DEF States
<1>3. state = "CRASHED" => client.closed
  <2>1. SUFFICES ASSUME http.state = "RESPONSE" PROVE client.closed
    OBVIOUS
  <2>2. conn.listener
    BY <2>1, <1>1 DEF Listens, NoListener
  <2> QED BY <2>2, <1>1 DEF Inv, Ended
<1> HIDE DEF state
<1>4. /\ conn' \in Connections /\ conn'.state = state /\ conn'.retry = 0
      /\ conn'.inRing = <<>> /\ conn'.outRing = <<>> /\ conn'.listener = FALSE
      /\ conn'.out = <<>>
  <2>1. <<>> \in Seq(Nat) /\ <<>> \in Seq(Packets)
    OBVIOUS
  <2> QED BY <2>1, <1>1, <1>2 DEF NewConnection, Connections
<1>5. Bounded(conn')
  <2>1. Len(<<>>) = 0 /\ 0 <= RingSize /\ 0 <= MaxTries + 1
    BY ServerTcpAssumption
  <2> QED BY <2>1, <1>2, <1>4 DEF Bounded, Tried
<1>6. Timed(conn')
  BY <1>2, <1>4 DEF Timed
<1>7. Inv(conn', NoListener, client)
  BY <1>1, <1>2, <1>4, <1>5, <1>6, AloneHolds DEF Alone
<1>8. Dies(conn)'
  BY <1>1, <1>3, <1>4 DEF Dies
<1> QED BY <1>1, <1>4, <1>7, <1>8 DEF IInv, Inv, Hears

\* A SYN makes a connection.
LEMMA ConnectsHolds ==
  ASSUME IInv, Connects
  PROVE  IInv'
<1> DEFINE w == CHOOSE w \in Windows : w > 0
           p == Packet({"SYN"}, 0, 0, w, <<>>)
           d == [NewConnection EXCEPT !.state = "SYN_RECV", !.timer1 = TRUE, !.retry = 0,
                                      !.remoteSeq = 1, !.wnd = w]
<1>1. /\ conn.state = "NONE" /\ Sends(Accept(p)) /\ http' = http /\ kind' = kind
      /\ kind \in LastKinds /\ Hears(client) /\ Unheard(client) /\ Listens(conn, http)
  BY DEF Connects, IInv, Inv
<1>2. w \in Nat
  BY HttpServerAssumption
<1> HIDE DEF w
<1>3. Accept(p) = d
  <2>1. p.seq + 1 = 1 /\ p.win = w
    BY DEF Packet
  <2> HIDE DEF p
  <2>2. Begin(NewConnection, "SYN_RECV") =
          [NewConnection EXCEPT !.state = "SYN_RECV", !.timer1 = TRUE, !.retry = 0]
    BY DEF Begin, Goto, NewConnection
  <2> QED BY <2>1, <2>2 DEF Accept, NewConnection
<1>4. /\ d \in Connections /\ d.state = "SYN_RECV" /\ d.timer1 = TRUE /\ d.retry = 0
      /\ d.localSeq = 0 /\ d.remoteSeq = 1 /\ d.inRing = <<>> /\ d.outRing = <<>>
      /\ d.canRecv = FALSE /\ d.listener = FALSE /\ d.out = <<>>
  <2>1. <<>> \in Seq(Nat) /\ <<>> \in Seq(Packets) /\ "SYN_RECV" \in States
    BY DEF States
  <2> QED BY <2>1, <1>2 DEF NewConnection, Connections
<1> HIDE DEF d, p
<1>5. Bounded(d) /\ Timed(d)
  <2>1. Len(<<>>) = 0 /\ 0 <= RingSize /\ 0 <= MaxTries /\ 0 <= MaxTries + 1
    BY ServerTcpAssumption
  <2> QED BY <2>1, <1>4 DEF Bounded, Tried, Timed
<1>6. Listens(d, http)
  BY <1>1, <1>4 DEF Listens
<1>7. Inv(d, http, client)
  BY <1>1, <1>4, <1>5, <1>6 DEF Inv, Fresh
<1>8. Sending(d, 0) /\ Dies(d)
  BY <1>4, SilentIsQuiet, QuietSends DEF Dies
<1> QED BY <1>1, <1>3, <1>4, <1>7, <1>8, SendsHolds

\* The browser ends its stream.
LEMMA ClosesHolds ==
  ASSUME IInv, Closes
  PROVE  IInv'
<1>1. /\ client.up /\ ~client.closed /\ conn.state \notin {"GONE", "CRASHED"}
      /\ client' = [client EXCEPT !.closed = TRUE, !.end = conn.remoteSeq - 1]
      /\ conn' = conn /\ http' = http /\ kind' = kind
  BY DEF Closes
<1>2. Inv(conn, http, client) /\ Hears(client) /\ client \in Browsers /\ conn \in Connections
  BY DEF IInv, Inv, Hears
<1>3. /\ client' \in Browsers /\ client'.heard = client.heard /\ client'.fin = client.fin
      /\ client'.acked = client.acked /\ client'.up = client.up
  <2>1. conn.remoteSeq - 1 \in Int
    BY <1>2 DEF Connections
  <2> QED BY <2>1, <1>1, <1>2 DEF Browsers
<1>4. Hears(client')
  BY <1>2, <1>3 DEF Hears
<1>5. conn.state # "NONE"
  BY <1>1, <1>2 DEF Inv
<1>6. ASSUME conn.state = "SYN_RECV" PROVE Fresh(conn) /\ Unheard(client')
  BY <1>2, <1>3, <1>6 DEF Inv, Unheard
<1>7. ASSUME conn.state = "ESTABLISHED"
      PROVE  Serving(conn, http) /\ Follows(conn, http, client')
  BY <1>2, <1>3, <1>7 DEF Inv, Follows
<1>8. ~(conn.listener /\ conn.state # "ESTABLISHED")
  BY <1>1, <1>2 DEF Inv, Ended
<1>9. Inv(conn, http, client')
  BY <1>2, <1>3, <1>4, <1>5, <1>6, <1>7, <1>8 DEF Inv
<1>10. Dies(conn)'
  BY <1>1 DEF Dies
<1> QED BY <1>1, <1>9, <1>10 DEF IInv, Inv, Hears

\* A step that changes nothing.
LEMMA StutterHolds ==
  ASSUME IInv, UNCHANGED vars
  PROVE  IInv'
BY DEF vars, IInv, Inv, Hears, Dies

-----------------------------------------------------------------------------
(* The theorems.                                                            *)

\* Before the first connection.
LEMMA InitHolds ==
  ASSUME Init
  PROVE  IInv
<1>1. /\ conn = [NewConnection EXCEPT !.state = "NONE"] /\ http = NoListener
      /\ client = [up |-> FALSE, heard |-> <<>>, acked |-> 0, edge |-> 0, fin |-> FALSE,
                   closed |-> FALSE, end |-> 0]
      /\ kind \in LastKinds
  BY DEF Init
<1>2. <<>> \in Seq(Nat) /\ <<>> \in Seq(Packets) /\ "NONE" \in States /\ Len(<<>>) = 0
  BY DEF States
<1>3. /\ conn \in Connections /\ conn.state = "NONE" /\ conn.retry = 0 /\ conn.inRing = <<>>
      /\ conn.outRing = <<>> /\ conn.listener = FALSE /\ conn.timer2 = FALSE /\ conn.out = <<>>
  BY <1>1, <1>2 DEF NewConnection, Connections
<1>4. Bounded(conn) /\ Timed(conn)
  <2>1. 0 <= RingSize /\ 0 <= MaxTries + 1
    BY ServerTcpAssumption
  <2> QED BY <2>1, <1>2, <1>3 DEF Bounded, Tried, Timed
<1>5. Listens(conn, http)
  <2>1. NoListener \in Listener /\ ~NoListener.passed
    <3>1. 0 \in 0..Len(Requests)
      BY Ends DEF N
    <3> QED BY <3>1, <1>2 DEF NoListener, Listener
  <2> QED BY <2>1, <1>1, <1>3 DEF Listens
<1>6. Hears(client) /\ Unheard(client) /\ client.up = FALSE
  <2>1. Labels(0, 0) = <<>>
    BY NoLabels
  <2> QED BY <2>1, <1>1, <1>2 DEF Hears, Browsers, Unheard
<1> QED BY <1>1, <1>3, <1>4, <1>5, <1>6 DEF IInv, Inv, Dies

\* The invariant holds in every state.
LEMMA Holds == Spec => []IInv
<1>1. Init => IInv
  BY InitHolds
<1>2. IInv /\ [Next]_vars => IInv'
  <2> SUFFICES ASSUME IInv, [Next]_vars PROVE IInv'
    OBVIOUS
  <2>1. CASE Connects
    BY <2>1, ConnectsHolds
  <2>2. CASE ServePacket
    BY <2>2, ServePacketHolds
  <2>3. CASE Timer1
    BY <2>3, ServeTimer1Holds, ServeTimer1EstablishedHolds, ServeTimer1ClosedHolds DEF Timer1
  <2>4. CASE ServeTimer2
    BY <2>4, ServeTimer2Holds
  <2>5. CASE SendOn
    BY <2>5, SendOnHolds
  <2>6. CASE Closes
    BY <2>6, ClosesHolds
  <2>7. CASE UNCHANGED vars
    BY <2>7, StutterHolds
  <2> QED BY <2>1, <2>2, <2>3, <2>4, <2>5, <2>6, <2>7 DEF Next
<1> QED BY <1>1, <1>2, PTL DEF Spec

\* TypeOK: the rings keep to their size, a packet is tried MaxTries times, and there is
\* a listener exactly when the connection has one.
THEOREM ServerTyped == Spec => []TypeOK
<1>1. IInv => TypeOK
  BY DEF IInv, Inv, Connections, Bounded, Listens, NoListener, TypeOK
<1> QED BY <1>1, Holds, PTL

\* A connection that nobody serves is timed, whatever arrives or is lost.
THEOREM NeverUntimed == Spec => []TimerArmed
<1>1. IInv => TimerArmed
  BY DEF IInv, Inv, Timed, TimerArmed
<1> QED BY <1>1, Holds, PTL

\* While _send runs the loop inside the callback, the connection under it stays, and the
\* callback is not entered again, unless the browser ends its stream; and of nothing but
\* such an end, or of a response that ends by closing, the process dies.
THEOREM CallbackAlone == Spec => []ResponseUndisturbed
<1>1. IInv => ResponseUndisturbed
  <2>1. ASSUME IInv, http.state = "RESPONSE", ~client.closed
        PROVE  conn.state = "ESTABLISHED" /\ ~conn.needRecv /\ conn.listener /\ http.todo > 0
    <3>1. Listens(conn, http)
      BY <2>1 DEF IInv, Inv
    <3>2. conn.listener
      BY <3>1, <2>1 DEF Listens, NoListener
    <3>3. conn.state = "ESTABLISHED"
      BY <3>2, <2>1 DEF IInv, Inv, Ended
    <3>4. Responding(conn, http)
      BY <3>3, <2>1 DEF IInv, Inv, Serving
    <3> QED BY <3>2, <3>3, <3>4 DEF Responding
  <2>2. ASSUME IInv, conn.state = "CRASHED" PROVE client.closed \/ kind = "close"
    BY <2>2 DEF IInv, Dies
  <2> QED BY <2>1, <2>2 DEF ResponseUndisturbed
<1> QED BY <1>1, Holds, PTL

\* Requests reach the listener and responses the browser byte for byte, and nobody is
\* told that a byte arrived that did not, for requests, responses, rings, packets and
\* windows of every size, and wherever the browser ends its stream.
THEOREM BothStreams == Spec => []StreamsIntact
<1>1. IInv => StreamsIntact
  <2> SUFFICES ASSUME IInv PROVE StreamsIntact
    OBVIOUS
  <2> DEFINE before == Total(Requests, http.number)
                       - (IF http.state = "RESPONSE" THEN Len(http.request) ELSE 0)
             in == http.request \o conn.inRing
  <2>1. /\ conn \in Connections /\ Hears(client) /\ Listens(conn, http) /\ http \in Listener
    BY DEF IInv, Inv, Listens
  <2>2. Before(http) = before
    BY DEF Before
  <2>3. ASSUME conn.listener, conn.state = "ESTABLISHED"
        PROVE  /\ in = Labels(before, before + Len(in))
               /\ conn.outRing = Labels(conn.localSeq - 1, http.written)
               /\ client.acked <= before + Len(in)
    <3>1. Outgoing(conn, http) /\ Incoming(conn, http) /\ Follows(conn, http, client)
      BY <2>3 DEF IInv, Inv, Serving
    <3>2. http.request \in Seq(Nat) /\ conn.inRing \in Seq(Nat)
      BY <2>1 DEF Connections, Listener
    <3>3. PICK q \in Nat, r \in Nat, i \in Nat :
            q = Len(http.request) /\ r = Len(conn.inRing) /\ i = conn.remoteSeq
      BY <2>1 DEF Connections, Listener
    <3>4. Len(in) = q + r
      BY <3>2, <3>3, ConcatProperties
    <3> HIDE DEF in, before
    <3>5. before \in Nat /\ before + q + r = i - 1
      BY <3>1, <3>3, <2>2 DEF Incoming
    <3>6. before + Len(in) = i - 1
      <4>1. PICK b \in Nat : b = before
        BY <3>5
      <4>2. b + q + r = i - 1
        BY <4>1, <3>5
      <4>3. b + (q + r) = i - 1
        BY <4>2
      <4> QED BY <4>1, <4>3, <3>4
    <3>7. in = Labels(before, i - 1)
      BY <3>1, <3>3, <2>2 DEF Incoming, in
    <3>8. client.acked <= i - 1
      BY <3>1, <3>3 DEF Follows
    <3> QED BY <3>1, <3>6, <3>7, <3>8 DEF Outgoing
  <2>4. ASSUME conn.listener, conn.state # "ESTABLISHED"
        PROVE  /\ in = Labels(before, before + Len(in))
               /\ conn.state = "LAST_ACK" =>
                    /\ conn.outRing = Labels(conn.localSeq - 1, http.written)
                    /\ client.acked <= before + Len(in) + 1
    <3>1. Ending(conn, http)
      BY <2>4 DEF IInv, Inv
    <3>2. http.request \in Seq(Nat) /\ conn.inRing \in Seq(Nat)
      BY <2>1 DEF Connections, Listener
    <3>3. PICK q \in Nat, r \in Nat, i \in Nat :
            q = Len(http.request) /\ r = Len(conn.inRing) /\ i = conn.remoteSeq
      BY <2>1 DEF Connections, Listener
    <3>4. Len(in) = q + r
      BY <3>2, <3>3, ConcatProperties
    <3> HIDE DEF in, before
    <3>5. PICK b \in Nat : b = before /\ b + q + r = i - 2
      BY <3>1, <3>3, <2>2 DEF Ending
    <3>6. before + Len(in) = i - 2
      <4>1. b + (q + r) = i - 2
        BY <3>5
      <4> QED BY <4>1, <3>4, <3>5
    <3>7. in = Labels(before, i - 2)
      BY <3>1, <3>3, <2>2 DEF Ending, in
    <3>8. ASSUME conn.state = "LAST_ACK"
          PROVE  /\ conn.outRing = Labels(conn.localSeq - 1, http.written)
                 /\ client.acked <= before + Len(in) + 1
      <4>1. client.acked <= i - 1
        BY <2>4, <3>3, <3>8 DEF IInv, Inv
      <4>2. i - 2 + 1 = i - 1
        OBVIOUS
      <4> QED BY <4>1, <4>2, <3>1, <3>6, <3>8 DEF Ending, Outgoing
    <3> QED BY <3>6, <3>7, <3>8
  <2>5. http.state # "-" => conn.listener
    BY <2>1 DEF Listens, NoListener
  <2>6. client.heard = Labels(0, Len(client.heard))
    BY <2>1 DEF Hears
  <2>7. http.state # "-" => in = Labels(before, before + Len(in))
    BY <2>3, <2>4, <2>5
  <2>8. conn.state \in {"ESTABLISHED", "LAST_ACK"} /\ http.state # "-" =>
          /\ conn.outRing = Labels(conn.localSeq - 1, http.written)
          /\ client.acked <= before + Len(in) + (IF conn.state = "LAST_ACK" THEN 1 ELSE 0)
    <3>1. CASE conn.listener /\ conn.state = "ESTABLISHED"
      <4>1. before + Len(in) + 0 = before + Len(in)
        <5>1. Before(http) \in Nat
          BY <3>1 DEF IInv, Inv, Serving, Incoming
        <5>2. in \in Seq(Nat)
          <6>1. http.request \in Seq(Nat) /\ conn.inRing \in Seq(Nat)
            BY <2>1 DEF Connections, Listener
          <6> QED BY <6>1, ConcatProperties
        <5> HIDE DEF in, before
        <5>3. Len(in) \in Nat /\ before \in Nat
          BY <5>1, <5>2, <2>2
        <5> QED BY <5>3
      <4> HIDE DEF in, before
      <4> QED BY <4>1, <3>1, <2>3
    <3>2. CASE conn.listener /\ conn.state = "LAST_ACK"
      <4> HIDE DEF in, before
      <4> QED BY <3>2, <2>4
    <3> QED BY <3>1, <3>2, <2>5
  <2> QED BY <2>6, <2>7, <2>8 DEF StreamsIntact
<1> QED BY <1>1, Holds, PTL

-----------------------------------------------------------------------------
(* The ring.  The positions are brought into linear form first: At is the   *)
(* place in the buffer of a position that may be one turn ahead.            *)

At(p) == IF p < Size THEN p ELSE IF p < 2 * Size THEN p - Size ELSE p - 2 * Size
Wrap(p) == IF p < 2 * Size THEN p ELSE p - 2 * Size

Positions == 0..(2 * Size - 1)

\* How many bytes lie between the two positions.
Between == IF read <= write THEN write - read ELSE write - read + 2 * Size

RingTyped ==
  /\ read \in Positions /\ write \in Positions
  /\ buffer \in [0..(Size - 1) -> Byte]
  /\ queue \in Seq(Byte)

\* What is between the positions is the queue, byte for byte.
RingHolds ==
  /\ Between = Len(queue) /\ Len(queue) <= Size
  /\ \A k \in 1..Len(queue) : queue[k] = buffer[At(read + k - 1)]

RingInv == RingTyped /\ RingHolds

-----------------------------------------------------------------------------
(* Positions.                                                               *)

\* In the first turn a position is its place.
LEMMA FirstTurn ==
  ASSUME NEW n \in Nat \ {0}, NEW p \in 0..(n - 1)
  PROVE  p \div n = 0 /\ p % n = p
OBVIOUS

\* In the second turn a position is its place and the size.
LEMMA SecondTurn ==
  ASSUME NEW n \in Nat \ {0}, NEW p \in Nat, n <= p, p < n + n
  PROVE  p \div n = 1 /\ p % n = p - n
OBVIOUS

\* The page and the place of a position (what TRing computes with / and %).
LEMMA PageOffset ==
  ASSUME NEW p \in Positions
  PROVE  /\ Page(p) = IF p < Size THEN 0 ELSE 1
         /\ Offset(p) = IF p < Size THEN p ELSE p - Size
         /\ Offset(p) = At(p) /\ At(p) \in 0..(Size - 1)
<1>1. CASE p < Size
  BY <1>1, FirstTurn, SizeAssumption DEF Page, Offset, At, Positions
<1>2. CASE ~(p < Size)
  BY <1>2, SecondTurn, SizeAssumption DEF Page, Offset, At, Positions
<1> QED BY <1>1, <1>2

\* Moving a position by no more than the ring's size (end_read, end_write).
LEMMA Moved ==
  ASSUME NEW p \in Positions, NEW n \in 0..Size
  PROVE  (p + n) % (2 * Size) = Wrap(p + n) /\ Wrap(p + n) \in Positions
<1> DEFINE m == 2 * Size
           q == p + n
<1>1. m \in Nat \ {0} /\ q \in Nat /\ q < m + m
  BY SizeAssumption DEF Positions
<1> HIDE DEF m, q
<1>2. q % m = IF q < m THEN q ELSE q - m
  <2>1. CASE q < m
    <3>1. q \in 0..(m - 1)
      BY <2>1, <1>1
    <3> QED BY <3>1, <2>1, <1>1, FirstTurn
  <2>2. CASE ~(q < m)
    <3>1. m <= q
      BY <2>2, <1>1
    <3>2. q % m = q - m
      BY <3>1, <1>1, SecondTurn
    <3> QED BY <3>2, <2>2
  <2> QED BY <2>1, <2>2
<1> QED BY <1>2, SizeAssumption DEF m, q, Wrap, Positions

\* The invariant in numbers.
LEMMA Linear ==
  ASSUME RingInv
  PROVE  /\ Size \in Nat \ {0}
         /\ read \in Nat /\ read < 2 * Size /\ write \in Nat /\ write < 2 * Size
         /\ Len(queue) \in Nat /\ Len(queue) <= Size /\ Between = Len(queue)
         /\ Offset(read) = (IF read < Size THEN read ELSE read - Size)
         /\ Page(read) = (IF read < Size THEN 0 ELSE 1)
         /\ Offset(write) = (IF write < Size THEN write ELSE write - Size)
         /\ Page(write) = (IF write < Size THEN 0 ELSE 1)
<1>1. read \in Positions /\ write \in Positions /\ Size \in Nat \ {0}
  BY SizeAssumption DEF RingInv, RingTyped
<1>2. Len(queue) \in Nat /\ Len(queue) <= Size /\ Between = Len(queue)
  BY DEF RingInv, RingTyped, RingHolds
<1>3. read \in Nat /\ read < 2 * Size /\ write \in Nat /\ write < 2 * Size
  BY <1>1 DEF Positions
<1> QED BY <1>1, <1>2, <1>3, PageOffset

\* available() and free() count what lies between the positions.
LEMMA Counted ==
  ASSUME RingInv
  PROVE  Available = Len(queue) /\ Free = Size - Len(queue)
BY Linear DEF Between, Available, Free

-----------------------------------------------------------------------------
(* peek.                                                                    *)

\* A peek at a place that was written gives what was written there.
LEMMA Peeked ==
  ASSUME RingInv, NEW offset \in 0..Len(queue), NEW bytes \in 0..(Size + 1)
  PROVE  Peek(offset, bytes) = SubSeq(queue, offset + 1, Least(offset + bytes, Len(queue)))
<1> DEFINE r == Wrap(read + offset)
           n == Least(bytes, Len(queue) - offset)
           last == Least(offset + bytes, Len(queue))
<1>1. /\ Size \in Nat \ {0} /\ read \in Nat /\ read < 2 * Size
      /\ write \in Nat /\ write < 2 * Size
      /\ Len(queue) \in Nat /\ Len(queue) <= Size
      /\ Len(queue) = (IF read <= write THEN write - read ELSE write - read + 2 * Size)
      /\ offset \in 0..Size /\ offset <= Len(queue) /\ bytes \in Nat /\ bytes <= Size + 1
  BY Linear DEF Between
<1>2. (read + offset) % (2 * Size) = r /\ r \in Positions /\ r \in Nat /\ r < 2 * Size
  <2>1. read \in Positions /\ offset \in 0..Size
    BY <1>1 DEF RingInv, RingTyped
  <2>2. (read + offset) % (2 * Size) = r /\ r \in Positions
    BY <2>1, Moved
  <2> QED BY <2>2, <1>1 DEF Positions
<1>3. r = IF read + offset < 2 * Size THEN read + offset ELSE read + offset - 2 * Size
  BY <1>1 DEF Wrap
<1>4. /\ n \in Nat /\ n <= Len(queue) - offset /\ n <= bytes
      /\ (n = bytes \/ n = Len(queue) - offset)
      /\ last = offset + n
  BY <1>1 DEF Least
<1> HIDE DEF n, r, last
<1>5. SubSeq(queue, offset + 1, last) = [k \in 1..n |-> queue[offset + k]]
  <2>1. queue \in Seq(Byte) /\ offset + 1 \in 1..(Len(queue) + 1) /\ last \in offset..Len(queue)
    BY <1>1, <1>4 DEF RingInv, RingTyped
  <2>2. SubSeq(queue, offset + 1, last)
          = [k \in 1..(last - (offset + 1) + 1) |-> queue[k + (offset + 1) - 1]]
    BY <2>1
  <2>3. last - (offset + 1) + 1 = n /\ \A k \in 1..n : k + (offset + 1) - 1 = offset + k
    BY <1>1, <1>4
  <2> QED BY <2>2, <2>3
<1>6. \A k \in 1..n : queue[offset + k] = buffer[At(r + k - 1)]
  <2> TAKE k \in 1..n
  <2>1. offset + k \in 1..Len(queue)
    BY <1>1, <1>4
  <2>2. queue[offset + k] = buffer[At(read + (offset + k) - 1)]
    BY <2>1 DEF RingInv, RingHolds
  <2>3. At(read + (offset + k) - 1) = At(r + k - 1)
    <3>1. k \in Nat /\ k >= 1 /\ k <= n
      BY <1>4
    <3> QED BY <3>1, <1>1, <1>3, <1>4 DEF At
  <2> QED BY <2>2, <2>3
<1>7. Peek(offset, bytes) = [k \in 1..n |-> buffer[At(r + k - 1)]]
  <2> DEFINE o == Offset(r)
             l == Size - o
             w == Offset(write)
  <2>1. /\ o = (IF r < Size THEN r ELSE r - Size)
        /\ Page(r) = (IF r < Size THEN 0 ELSE 1)
        /\ w = (IF write < Size THEN write ELSE write - Size)
        /\ Page(write) = (IF write < Size THEN 0 ELSE 1)
    BY PageOffset, Linear, <1>2
  <2>2. /\ o \in Nat /\ o < Size /\ l \in Nat /\ l >= 1 /\ w \in Nat /\ w < Size
    BY <2>1, <1>1, <1>2
  <2>3. Peek(offset, bytes) =
          IF Page(write) = Page(r) THEN Bytes(o, Least(bytes, w - o))
          ELSE IF bytes <= l THEN Bytes(o, bytes)
          ELSE Bytes(o, l) \o Bytes(0, Least(bytes - l, w))
    BY <1>2 DEF Peek
  <2>4. l = Size - o
    OBVIOUS
  <2> HIDE DEF o, l, w
  <2>5. CASE Page(write) = Page(r)
    <3>1. n <= w - o /\ (n = bytes \/ n = w - o)
      BY <2>1, <2>5, <1>1, <1>3, <1>4
    <3>2. Least(bytes, w - o) = n
      BY <3>1, <2>2, <1>1, <1>4 DEF Least
    <3>3. Peek(offset, bytes) = [k \in 1..n |-> buffer[o + k - 1]]
      BY <3>2, <2>3, <2>5 DEF Bytes
    <3>4. \A k \in 1..n : At(r + k - 1) = o + k - 1
      BY <3>1, <2>1, <2>2, <1>1, <1>2, <1>4 DEF At
    <3> QED BY <3>3, <3>4
  <2>6. CASE Page(write) # Page(r) /\ bytes <= l
    <3>1. n = bytes
      BY <2>1, <2>2, <2>4, <2>6, <1>1, <1>3, <1>4
    <3>2. Peek(offset, bytes) = [k \in 1..n |-> buffer[o + k - 1]]
      BY <3>1, <2>3, <2>6 DEF Bytes
    <3>3. \A k \in 1..n : At(r + k - 1) = o + k - 1
      BY <3>1, <2>1, <2>2, <2>4, <2>6, <1>1, <1>2 DEF At
    <3> QED BY <3>2, <3>3
  <2>7. CASE Page(write) # Page(r) /\ ~(bytes <= l)
    <3> DEFINE l2 == Least(bytes - l, w)
               b1 == Bytes(o, l)
               b2 == Bytes(0, l2)
    <3>1. /\ l2 \in Nat /\ l2 <= w /\ l2 <= bytes - l
          /\ (l2 = w \/ l2 = bytes - l)
      BY <2>2, <2>7, <1>1 DEF Least
    <3>2. n = l + l2
      BY <3>1, <2>1, <2>2, <2>4, <2>7, <1>1, <1>3, <1>4
    <3>3. Peek(offset, bytes) = b1 \o b2
      BY <2>3, <2>7
    <3> HIDE DEF l2
    <3>4. /\ b1 = [k \in 1..l |-> buffer[o + k - 1]]
          /\ b2 = [k \in 1..l2 |-> buffer[0 + k - 1]]
      BY DEF Bytes
    <3> HIDE DEF b1, b2
    <3>5. b1 \in Seq(Byte) /\ Len(b1) = l /\ b2 \in Seq(Byte) /\ Len(b2) = l2
      <4>1. \A k \in 1..l : o + k - 1 \in 0..(Size - 1)
        BY <2>2, <2>4, <1>1
      <4>2. \A k \in 1..l2 : 0 + k - 1 \in 0..(Size - 1)
        BY <2>2, <3>1, <1>1
      <4>3. \A i \in 0..(Size - 1) : buffer[i] \in Byte
        BY DEF RingInv, RingTyped
      <4>4. b1 \in [1..l -> Byte]
        BY <4>1, <4>3, <3>4
      <4>5. b2 \in [1..l2 -> Byte]
        BY <4>2, <4>3, <3>4
      <4> QED BY <4>4, <4>5, <2>2, <3>1
    <3>6. /\ b1 \o b2 = [k \in 1..n |-> (b1 \o b2)[k]]
          /\ \A k \in 1..n : (b1 \o b2)[k] = IF k <= l THEN b1[k] ELSE b2[k - l]
      <4>1. /\ b1 \o b2 \in Seq(Byte) /\ Len(b1 \o b2) = Len(b1) + Len(b2)
            /\ \A i \in 1..(Len(b1) + Len(b2)) :
                 (b1 \o b2)[i] = IF i <= Len(b1) THEN b1[i] ELSE b2[i - Len(b1)]
        BY <3>5, ConcatProperties
      <4>2. b1 \o b2 = [k \in 1..Len(b1 \o b2) |-> (b1 \o b2)[k]]
        <5> DEFINE b == b1 \o b2
        <5>1. b \in Seq(Byte)
          BY <4>1
        <5> HIDE DEF b
        <5>2. b \in [1..Len(b) -> Byte]
          BY <5>1, LenProperties
        <5>3. b = [k \in 1..Len(b) |-> b[k]]
          BY <5>2
        <5> QED BY <5>3 DEF b
      <4> QED BY <4>1, <4>2, <3>5, <3>2
    <3>7. \A k \in 1..n : (IF k <= l THEN b1[k] ELSE b2[k - l]) = buffer[At(r + k - 1)]
      <4> TAKE k \in 1..n
      <4>0. k \in Nat /\ k >= 1 /\ k <= l + l2
        BY <1>4, <3>2
      <4>1. CASE k <= l
        <5>1. At(r + k - 1) = o + k - 1
          BY <4>0, <4>1, <2>1, <2>2, <2>4, <1>1, <1>2 DEF At
        <5>2. k \in 1..l
          BY <4>0, <4>1, <2>2
        <5> QED BY <5>1, <5>2, <4>1, <3>4
      <4>2. CASE ~(k <= l)
        <5>1. At(r + k - 1) = 0 + (k - l) - 1 /\ k - l \in 1..l2
          BY <4>0, <4>2, <2>1, <2>2, <2>4, <1>1, <1>2, <3>1 DEF At
        <5> QED BY <5>1, <4>2, <3>4
      <4> QED BY <4>1, <4>2
    <3> QED BY <3>2, <3>3, <3>6, <3>7
  <2> QED BY <2>5, <2>6, <2>7
<1>8. last = Least(offset + bytes, Len(queue))
  BY DEF last
<1> QED BY <1>5, <1>6, <1>7, <1>8

-----------------------------------------------------------------------------
(* write.                                                                   *)

\* memcpy into the buffer.
LEMMA CopiedType ==
  ASSUME NEW b \in [0..(Size - 1) -> Byte], NEW to \in Nat, NEW data \in Seq(Byte),
         NEW from \in Nat, NEW l \in Nat, from + l <= Len(data)
  PROVE  /\ Copied(b, to, data, from, l) \in [0..(Size - 1) -> Byte]
         /\ \A i \in 0..(Size - 1) :
              Copied(b, to, data, from, l)[i] =
                IF to <= i /\ i <= to + l - 1 THEN data[from + i - to + 1] ELSE b[i]
<1>1. \A i \in 0..(Size - 1) : to <= i /\ i <= to + l - 1 => from + i - to + 1 \in 1..Len(data)
  BY SizeAssumption
<1>2. \A i \in 0..(Size - 1) : i \in to..(to + l - 1) <=> to <= i /\ i <= to + l - 1
  BY SizeAssumption
<1> QED BY <1>1, <1>2 DEF Copied

\* write() takes what there is room for and puts it behind what is there, over the
\* end of the buffer too; nothing else of the buffer changes.
LEMMA StoredSound ==
  ASSUME RingInv, NEW data \in Seq(Byte)
  PROVE  /\ Stored(data).bytes = Least(Len(data), Size - Len(queue))
         /\ Stored(data).buffer \in [0..(Size - 1) -> Byte]
         /\ \A k \in 1..Stored(data).bytes : Stored(data).buffer[At(write + k - 1)] = data[k]
         /\ \A i \in 0..(Size - 1) :
              (\A k \in 1..Stored(data).bytes : At(write + k - 1) # i)
                => Stored(data).buffer[i] = buffer[i]
<1> DEFINE w == Offset(write)
           o == Offset(read)
           n == Least(Len(data), Size - Len(queue))
           l == Size - w
<1>1. /\ Size \in Nat \ {0} /\ read \in Nat /\ read < 2 * Size
      /\ write \in Nat /\ write < 2 * Size
      /\ Len(queue) \in Nat /\ Len(queue) <= Size /\ Len(data) \in Nat
      /\ Len(queue) = (IF read <= write THEN write - read ELSE write - read + 2 * Size)
  BY Linear DEF Between
<1>2. /\ o = (IF read < Size THEN read ELSE read - Size)
      /\ Page(read) = (IF read < Size THEN 0 ELSE 1)
      /\ w = (IF write < Size THEN write ELSE write - Size)
      /\ Page(write) = (IF write < Size THEN 0 ELSE 1)
  BY Linear
<1>3. n \in Nat /\ n <= Len(data) /\ n <= Size - Len(queue)
      /\ (n = Len(data) \/ n = Size - Len(queue))
  <2>1. Len(data) \in Nat /\ Size - Len(queue) \in Nat
    BY <1>1
  <2> QED BY <2>1 DEF Least
<1>4. n = Least(Len(data), Size - Len(queue)) /\ l = Size - w
  OBVIOUS
<1>5. Stored(data) =
        LET l2 == Least(Len(data) - l, o)
            bytes == Least(Len(data), o - w)
        IN IF Page(write) # Page(read)
           THEN [bytes |-> bytes, buffer |-> Copied(buffer, w, data, 0, bytes)]
           ELSE IF Len(data) <= l
           THEN [bytes |-> Len(data), buffer |-> Copied(buffer, w, data, 0, Len(data))]
           ELSE [bytes |-> l + l2, buffer |-> Copied(Copied(buffer, w, data, 0, l), 0, data, l, l2)]
  BY DEF Stored
<1>6. buffer \in [0..(Size - 1) -> Byte]
  BY DEF RingInv, RingTyped
<1> HIDE DEF n, l, o, w
<1>7. o \in Nat /\ o < Size /\ w \in Nat /\ w < Size /\ l \in Nat /\ 1 <= l /\ l <= Size
  BY <1>1, <1>2, <1>4
\* In one piece.
<1>8. ASSUME Stored(data) = [bytes |-> n, buffer |-> Copied(buffer, w, data, 0, n)], n <= l
      PROVE  /\ Stored(data).bytes = n
             /\ Stored(data).buffer \in [0..(Size - 1) -> Byte]
             /\ \A k \in 1..n : Stored(data).buffer[At(write + k - 1)] = data[k]
             /\ \A i \in 0..(Size - 1) :
                  (\A k \in 1..n : At(write + k - 1) # i) => Stored(data).buffer[i] = buffer[i]
  <2> DEFINE b == Copied(buffer, w, data, 0, n)
  <2>1. w \in Nat /\ n \in Nat /\ 0 \in Nat /\ 0 + n <= Len(data)
    BY <1>3, <1>7
  <2>2. /\ b \in [0..(Size - 1) -> Byte]
        /\ \A i \in 0..(Size - 1) :
             b[i] = IF w <= i /\ i <= w + n - 1 THEN data[0 + i - w + 1] ELSE buffer[i]
    BY CopiedType, <2>1, <1>1, <1>6
  <2> HIDE DEF b
  <2>3. ASSUME NEW k \in 1..n
        PROVE  b[At(write + k - 1)] = data[k]
    <3>1. k \in Nat /\ 1 <= k /\ k <= n
      BY <1>3
    <3>2. At(write + k - 1) = w + k - 1
      BY <3>1, <1>1, <1>2, <1>3, <1>4, <1>7, <1>8 DEF At
    <3>3. /\ w + k - 1 \in 0..(Size - 1) /\ w <= w + k - 1 /\ w + k - 1 <= w + n - 1
          /\ 0 + (w + k - 1) - w + 1 = k
      BY <3>1, <1>1, <1>3, <1>4, <1>7, <1>8
    <3> QED BY <3>2, <3>3, <2>2
  <2>4. ASSUME NEW i \in 0..(Size - 1), \A k \in 1..n : At(write + k - 1) # i
        PROVE  b[i] = buffer[i]
    <3>1. ~(w <= i /\ i <= w + n - 1)
      <4> SUFFICES ASSUME w <= i, i <= w + n - 1 PROVE FALSE
        OBVIOUS
      <4>1. i - w + 1 \in 1..n
        BY <1>3, <1>7
      <4>2. At(write + (i - w + 1) - 1) = i
        BY <1>1, <1>2, <1>7 DEF At
      <4> QED BY <4>1, <4>2, <2>4
    <3> QED BY <3>1, <2>2
  <2>5. Stored(data).bytes = n /\ Stored(data).buffer = b
    BY <1>8 DEF b
  <2> QED BY <2>2, <2>3, <2>4, <2>5
<1>9. CASE Page(write) # Page(read)
  <2>1. o - w = Size - Len(queue) /\ Size - Len(queue) <= l
    BY <1>1, <1>2, <1>4, <1>9
  <2>2. Stored(data) = [bytes |-> n, buffer |-> Copied(buffer, w, data, 0, n)]
    BY <2>1, <1>4, <1>5, <1>9
  <2>3. n <= l
    BY <2>1, <1>3, <1>1, <1>7
  <2> QED BY <2>2, <2>3, <1>4, <1>8
<1>10. CASE Page(write) = Page(read) /\ Len(data) <= l
  <2>1. Len(data) = n
    BY <1>1, <1>2, <1>3, <1>4, <1>10
  <2>2. Stored(data) = [bytes |-> n, buffer |-> Copied(buffer, w, data, 0, n)]
    BY <2>1, <1>5, <1>10
  <2> QED BY <2>1, <2>2, <1>4, <1>8, <1>10
\* In two pieces.
<1>11. CASE Page(write) = Page(read) /\ ~(Len(data) <= l)
  <2> DEFINE l2 == Least(Len(data) - l, o)
             b1 == Copied(buffer, w, data, 0, l)
             b2 == Copied(b1, 0, data, l, l2)
  <2>1. /\ l2 \in Nat /\ l2 <= o /\ l2 <= Len(data) - l
        /\ (l2 = o \/ l2 = Len(data) - l)
    BY <1>1, <1>7, <1>11 DEF Least
  <2>2. Stored(data) = [bytes |-> l + l2, buffer |-> b2]
    BY <1>5, <1>11
  <2> HIDE DEF l2
  <2>3. l + l2 = n /\ l2 <= w
    BY <2>1, <1>1, <1>2, <1>3, <1>4, <1>7, <1>11
  <2>4. /\ b1 \in [0..(Size - 1) -> Byte]
        /\ \A i \in 0..(Size - 1) :
             b1[i] = IF w <= i /\ i <= w + l - 1 THEN data[0 + i - w + 1] ELSE buffer[i]
    <3>1. w \in Nat /\ l \in Nat /\ 0 \in Nat /\ 0 + l <= Len(data)
      BY <1>7, <1>1, <1>11
    <3> QED BY CopiedType, <3>1, <1>1, <1>6
  <2> HIDE DEF b1
  <2>5. /\ b2 \in [0..(Size - 1) -> Byte]
        /\ \A i \in 0..(Size - 1) :
             b2[i] = IF 0 <= i /\ i <= 0 + l2 - 1 THEN data[l + i - 0 + 1] ELSE b1[i]
    <3>1. l \in Nat /\ l2 \in Nat /\ 0 \in Nat /\ l + l2 <= Len(data)
      BY <1>7, <1>1, <2>1
    <3>2. b1 \in [0..(Size - 1) -> Byte]
      BY <2>4
    <3> QED BY CopiedType, <3>1, <3>2, <1>1
  <2> HIDE DEF b2
  <2>6. ASSUME NEW k \in 1..n
        PROVE  b2[At(write + k - 1)] = data[k]
    <3>0. k \in Nat /\ 1 <= k /\ k <= n
      BY <1>3
    <3>1. CASE k <= l
      <4>1. At(write + k - 1) = w + k - 1
        BY <3>0, <3>1, <1>1, <1>2, <1>4, <1>7 DEF At
      <4>2. /\ w + k - 1 \in 0..(Size - 1) /\ w <= w + k - 1 /\ w + k - 1 <= w + l - 1
            /\ ~(w + k - 1 <= 0 + l2 - 1) /\ 0 + (w + k - 1) - w + 1 = k
        BY <3>0, <3>1, <2>1, <2>3, <1>1, <1>4, <1>7
      <4>3. b2[w + k - 1] = b1[w + k - 1]
        BY <4>2, <2>5
      <4>4. b1[w + k - 1] = data[0 + (w + k - 1) - w + 1]
        BY <4>2, <2>4
      <4> QED BY <4>1, <4>2, <4>3, <4>4
    <3>2. CASE ~(k <= l)
      <4>1. At(write + k - 1) = k - l - 1
        BY <3>0, <3>2, <1>1, <1>2, <1>3, <1>4, <1>7, <2>1, <2>3 DEF At
      <4>2. /\ k - l - 1 \in 0..(Size - 1) /\ 0 <= k - l - 1 /\ k - l - 1 <= 0 + l2 - 1
            /\ l + (k - l - 1) - 0 + 1 = k
        BY <3>0, <3>2, <2>1, <2>3, <1>1, <1>7
      <4>3. b2[k - l - 1] = data[l + (k - l - 1) - 0 + 1]
        BY <4>2, <2>5
      <4> QED BY <4>1, <4>2, <4>3
    <3> QED BY <3>1, <3>2
  <2>7. ASSUME NEW i \in 0..(Size - 1), \A k \in 1..n : At(write + k - 1) # i
        PROVE  b2[i] = buffer[i]
    <3>1. ~(w <= i /\ i <= w + l - 1)
      <4> SUFFICES ASSUME w <= i, i <= w + l - 1 PROVE FALSE
        OBVIOUS
      <4>1. i - w + 1 \in 1..n
        BY <1>3, <1>7, <2>1, <2>3
      <4>2. At(write + (i - w + 1) - 1) = i
        BY <1>1, <1>2, <1>7 DEF At
      <4> QED BY <4>1, <4>2, <2>7
    <3>2. ~(0 <= i /\ i <= 0 + l2 - 1)
      <4> SUFFICES ASSUME i <= l2 - 1 PROVE FALSE
        BY <2>1
      <4>1. l + i + 1 \in 1..n
        BY <1>3, <1>7, <2>1, <2>3
      <4>2. At(write + (l + i + 1) - 1) = i
        BY <1>1, <1>2, <1>4, <1>7 DEF At
      <4> QED BY <4>1, <4>2, <2>7
    <3>3. b2[i] = b1[i]
      BY <3>2, <2>5
    <3> QED BY <3>1, <3>3, <2>4
  <2>8. Stored(data).bytes = n /\ Stored(data).buffer = b2
    BY <2>2, <2>3
  <2> QED BY <2>5, <2>6, <2>7, <2>8, <1>4
<1> QED BY <1>9, <1>10, <1>11

\* A write puts what it takes behind the queue and touches nothing of it.
LEMMA WriteHolds ==
  ASSUME RingInv, NEW data \in Seq(Byte), Write(data)
  PROVE  RingInv'
<1> DEFINE n == Stored(data).bytes
           b == Stored(data).buffer
<1>1. /\ Size \in Nat \ {0} /\ read \in Nat /\ read < 2 * Size
      /\ write \in Nat /\ write < 2 * Size
      /\ Len(queue) \in Nat /\ Len(queue) <= Size /\ Len(data) \in Nat
      /\ Len(queue) = (IF read <= write THEN write - read ELSE write - read + 2 * Size)
  BY Linear DEF Between
<1>2. n = Least(Len(data), Size - Len(queue)) /\ b \in [0..(Size - 1) -> Byte]
  BY StoredSound
<1>3. /\ \A k \in 1..n : b[At(write + k - 1)] = data[k]
      /\ \A i \in 0..(Size - 1) : (\A k \in 1..n : At(write + k - 1) # i) => b[i] = buffer[i]
  BY StoredSound
<1>4. /\ buffer' = b /\ write' = (write + n) % (2 * Size)
      /\ queue' = queue \o SubSeq(data, 1, n) /\ read' = read
  BY DEF Write, EndWrite
<1> HIDE DEF n, b
<1>5. n \in Nat /\ n <= Len(data) /\ n <= Size - Len(queue)
  <2>1. Len(data) \in Nat /\ Size - Len(queue) \in Nat
    BY <1>1
  <2> QED BY <2>1, <1>2 DEF Least
<1>6. write' = (IF write + n < 2 * Size THEN write + n ELSE write + n - 2 * Size)
      /\ write' \in Positions
  <2>1. write \in Positions /\ n \in 0..Size
    BY <1>1, <1>5 DEF RingInv, RingTyped
  <2>2. (write + n) % (2 * Size) = Wrap(write + n) /\ Wrap(write + n) \in Positions
    BY <2>1, Moved
  <2> QED BY <2>2, <1>1, <1>4, <1>5 DEF Wrap
<1>7. /\ SubSeq(data, 1, n) \in Seq(Byte) /\ Len(SubSeq(data, 1, n)) = n
      /\ \A k \in 1..n : SubSeq(data, 1, n)[k] = data[k]
  BY <1>1, <1>5
<1>8. /\ queue' \in Seq(Byte) /\ Len(queue') = Len(queue) + n
      /\ \A k \in 1..Len(queue) : queue'[k] = queue[k]
      /\ \A k \in 1..n : queue'[Len(queue) + k] = data[k]
  <2>1. queue \in Seq(Byte)
    BY DEF RingInv, RingTyped
  <2> DEFINE d == SubSeq(data, 1, n)
  <2> HIDE DEF d
  <2>2. d \in Seq(Byte) /\ Len(d) = n /\ \A k \in 1..n : d[k] = data[k]
    BY <1>7 DEF d
  <2>3. /\ queue \o d \in Seq(Byte) /\ Len(queue \o d) = Len(queue) + n
        /\ \A i \in 1..(Len(queue) + n) :
             (queue \o d)[i] = IF i <= Len(queue) THEN queue[i] ELSE d[i - Len(queue)]
    BY <2>1, <2>2, ConcatProperties
  <2>4. queue' = queue \o d
    BY <1>4 DEF d
  <2>5. ASSUME NEW k \in 1..n
        PROVE  queue'[Len(queue) + k] = data[k]
    <3>1. /\ Len(queue) + k \in 1..(Len(queue) + n) /\ ~(Len(queue) + k <= Len(queue))
          /\ Len(queue) + k - Len(queue) = k
      BY <1>1, <1>5
    <3> QED BY <3>1, <2>2, <2>3, <2>4
  <2>6. ASSUME NEW k \in 1..Len(queue)
        PROVE  queue'[k] = queue[k]
    <3>1. k \in 1..(Len(queue) + n) /\ k <= Len(queue)
      BY <1>1, <1>5
    <3> QED BY <3>1, <2>3, <2>4
  <2> QED BY <2>3, <2>4, <2>5, <2>6
<1>9. RingTyped'
  BY <1>2, <1>4, <1>6, <1>8 DEF RingTyped, RingInv
<1>10. Between' = Len(queue') /\ Len(queue') <= Size
  <2>1. Between' = IF read <= write' THEN write' - read ELSE write' - read + 2 * Size
    BY <1>4 DEF Between
  <2>2. write' = (IF write + n < 2 * Size THEN write + n ELSE write + n - 2 * Size)
    BY <1>6
  <2>3. Len(queue') = Len(queue) + n
    BY <1>8
  <2>4. CASE read <= write
    <3>1. Len(queue) = write - read /\ write + n <= Size + read
      BY <2>4, <1>1, <1>5
    <3>2. CASE write + n < 2 * Size
      BY <3>1, <3>2, <2>1, <2>2, <2>3, <2>4, <1>1, <1>5
    <3>3. CASE ~(write + n < 2 * Size)
      <4>1. write' = write + n - 2 * Size
        BY <3>3, <2>2
      <4>2. ~(read <= write')
        BY <4>1, <3>1, <1>1, <1>5
      <4> QED BY <4>1, <4>2, <3>1, <2>1, <2>3, <1>1, <1>5
    <3> QED BY <3>2, <3>3
  <2>5. CASE ~(read <= write)
    BY <2>1, <2>2, <2>3, <2>5, <1>1, <1>5
  <2> QED BY <2>4, <2>5
<1>11. ASSUME NEW k \in 1..Len(queue')
       PROVE  queue'[k] = buffer'[At(read + k - 1)]
  <2>0. k \in Nat /\ 1 <= k /\ k <= Len(queue) + n
    BY <1>1, <1>5, <1>8
  <2>1. CASE k <= Len(queue)
    <3>1. queue'[k] = buffer[At(read + k - 1)]
      <4>1. k \in 1..Len(queue)
        BY <2>0, <2>1, <1>1
      <4> QED BY <4>1, <1>8 DEF RingInv, RingHolds
    <3>2. At(read + k - 1) \in 0..(Size - 1)
      BY <2>0, <2>1, <1>1 DEF At
    <3>3. ASSUME NEW j \in 1..n
          PROVE  At(write + j - 1) # At(read + k - 1)
      <4>1. j \in Nat /\ 1 <= j /\ j <= n
        BY <1>5
      <4> QED BY <4>1, <2>0, <2>1, <1>1, <1>5 DEF At
    <3>4. b[At(read + k - 1)] = buffer[At(read + k - 1)]
      BY <3>2, <3>3, <1>3
    <3> QED BY <3>1, <3>4, <1>4
  <2>2. CASE ~(k <= Len(queue))
    <3>1. k - Len(queue) \in 1..n /\ Len(queue) + (k - Len(queue)) = k
      BY <2>0, <2>2, <1>1, <1>5
    <3>2. queue'[k] = data[k - Len(queue)]
      BY <3>1, <1>8
    <3>3. b[At(write + (k - Len(queue)) - 1)] = data[k - Len(queue)]
      BY <3>1, <1>3
    <3>4. At(write + (k - Len(queue)) - 1) = At(read + k - 1)
      BY <2>0, <2>2, <1>1, <1>5 DEF At
    <3> QED BY <3>2, <3>3, <3>4, <1>4
  <2> QED BY <2>1, <2>2
<1> QED BY <1>4, <1>9, <1>10, <1>11 DEF RingInv, RingHolds, At

\* A read takes the front of the queue.
LEMMA ReadHolds ==
  ASSUME RingInv, NEW bytes \in 1..(Size + 1), Read(bytes)
  PROVE  RingInv'
<1> DEFINE l == Len(Peek(0, bytes))
<1>1. /\ Size \in Nat \ {0} /\ read \in Nat /\ read < 2 * Size
      /\ write \in Nat /\ write < 2 * Size
      /\ Len(queue) \in Nat /\ Len(queue) <= Size
      /\ Len(queue) = (IF read <= write THEN write - read ELSE write - read + 2 * Size)
      /\ queue \in Seq(Byte)
  BY Linear DEF Between, RingInv, RingTyped
<1>2. Peek(0, bytes) = SubSeq(queue, 0 + 1, Least(0 + bytes, Len(queue)))
  <2>1. 0 \in 0..Len(queue) /\ bytes \in 0..(Size + 1)
    BY <1>1
  <2> QED BY <2>1, Peeked
<1>3. l \in Nat /\ l <= Len(queue)
  <2> DEFINE m == Least(0 + bytes, Len(queue))
  <2>1. m \in Nat /\ m <= Len(queue)
    BY <1>1 DEF Least
  <2> HIDE DEF m
  <2>2. Len(SubSeq(queue, 0 + 1, m)) = m
    BY <2>1, <1>1
  <2> QED BY <2>1, <2>2, <1>2 DEF m
<1>4. /\ read' = (read + l) % (2 * Size) /\ queue' = SubSeq(queue, l + 1, Len(queue))
      /\ write' = write /\ buffer' = buffer
  BY DEF Read, EndRead
<1> HIDE DEF l
<1>5. read' = (IF read + l < 2 * Size THEN read + l ELSE read + l - 2 * Size)
      /\ read' \in Positions
  <2>1. read \in Positions /\ l \in 0..Size
    BY <1>1, <1>3 DEF RingInv, RingTyped
  <2>2. (read + l) % (2 * Size) = Wrap(read + l) /\ Wrap(read + l) \in Positions
    BY <2>1, Moved
  <2> QED BY <2>2, <1>1, <1>3, <1>4 DEF Wrap
<1>6. /\ queue' \in Seq(Byte) /\ Len(queue') = Len(queue) - l
      /\ \A k \in 1..(Len(queue) - l) : queue'[k] = queue[l + k]
  BY <1>1, <1>3, <1>4
<1>7. RingTyped'
  BY <1>4, <1>5, <1>6 DEF RingTyped, RingInv
<1>8. Between' = Len(queue') /\ Len(queue') <= Size
  <2>1. ASSUME NEW n \in Nat, NEW r \in Nat, NEW w \in Nat, NEW k \in Nat, NEW s \in Nat,
               r < 2 * s, w < 2 * s, n <= s, k <= n,
               n = (IF r <= w THEN w - r ELSE w - r + 2 * s)
        PROVE  LET q == IF r + k < 2 * s THEN r + k ELSE r + k - 2 * s
               IN (IF q <= w THEN w - q ELSE w - q + 2 * s) = n - k
    BY <2>1
  <2>2. (IF read' <= write THEN write - read' ELSE write - read' + 2 * Size) = Len(queue) - l
    BY <2>1, <1>1, <1>3, <1>5
  <2>3. Between' = Len(queue) - l
    BY <2>2, <1>4 DEF Between
  <2> QED BY SMTT(30), <2>3, <1>1, <1>3, <1>6
<1>9. ASSUME NEW k \in 1..Len(queue')
      PROVE  queue'[k] = buffer'[At(read' + k - 1)]
  <2>1. k \in Nat /\ 1 <= k /\ k <= Len(queue) - l /\ l + k \in 1..Len(queue)
    BY <1>1, <1>3, <1>6
  <2>2. queue'[k] = buffer[At(read + (l + k) - 1)]
    BY <2>1, <1>6 DEF RingInv, RingHolds
  <2>3. At(read + (l + k) - 1) = At(read' + k - 1)
    BY <2>1, <1>1, <1>3, <1>5 DEF At
  <2> QED BY <2>2, <2>3, <1>4
<1> QED BY <1>7, <1>8, <1>9 DEF RingInv, RingHolds, At

-----------------------------------------------------------------------------
\* The ring is the bounded queue that its users take it for, for every size, any
\* bytes and any order of reads and writes: Fifo.
THEOREM RingIsQueue == RingSpec => []Fifo
<1>1. RingInit => RingInv
  <2> SUFFICES ASSUME RingInit PROVE RingInv
    OBVIOUS
  <2>1. read = 0 /\ write = 0 /\ queue = <<>> /\ buffer \in [0..(Size - 1) -> Byte]
    BY DEF RingInit
  <2>2. RingTyped
    BY <2>1, SizeAssumption DEF RingTyped, Positions
  <2>3. RingHolds
    BY <2>1, SizeAssumption DEF RingHolds, Between
  <2> QED BY <2>2, <2>3 DEF RingInv
<1>2. RingInv /\ [RingNext]_ringVars => RingInv'
  <2> SUFFICES ASSUME RingInv, [RingNext]_ringVars PROVE RingInv'
    OBVIOUS
  <2>1. ASSUME NEW data \in Texts, Write(data) PROVE RingInv'
    BY <2>1, WriteHolds, TextsAssumption
  <2>2. ASSUME NEW bytes \in 1..(Size + 1), Read(bytes) PROVE RingInv'
    BY <2>2, ReadHolds
  <2>3. CASE UNCHANGED ringVars
    BY <2>3 DEF ringVars, RingInv, RingTyped, RingHolds, Between, Positions
  <2> QED BY <2>1, <2>2, <2>3 DEF RingNext
<1>3. RingInv => Fifo
  BY Counted, Peeked DEF Fifo
<1> QED BY <1>1, <1>2, <1>3, PTL DEF RingSpec
=============================================================================

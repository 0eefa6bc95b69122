------------------------ MODULE RulesUpdate_proofs ------------------------
(***************************************************************************)
(* The download of the rules, for any number of updates, any replies and    *)
(* any of the faults RulesAssumption names (a refused https connection is   *)
(* not one of them): Config's pointer and the requests' states agree, every *)
(* request is woken by one thing, and the rules file is always whole.       *)
(***************************************************************************)
EXTENDS RulesUpdate, FiniteSetTheorems, SequenceTheorems, TLAPS

Token == {"part", "header", "byte", "chunk", "tail", "last", "hello"}

Names == {"length", "chunked", "unframed", "missing"}

\* The states in which the socket is up.
Talking ==
  {"SEND_HEADER", "RECEIVE_HEADER", "RECEIVE_CONTENT", "CHUNK_LENGTH", "CHUNK_DATA",
   "CHUNK_TAIL", "COMPLETED"}

Gone == {"NONE", "DELETED"}

Wanted(r) == r.events \cap {"IN", "OUT"}

\* What an object holds in each state.
Holds(r) ==
  /\ r.arrived <= Len(Stream(r)) /\ r.got <= r.size
  /\ r.sock \in {"none", "connecting"} => r.arrived = 0 /\ ~r.fin
  /\ r.state \in Gone \cup {"PREPARING", "RESOLVING"} => r.sock = "none" /\ r.events = {}
  /\ r.state \in Gone => ~r.timer
  /\ r.state = "RESOLVING" <=> r.lookup # "off"
  /\ r.state = "CONNECTING" => r.sock # "none"
  /\ r.state \in Talking => r.sock \in {"up", "reset"} /\ (r.https => r.ready)
  /\ r.state = "CLOSED" => r.sock # "none"
  /\ r.events \in {{}, {"RDHUP"}, {"IN", "RDHUP"}, {"OUT", "RDHUP"}}

Stuck(r) ==
  r.state = "CHUNK_LENGTH" /\ ~r.timer /\ Wanted(r) = {} /\ r.read < r.arrived

HungUp(r) == r.state = "CONNECTING" /\ r.sock = "refused" /\ r.events = {"RDHUP"}

\* What it waits for.
Waits(r) ==
  \/ r.state \in Gone
  \/ r.timer /\ Wanted(r) = {} /\ r.state \notin {"RESOLVING", "CONNECTING"}
  \/ ~r.timer /\ r.state = "RESOLVING"
  \/ /\ ~r.timer /\ Wanted(r) # {} /\ r.state \in Talking \cup {"CONNECTING"}
     /\ r.state = "CONNECTING" =>
          IF "IN" \in r.events THEN r.sock \in {"up", "reset"}
          ELSE r.sock \in {"connecting", "accepted", "refused"}
  \/ ~r.timer /\ HungUp(r)
  \/ Stuck(r)

Good(r) == r \in Request /\ Holds(r) /\ Waits(r)

\* An object that a callback has come for: nothing else will wake it.
Woken(r) ==
  /\ r \in Request /\ Holds(r)
  /\ ~r.timer /\ Wanted(r) = {}
  /\ r.state = "CONNECTING" => r.sock = "up" /\ (r.https => r.ready)

Going(s) == s \notin {"NONE", "CLOSED", "DELETED"}

\* What poll reported is still so when it is served.
Fresh(i) ==
  /\ rev[<<i, "timer">>] # {} => req[i].timer
  /\ rev[<<i, "lookup">>] # {} => req[i].lookup \in {"found", "failed"}
  /\ rev[<<i, "sock">>] # {} => req[i].sock \notin {"none", "connecting"}
  /\ "IN" \in rev[<<i, "sock">>] => "IN" \in req[i].events
  /\ "OUT" \in rev[<<i, "sock">>] => "OUT" \in req[i].events

ListenerOK ==
  /\ handle \in 0..MaxUpdates
  /\ open \in BOOLEAN
  /\ tmp \in Seq(Updates)
  /\ rules \in [of : AllReplies \cup {"-"}, data : Seq(Updates)]

IInv ==
  /\ ListenerOK
  /\ req \in [Updates -> Request]
  /\ rev \in [Slots -> SUBSET {"IN", "OUT", "HUP"}]
  /\ \A i \in Updates : Holds(req[i]) /\ Waits(req[i]) /\ Fresh(i)
  /\ HandleAlive

-----------------------------------------------------------------------------
(* What a request reads.                                                    *)

\* A reply is a sequence of tokens.
LEMMA TokensSeq == \A name \in Names : ReplyTokens(name) \in Seq(Token)
<1>1. <<"part", "header", "byte", "byte">> \in Seq(Token)
  BY DEF Token
<1>2. <<"part", "header", "part", "chunk", "byte", "part", "tail",
        "part", "last", "part", "tail">> \in Seq(Token)
  BY DEF Token
<1>3. <<"part", "header", "byte">> \in Seq(Token)
  BY DEF Token
<1>4. <<"part", "header">> \in Seq(Token)
  BY DEF Token
<1>5. /\ ReplyTokens("length") \in Seq(Token) /\ ReplyTokens("chunked") \in Seq(Token)
      /\ ReplyTokens("unframed") \in Seq(Token) /\ ReplyTokens("missing") \in Seq(Token)
  BY <1>1, <1>2, <1>3, <1>4 DEF ReplyTokens
<1> QED BY <1>5 DEF Names

\* The replies a server may give are among the four.
LEMMA RepliesNamed == AllReplies \subseteq Names
<1> SUFFICES ASSUME NEW i \in Updates, NEW name \in Replies[i] PROVE name \in Names
  BY DEF AllReplies
<1>1. Replies[i] \in SUBSET Names
  BY RulesAssumption DEF Names, Updates
<1> QED BY <1>1

\* What a request reads is a sequence of tokens.
LEMMA StreamSeq == \A r \in Request : Stream(r) \in Seq(Token)
<1> SUFFICES ASSUME NEW r \in Request PROVE Stream(r) \in Seq(Token)
  OBVIOUS
<1> DEFINE hello == IF r.https THEN <<"part", "hello">> ELSE <<>>
           reply == IF r.reply = "-" THEN <<>> ELSE ReplyTokens(r.reply)
<1>1. hello \in Seq(Token)
  <2>1. <<"part", "hello">> \in Seq(Token) /\ <<>> \in Seq(Token)
    BY DEF Token
  <2> QED BY <2>1
<1>2. r.reply \in Names \cup {"-"}
  BY RepliesNamed DEF Request
<1>3. reply \in Seq(Token)
  <2>1. CASE r.reply = "-"
    BY <2>1
  <2>2. CASE r.reply # "-"
    BY <2>2, <1>2, TokensSeq
  <2> QED BY <2>1, <2>2
<1> HIDE DEF hello, reply
<1>4. hello \o reply \in Seq(Token)
  BY <1>1, <1>3
<1> QED BY <1>4 DEF Stream, hello, reply

\* What has arrived and is unread has a length, and none when all was read.
LEMMA UnreadLen ==
  ASSUME NEW r \in Request, r.arrived <= Len(Stream(r))
  PROVE  Len(Unread(r)) \in Nat /\ (Len(Unread(r)) = 1 => r.read < r.arrived)
<1>1. r.arrived \in Nat /\ r.read \in Nat
  BY DEF Request
<1>2. CASE r.read < r.arrived
  <2>1. Unread(r) \in Seq(Token)
    BY <1>1, <1>2, StreamSeq DEF Unread
  <2> QED BY <2>1, <1>2
<1>3. CASE ~(r.read < r.arrived)
  <2>1. Unread(r) = <<>>
    BY <1>1, <1>3, SubSeqProperties, StreamSeq DEF Unread
  <2> QED BY <2>1
<1> QED BY <1>2, <1>3

\* The length a header names.
LEMMA BytesNat == \A name \in Names : Bytes(name) \in Nat
<1> SUFFICES ASSUME NEW name \in Names PROVE Bytes(name) \in Nat
  OBVIOUS
<1> DEFINE t == ReplyTokens(name)
<1>1. t \in Seq(Token)
  BY TokensSeq
<1> HIDE DEF t
<1>2. Len(t) \in Nat /\ DOMAIN t = 1..Len(t)
  BY <1>1
<1>3. IsFiniteSet(DOMAIN t)
  BY <1>2, FS_Interval
<1>4. IsFiniteSet({k \in DOMAIN t : t[k] = "byte"})
  BY <1>3, FS_Subset
<1> QED BY <1>4, FS_CardinalityType DEF Bytes, t

-----------------------------------------------------------------------------
(* A request that a callback has come for.                                  *)

\* A stream is that of the address and the reply.
LEMMA SameStream ==
  ASSUME NEW r, NEW q, q.https = r.https, q.reply = r.reply
  PROVE  Stream(q) = Stream(r)
BY DEF Stream

\* What of an object decides whether it holds what it should in a state s.
Same(q, r) ==
  /\ q.https = r.https /\ q.ready = r.ready /\ q.reply = r.reply /\ q.arrived = r.arrived
  /\ q.sock = r.sock /\ q.lookup = r.lookup /\ q.fin = r.fin

\* Going on at once, or closing: the timer is what wakes it next.
LEMMA TimerNext ==
  ASSUME NEW r, Woken(r), r.state \in Talking \cup {"CONNECTING"},
         NEW q \in Request, Same(q, r), q.events = r.events, q.timer,
         q.state \in Talking \cup {"CLOSED"}, q.got <= q.size
  PROVE  Good(q)
<1>1. Stream(q) = Stream(r)
  BY SameStream DEF Same
<1>2. Wanted(q) = {}
  BY DEF Woken, Wanted
<1>3. Holds(q)
  BY <1>1 DEF Same, Woken, Holds, Talking, Gone, Request
<1>4. Waits(q)
  BY <1>2 DEF Waits, Talking
<1> QED BY <1>3, <1>4 DEF Good

\* Waiting for the socket.
LEMMA SocketNext ==
  ASSUME NEW r, Woken(r), r.state \in Talking \cup {"CONNECTING"},
         NEW q \in Request, Same(q, r), ~q.timer,
         \/ q.events = {"IN", "RDHUP"}
         \/ q.events = {"OUT", "RDHUP"} /\ q.state # "CONNECTING",
         q.state \in Talking \/ q.state = r.state, q.got <= q.size
  PROVE  Good(q)
<1>1. Stream(q) = Stream(r)
  BY SameStream DEF Same
<1>2. Wanted(q) # {}
  BY DEF Wanted
<1>3. Holds(q)
  BY <1>1 DEF Same, Woken, Holds, Talking, Gone, Request
<1>4. Waits(q)
  BY <1>2 DEF Waits, Talking, Same, Woken
<1> QED BY <1>3, <1>4 DEF Good

\* A request that is to be woken by its timer, in a state (_goto).
LEMMA GotoIs ==
  ASSUME NEW r \in Request, NEW s \in States
  PROVE  /\ Goto(r, s) \in Request /\ Same(Goto(r, s), r) /\ Goto(r, s).timer
         /\ Goto(r, s).state = s /\ Goto(r, s).events = r.events
         /\ Goto(r, s).got = r.got /\ Goto(r, s).size = r.size
BY DEF Goto, SetTimeout, Request, Same

\* A request that is to be woken by its socket.
LEMMA WaitIs ==
  ASSUME NEW r \in Request, NEW q \in {WaitToRecv(r), WaitToSend(r)}
  PROVE  /\ q \in Request /\ Same(q, r) /\ q.timer = r.timer /\ q.state = r.state
         /\ q = WaitToRecv(r) => q.events = {"IN", "RDHUP"}
         /\ q = WaitToSend(r) => q.events = {"OUT", "RDHUP"}
         /\ q.got = r.got /\ q.size = r.size /\ q.read = r.read
<1>1. ASSUME NEW e \in {{"IN", "RDHUP"}, {"OUT", "RDHUP"}}
      PROVE  LET x == [r EXCEPT !.events = e]
             IN /\ x \in Request /\ Same(x, r) /\ x.timer = r.timer /\ x.state = r.state
                /\ x.events = e /\ x.got = r.got /\ x.size = r.size /\ x.read = r.read
  BY DEF Request, Same
<1> QED BY <1>1 DEF WaitToRecv, WaitToSend

\* An object that is not born yet, and one that is deleted, hold and await nothing.
LEMMA Inert ==
  /\ Good(Unborn) /\ Unborn.state = "NONE"
  /\ Good(Deleted) /\ Deleted.state = "DELETED"
<1>1. /\ Unborn \in Request /\ Deleted \in Request
      /\ Unborn.state = "NONE" /\ Deleted.state = "DELETED"
      /\ \A r \in {Unborn, Deleted} :
           /\ r.timer = FALSE /\ r.lookup = "off" /\ r.sock = "none" /\ r.events = {}
           /\ r.fin = FALSE /\ r.arrived = 0 /\ r.got = 0 /\ r.size = 0
  <2>1. /\ Unborn \in Request /\ Unborn.state = "NONE"
        /\ Unborn.timer = FALSE /\ Unborn.lookup = "off" /\ Unborn.sock = "none"
        /\ Unborn.events = {} /\ Unborn.fin = FALSE /\ Unborn.arrived = 0 /\ Unborn.got = 0 /\ Unborn.size = 0
    BY DEF Unborn, Request, States
  <2>2. /\ Deleted \in Request /\ Deleted.state = "DELETED"
        /\ Deleted.timer = FALSE /\ Deleted.lookup = "off" /\ Deleted.sock = "none"
        /\ Deleted.events = {} /\ Deleted.fin = FALSE /\ Deleted.arrived = 0 /\ Deleted.got = 0 /\ Deleted.size = 0
    BY <2>1 DEF Deleted, Request, States
  <2> QED BY <2>1, <2>2
<1>2. \A r \in {Unborn, Deleted} : Len(Stream(r)) \in Nat
  BY <1>1, StreamSeq
<1>3. \A r \in {Unborn, Deleted} : Holds(r) /\ Waits(r)
  BY <1>1, <1>2 DEF Holds, Waits, Gone, Talking
<1> QED BY <1>1, <1>3 DEF Good

\* What a callback makes of an object, and of Config's pointer with it.
Becomes(i, r, q) ==
  /\ req' = [req EXCEPT ![i] = q]
  /\ Good(q)
  /\ q.state # "DELETED" /\ r.sock \notin {"none", "connecting"} =>
       q.sock \notin {"none", "connecting"}
  /\ ListenerOK'
  /\ handle' = handle \/ (handle = i /\ handle' = 0)
  /\ handle' = i <=> Going(q.state)

\* The number of updates is one, and 0 is no update.
LEMMA MaxNat == MaxUpdates \in Nat /\ 0 \in 0..MaxUpdates /\ 0 \notin Updates
<1>1. MaxUpdates \in Nat \ {0}
  BY RulesAssumption
<1> QED BY <1>1 DEF Updates

\* Closing the file and giving up the pointer, which is there.
LEMMA Forgets ==
  ASSUME ListenerOK, NEW i \in Updates, handle = i, Forget
  PROVE  handle' = 0 /\ handle' # i /\ open' = FALSE
BY MaxNat DEF Forget, Updates

\* _doHttp, whatever the state: what it leaves is good, and the listener knows of it.
LEMMA Does ==
  ASSUME ListenerOK, NEW i \in Updates, req[i] \in Request, NEW r, Woken(r),
         handle = i <=> Going(r.state), DoHttp(i, r)
  PROVE  \E q : Becomes(i, r, q)
<1>0. r \in Request /\ Holds(r)
  BY DEF Woken
<1> DEFINE n == Len(Unread(r))
<1>n. n \in Nat /\ (n = 1 => r.read < r.arrived)
  BY <1>0, UnreadLen DEF Holds
<1> HIDE DEF n
<1>1. CASE DoPreparing(i, r)
  <2> DEFINE s == [r EXCEPT !.state = "RESOLVING"]
             q == Lookup(s)
  <2>r. /\ s \in Request /\ s.state = "RESOLVING" /\ s.timer = r.timer
        /\ s.events = r.events /\ s.sock = r.sock /\ s.arrived = r.arrived
        /\ s.got = r.got /\ s.size = r.size /\ s.https = r.https /\ s.reply = r.reply
        /\ s.fin = r.fin
    BY <1>0 DEF Request, States
  <2>1. /\ q \in Request
        /\ q.state = "RESOLVING" /\ q.lookup = "running" /\ q.timer = r.timer
        /\ q.events = r.events /\ q.sock = r.sock /\ q.arrived = r.arrived
        /\ q.got = r.got /\ q.size = r.size /\ q.https = r.https /\ q.reply = r.reply
        /\ q.fin = r.fin
    <3> HIDE DEF s
    <3> QED BY <2>r DEF Lookup, Request
  <2>2. Put(i, q) /\ UNCHANGED listener /\ r.state = "PREPARING"
    BY <1>1 DEF DoPreparing
  <2> HIDE DEF q
  <2>3. Stream(q) = Stream(r)
    BY <2>1, SameStream
  <2>4. Good(q)
    BY <1>0, <2>1, <2>2, <2>3 DEF Good, Holds, Waits, Woken, Talking, Gone
  <2> QED BY <2>1, <2>2, <2>4 DEF Becomes, Put, listener, ListenerOK, Going
<1>2. CASE DoResolving(i, r)
  <2> DEFINE sock == IF r.lookup = "found" THEN "connecting" ELSE "refused"
             r0 == [r EXCEPT !.state = "CONNECTING"]
             r1 == [r0 EXCEPT !.lookup = "off"]
             s == [r1 EXCEPT !.sock = sock]
             q == WaitToSend(s)
  <2>2. Put(i, q) /\ UNCHANGED listener /\ r.state = "RESOLVING"
    BY <1>2 DEF DoResolving, Connect
  <2>s. sock \in {"connecting", "refused"}
    OBVIOUS
  <2> HIDE DEF sock
  <2>1. /\ q \in Request
        /\ q.state = "CONNECTING" /\ q.lookup = "off" /\ q.timer = r.timer
        /\ q.events = {"OUT", "RDHUP"} /\ q.sock \in {"connecting", "refused"}
        /\ q.arrived = r.arrived
        /\ q.got = r.got /\ q.size = r.size /\ q.https = r.https /\ q.reply = r.reply
        /\ q.fin = r.fin
    <3>1. /\ s \in Request /\ s.state = "CONNECTING" /\ s.lookup = "off" /\ s.timer = r.timer
          /\ s.sock = sock /\ s.arrived = r.arrived /\ s.fin = r.fin
          /\ s.got = r.got /\ s.size = r.size /\ s.https = r.https /\ s.reply = r.reply
      <4>1. /\ r1 \in Request /\ r1.state = "CONNECTING" /\ r1.lookup = "off"
            /\ r1.timer = r.timer /\ r1.arrived = r.arrived /\ r1.fin = r.fin
            /\ r1.got = r.got /\ r1.size = r.size /\ r1.https = r.https
            /\ r1.reply = r.reply
        <5>1. /\ r0 \in Request /\ r0.state = "CONNECTING"
              /\ r0.timer = r.timer /\ r0.arrived = r.arrived /\ r0.fin = r.fin
              /\ r0.got = r.got /\ r0.size = r.size /\ r0.https = r.https
              /\ r0.reply = r.reply
          BY <1>0 DEF Request, States
        <5> HIDE DEF r0
        <5> QED BY <5>1 DEF Request
      <4> HIDE DEF r1
      <4> QED BY <2>s, <4>1 DEF Request
    <3> HIDE DEF s
    <3> QED BY <2>s, <3>1 DEF WaitToSend, Request
  <2> HIDE DEF q
  <2>3. Stream(q) = Stream(r)
    BY <2>1, SameStream
  <2>4. r.sock = "none" /\ r.arrived = 0
    BY <1>0, <2>2 DEF Holds
  <2>5. Holds(q)
    BY <1>0, <2>1, <2>3, <2>4 DEF Holds, Talking, Gone
  <2>6. Waits(q)
    BY <2>1 DEF Waits, Wanted, Woken
  <2> QED BY <2>1, <2>2, <2>4, <2>5, <2>6 DEF Becomes, Good, Put, listener, ListenerOK, Going
<1>3. CASE DoConnecting(i, r)
  <2> DEFINE q == Goto(r, "SEND_HEADER")
  <2>1. /\ q \in Request /\ Same(q, r) /\ q.events = r.events /\ q.timer
        /\ q.state = "SEND_HEADER" /\ q.got = r.got /\ q.size = r.size
    BY <1>0, GotoIs DEF States
  <2>2. Put(i, q) /\ UNCHANGED listener /\ r.state = "CONNECTING"
    BY <1>3 DEF DoConnecting
  <2> HIDE DEF q
  <2>3. Holds(q)
    <3>1. Stream(q) = Stream(r)
      BY <2>1, SameStream DEF Same
    <3> QED BY <1>0, <2>1, <2>2, <3>1 DEF Woken, Holds, Same, Talking, Gone
  <2>4. Waits(q)
    BY <2>1 DEF Waits, Woken, Wanted
  <2> QED BY <2>1, <2>2, <2>3, <2>4 DEF Becomes, Good, Put, listener, ListenerOK, Going, Same
<1>4. CASE DoSendHeader(i, r)
  <2>1. r.state = "SEND_HEADER" /\ UNCHANGED listener
    BY <1>4 DEF DoSendHeader
  <2>2. CASE Put(i, WaitToRecv([r EXCEPT !.state = "RECEIVE_HEADER"]))
    <3> DEFINE q == WaitToRecv([r EXCEPT !.state = "RECEIVE_HEADER"])
    <3>1. /\ q \in Request /\ Same(q, r) /\ q.events = {"IN", "RDHUP"} /\ ~q.timer
          /\ q.state = "RECEIVE_HEADER" /\ q.got = r.got /\ q.size = r.size
      BY <1>0 DEF WaitToRecv, Request, States, Same, Woken
    <3> HIDE DEF q
    <3>2. Good(q)
      BY <1>0, <2>1, <3>1, SocketNext DEF Talking, Holds
    <3> QED BY <2>1, <2>2, <3>1, <3>2 DEF Becomes, Put, listener, ListenerOK, Going, Same, q
  <2>3. CASE Put(i, WaitToSend([r EXCEPT !.stalled = TRUE]))
    <3> DEFINE q == WaitToSend([r EXCEPT !.stalled = TRUE])
    <3>1. /\ q \in Request /\ Same(q, r) /\ q.events = {"OUT", "RDHUP"} /\ ~q.timer
          /\ q.state = "SEND_HEADER" /\ q.got = r.got /\ q.size = r.size
      BY <1>0, <2>1 DEF WaitToSend, Request, States, Same, Woken
    <3> HIDE DEF q
    <3>2. Good(q)
      BY <1>0, <2>1, <3>1, SocketNext DEF Talking, Holds
    <3> QED BY <2>1, <2>3, <3>1, <3>2 DEF Becomes, Put, listener, ListenerOK, Going, Same, q
  <2> QED BY <1>4, <2>2, <2>3 DEF DoSendHeader
<1>5. CASE DoReceiveHeader(i, r)
  <2> DEFINE base == IF r.https THEN 2 ELSE 0
             q == [Goto(r, AfterHeader(r)) EXCEPT
                     !.read = base + 2, !.got = 0,
                     !.size = IF r.reply = "length" THEN Bytes(r.reply) ELSE 0]
  <2>1. r.state = "RECEIVE_HEADER"
    BY <1>5 DEF DoReceiveHeader
  <2>2. ASSUME Put(i, WaitToRecv([r EXCEPT !.read = r.arrived])), UNCHANGED listener
        PROVE  \E x : Becomes(i, r, x)
    <3> DEFINE x == WaitToRecv([r EXCEPT !.read = r.arrived])
    <3>1. /\ x \in Request /\ Same(x, r) /\ x.events = {"IN", "RDHUP"} /\ ~x.timer
          /\ x.state = "RECEIVE_HEADER" /\ x.got = r.got /\ x.size = r.size
      BY <1>0, <2>1 DEF WaitToRecv, Request, Same, Woken
    <3> HIDE DEF x
    <3>2. Good(x)
      BY <1>0, <2>1, <3>1, SocketNext DEF Talking, Holds
    <3> QED BY <2>1, <2>2, <3>1, <3>2 DEF Becomes, Put, listener, ListenerOK, Going, Same, x
  <2>3. /\ q \in Request /\ Same(q, r) /\ q.events = r.events /\ q.timer
        /\ q.state \in Talking /\ q.got <= q.size
    <3>1. base + 2 \in Nat
      OBVIOUS
    <3>2. r.reply = "length" => Bytes(r.reply) \in Nat
      BY BytesNat DEF Names
    <3>3. ASSUME NEW k \in Nat, NEW m \in Nat
          PROVE  LET x == [Goto(r, AfterHeader(r)) EXCEPT !.read = k, !.got = 0, !.size = m]
                 IN /\ x \in Request /\ Same(x, r) /\ x.events = r.events /\ x.timer
                    /\ x.state \in Talking /\ x.got <= x.size
      <4> DEFINE s == AfterHeader(r)
      <4>1. s \in Talking /\ s \in States
        BY DEF AfterHeader, Talking, States
      <4> HIDE DEF s
      <4>2. LET x == [Goto(r, s) EXCEPT !.read = k, !.got = 0, !.size = m]
            IN /\ x \in Request /\ Same(x, r) /\ x.events = r.events /\ x.timer
               /\ x.state = s /\ x.got = 0 /\ x.size = m
        BY <1>0, <4>1 DEF Goto, SetTimeout, Request, Same
      <4>3. 0 <= m
        OBVIOUS
      <4> QED BY <4>1, <4>2, <4>3 DEF s
    <3> DEFINE size == IF r.reply = "length" THEN Bytes(r.reply) ELSE 0
    <3>4. size \in Nat
      BY <3>2
    <3> HIDE DEF base, size
    <3>5. LET x == [Goto(r, AfterHeader(r)) EXCEPT !.read = base + 2, !.got = 0, !.size = size]
          IN /\ x \in Request /\ Same(x, r) /\ x.events = r.events /\ x.timer
             /\ x.state \in Talking /\ x.got <= x.size
      BY <3>1, <3>3, <3>4
    <3> QED BY <3>5 DEF size
  <2>4. Good(q)
    BY <2>1, <2>3, TimerNext DEF Talking
  <2>5. ASSUME Put(i, q), open' = TRUE, tmp' = <<>>, UNCHANGED <<handle, rules>>
        PROVE  \E x : Becomes(i, r, x)
    <3> HIDE DEF q
    <3>1. ListenerOK'
      BY <2>5 DEF ListenerOK
    <3>2. Going(q.state)
      BY <2>3 DEF Going, Talking
    <3> QED BY <2>1, <2>3, <2>4, <2>5, <3>1, <3>2 DEF Becomes, Put, Going, Same
  <2>6. ASSUME Put(i, Goto(q, "CLOSED")), Forget, UNCHANGED <<tmp, rules>>
        PROVE  \E x : Becomes(i, r, x)
    <3> DEFINE x == Goto(q, "CLOSED")
    <3> HIDE DEF q
    <3>1. /\ x \in Request /\ Same(x, r) /\ x.events = r.events /\ x.timer
          /\ x.state = "CLOSED" /\ x.got <= x.size
      BY <2>3, GotoIs DEF Same, States
    <3>2. Put(i, x)
      BY <2>6
    <3> HIDE DEF x
    <3>3. Good(x)
      BY <2>1, <3>1, TimerNext DEF Talking
    <3>4. handle = i
      BY <2>1 DEF Going
    <3>5. handle' = 0 /\ handle' # i /\ open' = FALSE
      BY <2>6, <3>4, Forgets
    <3>6. ListenerOK'
      BY <2>6, <3>5, MaxNat DEF ListenerOK
    <3> QED BY <2>6, <3>1, <3>2, <3>3, <3>4, <3>5, <3>6 DEF Becomes, Put, Going, Same
  <2> HIDE DEF q
  <2>7. \/ Put(i, WaitToRecv([r EXCEPT !.read = r.arrived])) /\ UNCHANGED listener
        \/ OnResponseHeader(i, q)
    BY <1>5 DEF DoReceiveHeader, q
  <2>8. ASSUME OnResponseHeader(i, q)
        PROVE  \E x : Becomes(i, r, x)
    BY <2>5, <2>6, <2>8 DEF OnResponseHeader
  <2> QED BY <2>2, <2>7, <2>8
<1>6. CASE DoChunkLength(i, r)
  <2>1. r.state = "CHUNK_LENGTH" /\ UNCHANGED listener
    BY <1>6 DEF DoChunkLength
  <2>0. /\ n >= 2 => Put(i, Goto([r EXCEPT !.read = r.read + 2, !.got = 0,
                        !.size = IF Unread(r)[2] = "chunk" THEN 1 ELSE 0], "CHUNK_DATA"))
        /\ n = 1 => Put(i, r)
        /\ n = 0 => Put(i, WaitToRecv(r))
    <3> DEFINE two == Put(i, Goto([r EXCEPT !.read = r.read + 2, !.got = 0,
                            !.size = IF Unread(r)[2] = "chunk" THEN 1 ELSE 0], "CHUNK_DATA"))
               one == Put(i, r)
               zero == Put(i, WaitToRecv(r))
               choice == CASE n >= 2 -> two [] n = 1 -> one [] OTHER -> zero
    <3>1. choice
      BY <1>6 DEF DoChunkLength, n
    <3> HIDE DEF two, one, zero
    <3>2. (n >= 2 => two) /\ (n = 1 => one) /\ (n = 0 => zero)
      BY <3>1, <1>n
    <3> QED BY <3>2 DEF two, one, zero
  <2>2. CASE n >= 2
    <3> DEFINE read == r.read + 2
               size == IF Unread(r)[2] = "chunk" THEN 1 ELSE 0
               x == Goto([r EXCEPT !.read = read, !.got = 0, !.size = size], "CHUNK_DATA")
    <3>n. read \in Nat /\ size \in Nat /\ 0 <= size
      BY <1>0 DEF Request
    <3>2. Put(i, x)
      BY <2>0, <2>2
    <3> HIDE DEF read, size
    <3>1. /\ x \in Request /\ Same(x, r) /\ x.events = r.events /\ x.timer
          /\ x.state = "CHUNK_DATA" /\ x.got = 0 /\ x.size = size
      BY <1>0, <3>n DEF Goto, SetTimeout, Request, States, Same
    <3> HIDE DEF x
    <3>3. Good(x)
      BY <2>1, <3>n, <3>1, TimerNext DEF Talking
    <3> QED BY <2>1, <3>1, <3>2, <3>3 DEF Becomes, Put, listener, ListenerOK, Going, Same
  <2>3. CASE n = 1
    <3>1. Put(i, r)
      BY <2>0, <2>3
    <3>2. Good(r)
      BY <1>0, <1>n, <2>1, <2>3 DEF Good, Woken, Waits, Stuck
    <3> QED BY <2>1, <3>1, <3>2 DEF Becomes, Put, listener, ListenerOK, Going
  <2>4. CASE n = 0
    <3> DEFINE x == WaitToRecv(r)
    <3>1. /\ x \in Request /\ Same(x, r) /\ x.events = {"IN", "RDHUP"} /\ ~x.timer
          /\ x.state = "CHUNK_LENGTH" /\ x.got = r.got /\ x.size = r.size
      BY <1>0, <2>1, WaitIs DEF Woken
    <3>2. Put(i, x)
      BY <2>0, <2>4
    <3> HIDE DEF x
    <3>3. Good(x)
      BY <1>0, <2>1, <3>1, SocketNext DEF Talking, Holds
    <3> QED BY <2>1, <3>1, <3>2, <3>3 DEF Becomes, Put, listener, ListenerOK, Going, Same
  <2> QED BY <1>n, <2>2, <2>3, <2>4
<1>7. CASE DoReceiveContent(i, r)
  <2> DEFINE left == r.size - r.got
             m == IF n < left THEN n ELSE left
             r1 == [r EXCEPT !.read = @ + m, !.got = @ + m]
  <2>1. r.state \in {"RECEIVE_CONTENT", "CHUNK_DATA"}
    BY <1>7 DEF DoReceiveContent
  <2>2. m \in Nat /\ r.got + m <= r.size
    BY <1>0, <1>n DEF Request, Holds
  <2> HIDE DEF m
  <2>3. /\ r1 \in Request /\ Same(r1, r) /\ r1.events = r.events /\ r1.timer = r.timer
        /\ r1.state = r.state /\ r1.got <= r1.size
    <3> DEFINE a == r.read + m
               b == r.got + m
    <3>1. a \in Nat /\ b \in Nat /\ b <= r.size
      BY <1>0, <2>2 DEF Request
    <3>2. r1 = [r EXCEPT !.read = a, !.got = b]
      OBVIOUS
    <3> HIDE DEF a, b, r1
    <3>3. /\ r1 \in Request /\ Same(r1, r) /\ r1.events = r.events /\ r1.timer = r.timer
          /\ r1.state = r.state /\ r1.got = b /\ r1.size = r.size
      BY <1>0, <3>1, <3>2 DEF Request, Same
    <3> QED BY <3>1, <3>3
  <2>4. [k \in 1..m |-> i] \in Seq(Updates)
    BY <2>2
  <2>5. \/ /\ tmp' = tmp \o [k \in 1..m |-> i]
           /\ Put(i, IF m < left THEN WaitToRecv(r1)
                     ELSE Goto(r1, IF r.state = "CHUNK_DATA" THEN "CHUNK_TAIL"
                                   ELSE "COMPLETED"))
           /\ UNCHANGED <<handle, open, rules>>
        \/ Forget /\ Put(i, Goto(r1, "CLOSED")) /\ UNCHANGED <<tmp, rules>>
    BY <1>7 DEF DoReceiveContent, n, m
  <2> HIDE DEF r1, left
  <2>6. ASSUME tmp' = tmp \o [k \in 1..m |-> i], UNCHANGED <<handle, open, rules>>,
               NEW x, Put(i, x), Good(x), Same(x, r), x.state \in Talking
        PROVE  Becomes(i, r, x)
    <3>1. ListenerOK'
      BY <2>4, <2>6 DEF ListenerOK
    <3> QED BY <2>1, <2>6, <3>1 DEF Becomes, Put, Going, Same, Talking
  <2>7. /\ Good(WaitToRecv(r1)) /\ Same(WaitToRecv(r1), r)
        /\ WaitToRecv(r1).state \in Talking
    <3>1. /\ WaitToRecv(r1) \in Request /\ Same(WaitToRecv(r1), r)
          /\ WaitToRecv(r1).events = {"IN", "RDHUP"} /\ ~WaitToRecv(r1).timer
          /\ WaitToRecv(r1).state = r.state /\ WaitToRecv(r1).got <= WaitToRecv(r1).size
      BY <2>3, WaitIs DEF Same, Woken
    <3> QED BY <2>1, <3>1, SocketNext DEF Talking
  <2>8. ASSUME NEW s \in {"CHUNK_TAIL", "COMPLETED", "CLOSED"}
        PROVE  Good(Goto(r1, s)) /\ Same(Goto(r1, s), r) /\ Goto(r1, s).state = s
    <3>1. /\ Goto(r1, s) \in Request /\ Same(Goto(r1, s), r)
          /\ Goto(r1, s).events = r.events /\ Goto(r1, s).timer
          /\ Goto(r1, s).state = s /\ Goto(r1, s).got <= Goto(r1, s).size
      BY <2>3, GotoIs DEF States, Same
    <3> QED BY <2>1, <3>1, TimerNext DEF Talking
  <2>9. ASSUME Forget, Put(i, Goto(r1, "CLOSED")), UNCHANGED <<tmp, rules>>
        PROVE  Becomes(i, r, Goto(r1, "CLOSED"))
    <3>1. handle = i
      BY <2>1 DEF Going
    <3>2. handle' = 0 /\ handle' # i /\ open' = FALSE
      BY <2>9, <3>1, Forgets
    <3>3. ListenerOK'
      BY <2>9, <3>2, MaxNat DEF ListenerOK
    <3> QED BY <2>8, <2>9, <3>1, <3>2, <3>3 DEF Becomes, Put, Going, Same
  <2>10. \/ Forget /\ Put(i, Goto(r1, "CLOSED")) /\ UNCHANGED <<tmp, rules>>
         \/ /\ tmp' = tmp \o [k \in 1..m |-> i] /\ UNCHANGED <<handle, open, rules>>
            /\ \/ Put(i, WaitToRecv(r1))
               \/ Put(i, Goto(r1, "CHUNK_TAIL"))
               \/ Put(i, Goto(r1, "COMPLETED"))
    BY <2>5
  <2>11. "CHUNK_TAIL" \in Talking /\ "COMPLETED" \in Talking
    BY DEF Talking
  <2> QED BY <2>6, <2>7, <2>8, <2>9, <2>10, <2>11
<1>8. CASE DoChunkTail(i, r)
  <2>1. r.state = "CHUNK_TAIL" /\ UNCHANGED listener
    BY <1>8 DEF DoChunkTail
  <2>2. CASE n < 2
    <3> DEFINE x == WaitToRecv(r)
    <3>1. /\ x \in Request /\ Same(x, r) /\ x.events = {"IN", "RDHUP"} /\ ~x.timer
          /\ x.state = "CHUNK_TAIL" /\ x.got = r.got /\ x.size = r.size
      BY <1>0, <2>1, WaitIs DEF Woken
    <3>2. Put(i, x)
      BY <1>8, <2>2 DEF DoChunkTail, n
    <3> HIDE DEF x
    <3>3. Good(x)
      BY <1>0, <2>1, <3>1, SocketNext DEF Talking, Holds
    <3> QED BY <2>1, <3>1, <3>2, <3>3 DEF Becomes, Put, listener, ListenerOK, Going, Same
  <2>3. CASE ~(n < 2)
    <3> DEFINE read == r.read + 2
               s == IF r.size > 0 THEN "CHUNK_LENGTH" ELSE "COMPLETED"
               x == Goto([r EXCEPT !.read = read], s)
    <3>1. read \in Nat /\ s \in States /\ s \in Talking
      BY <1>0 DEF Request, States, Talking
    <3>2. Put(i, x)
      BY <1>8, <2>3 DEF DoChunkTail, n
    <3> HIDE DEF read, s
    <3>3. /\ x \in Request /\ Same(x, r) /\ x.events = r.events /\ x.timer
          /\ x.state = s /\ x.got = r.got /\ x.size = r.size
      BY <1>0, <3>1 DEF Goto, SetTimeout, Request, Same
    <3> HIDE DEF x
    <3>4. Good(x)
      BY <1>0, <2>1, <3>1, <3>3, TimerNext DEF Talking, Holds
    <3>5. Going(x.state)
      BY <3>1, <3>3 DEF Talking, Going
    <3> QED BY <2>1, <3>2, <3>3, <3>4, <3>5 DEF Becomes, Put, listener, ListenerOK, Going, Same
  <2> QED BY <2>2, <2>3
<1>9. CASE DoCompleted(i, r)
  <2> DEFINE x == Goto(r, "CLOSED")
  <2>1. r.state = "COMPLETED" /\ Put(i, x) /\ OnResponseCompleted(i)
    BY <1>9 DEF DoCompleted
  <2>2. /\ x \in Request /\ Same(x, r) /\ x.events = r.events /\ x.timer
        /\ x.state = "CLOSED" /\ x.got = r.got /\ x.size = r.size
    BY <1>0, GotoIs DEF States
  <2> HIDE DEF x
  <2>3. Good(x)
    BY <1>0, <2>1, <2>2, TimerNext DEF Talking, Holds
  <2>4. handle = i
    BY <2>1 DEF Going
  <2>5. handle' = 0 /\ handle' # i /\ open' = FALSE
    BY <2>1, <2>4, Forgets DEF OnResponseCompleted
  <2>6. ListenerOK'
    <3>1. req[i].reply \in AllReplies \cup {"-"}
      BY DEF Request
    <3>2. tmp' = <<>> /\ rules' = [of |-> req[i].reply, data |-> tmp]
      BY <2>1 DEF OnResponseCompleted
    <3>3. tmp \in Seq(Updates) /\ <<>> \in Seq(Updates)
      BY DEF ListenerOK
    <3>4. rules' \in [of : AllReplies \cup {"-"}, data : Seq(Updates)] /\ tmp' \in Seq(Updates)
      BY <3>1, <3>2, <3>3
    <3> QED BY <2>5, <3>4, MaxNat DEF ListenerOK
  <2> QED BY <2>1, <2>2, <2>3, <2>4, <2>5, <2>6 DEF Becomes, Put, Going, Same
<1>10. CASE DoClosed(i, r)
  <2>1. r.state = "CLOSED" /\ Put(i, Deleted) /\ UNCHANGED listener
    BY <1>10 DEF DoClosed
  <2>2. Good(Deleted) /\ Deleted.state = "DELETED"
    BY Inert
  <2> QED BY <2>1, <2>2 DEF Becomes, Put, listener, ListenerOK, Going
<1> QED BY <1>1, <1>2, <1>3, <1>4, <1>5, <1>6, <1>7, <1>8, <1>9, <1>10 DEF DoHttp

-----------------------------------------------------------------------------
(* The steps.                                                               *)

\* What is served has an object that is there, waiting for just this: what else was
\* reported of it can only be a hang-up.
LEMMA Waited ==
  ASSUME IInv, NEW i \in Updates
  PROVE  /\ Good(req[i]) /\ Fresh(i)
         /\ rev[<<i, "timer">>] # {} =>
              /\ req[i].timer /\ Wanted(req[i]) = {} /\ req[i].lookup = "off"
              /\ req[i].state \notin {"CONNECTING", "RESOLVING"} \cup Gone
              /\ rev[<<i, "lookup">>] = {} /\ rev[<<i, "sock">>] \subseteq {"HUP"}
         /\ rev[<<i, "lookup">>] # {} =>
              /\ ~req[i].timer /\ req[i].state = "RESOLVING"
              /\ rev[<<i, "timer">>] = {} /\ rev[<<i, "sock">>] = {}
         /\ rev[<<i, "sock">>] # {} =>
              /\ req[i].state \in Talking \cup {"CONNECTING", "CLOSED"}
              /\ req[i].lookup = "off" /\ rev[<<i, "lookup">>] = {}
         /\ rev[<<i, "sock">>] \cap {"IN", "OUT"} # {} =>
              /\ ~req[i].timer /\ Wanted(req[i]) # {} /\ rev[<<i, "timer">>] = {}
              /\ req[i].state \in Talking \cup {"CONNECTING"}
<1> DEFINE r == req[i]
<1>1. Good(r) /\ Fresh(i) /\ r \in Request
  BY DEF IInv, Good
<1>2. /\ rev[<<i, "sock">>] \subseteq {"IN", "OUT", "HUP"}
      /\ <<i, "sock">> \in Slots
  BY DEF IInv, Slots
<1>3. r.state \in Gone \cup Talking \cup {"PREPARING", "RESOLVING", "CONNECTING", "CLOSED"}
  BY <1>1 DEF Request, States, Gone, Talking
<1>4. /\ r.timer => Wanted(r) = {} /\ r.lookup = "off" /\ r.state \notin {"CONNECTING", "RESOLVING"} \cup Gone
      /\ r.lookup # "off" => r.state = "RESOLVING" /\ ~r.timer /\ r.sock = "none"
      /\ Wanted(r) # {} => ~r.timer /\ r.state \in Talking \cup {"CONNECTING"}
      /\ r.sock # "none" => r.state \in Talking \cup {"CONNECTING", "CLOSED"} /\ r.lookup = "off"
  BY <1>1, <1>3 DEF Good, Holds, Waits, Stuck, HungUp, Gone, Talking, Wanted
<1>5. /\ "IN" \in rev[<<i, "sock">>] => Wanted(r) # {}
      /\ "OUT" \in rev[<<i, "sock">>] => Wanted(r) # {}
  BY <1>1 DEF Fresh, Wanted
<1> HIDE DEF r
<1>6. /\ rev[<<i, "timer">>] # {} => r.timer
      /\ rev[<<i, "lookup">>] # {} => r.lookup # "off"
      /\ rev[<<i, "sock">>] # {} => r.sock # "none"
  BY <1>1 DEF Fresh, r
<1> QED BY <1>1, <1>2, <1>4, <1>5, <1>6 DEF r

\* A callback that was served leaves everything in order: the slot, the object's
\* other slots, the other objects, and Config's pointer.
LEMMA ServedHolds ==
  ASSUME IInv, NEW i \in Updates, NEW x \in {"timer", "lookup", "sock"},
         NEW r, NEW q, Becomes(i, r, q), Served(<<i, x>>),
         req[i].sock \notin {"none", "connecting"} => r.sock \notin {"none", "connecting"},
         handle = i <=> Going(req[i].state),
         \A y \in {"timer", "lookup", "sock"} \ {x} :
           \/ rev[<<i, y>>] = {}
           \/ y = "sock" /\ rev[<<i, y>>] \subseteq {"HUP"}
           \/ y = "timer" /\ q.timer
  PROVE  IInv'
<1>1. /\ req' \in [Updates -> Request] /\ req'[i] = q
      /\ \A j \in Updates \ {i} : req'[j] = req[j]
  BY DEF Becomes, Good, IInv
<1>2. rev' = [t \in Slots |-> IF t = <<i, x>> \/ (t[1] = i /\ q.state = "DELETED") THEN {} ELSE rev[t]]
  BY <1>1 DEF Served
<1>3. rev' \in [Slots -> SUBSET {"IN", "OUT", "HUP"}]
  BY <1>2 DEF IInv
<1>4. ASSUME NEW j \in Updates PROVE Holds(req'[j]) /\ Waits(req'[j])
  BY <1>1 DEF IInv, Becomes, Good
<1>5. ASSUME NEW j \in Updates, j # i PROVE Fresh(j)'
  <2>1. \A y \in {"timer", "lookup", "sock"} : rev'[<<j, y>>] = rev[<<j, y>>]
    BY <1>2, <1>5 DEF Slots
  <2>2. Fresh(j) /\ req'[j] = req[j]
    BY <1>1, <1>5 DEF IInv
  <2> QED BY <2>1, <2>2 DEF Fresh
<1>6. Fresh(i)'
  <2>1. \A y \in {"timer", "lookup", "sock"} :
          /\ rev'[<<i, y>>] \subseteq rev[<<i, y>>]
          /\ y = x \/ q.state = "DELETED" => rev'[<<i, y>>] = {}
    BY <1>2 DEF Slots
  <2>2. /\ rev'[<<i, "timer">>] = {} \/ q.timer
        /\ rev'[<<i, "lookup">>] = {}
        /\ rev'[<<i, "sock">>] \subseteq {"HUP"}
    BY <2>1
  <2>3. rev'[<<i, "sock">>] # {} => q.sock \notin {"none", "connecting"}
    <3>1. rev[<<i, "sock">>] # {} => r.sock \notin {"none", "connecting"}
      BY DEF IInv, Fresh
    <3> QED BY <2>1, <3>1 DEF Becomes
  <2> QED BY <2>2, <2>3, <1>1 DEF Fresh
<1>7. HandleAlive'
  <2>1. \A j \in Updates : handle = j <=> Going(req[j].state)
    BY DEF IInv, HandleAlive, Live, Going
  <2>2. \A j \in Updates : handle' = j <=> Going(req'[j].state)
    BY <2>1, <1>1, MaxNat DEF Becomes
  <2>3. handle' # NullFollowed
    BY MaxNat DEF Becomes, ListenerOK, NullFollowed
  <2> QED BY <2>2, <2>3 DEF HandleAlive, Live, Going
<1> QED BY <1>1, <1>3, <1>4, <1>5, <1>6, <1>7 DEF IInv, Becomes

\* The process ends: no request is left, and no pointer to one.
LEMMA DieHolds == ASSUME IInv, Die PROVE IInv'
<1>1. \A j \in Updates : req'[j] \in {Unborn, Deleted}
  BY DEF Die
<1>2. \A j \in Updates : Good(req'[j]) /\ req'[j].state \in Gone
  BY <1>1, Inert DEF Gone
<1>3. req' \in [Updates -> Request]
  BY <1>2 DEF Die, Good
<1>4. rev' \in [Slots -> SUBSET {"IN", "OUT", "HUP"}] /\ \A s \in Slots : rev'[s] = {}
  BY DEF Die, Idle
<1>5. \A j \in Updates : Fresh(j)'
  BY <1>4 DEF Fresh, Slots
<1>6. HandleAlive'
  BY <1>2, MaxNat DEF Die, HandleAlive, Live, Gone, NullFollowed
<1>7. ListenerOK'
  <2>1. handle' = 0 /\ open' = FALSE /\ tmp' = <<>> /\ rules' = rules
    BY DEF Die
  <2>2. rules \in [of : AllReplies \cup {"-"}, data : Seq(Updates)]
    BY DEF IInv, ListenerOK
  <2>3. handle' \in 0..MaxUpdates /\ tmp' \in Seq(Updates)
    BY <2>1, MaxNat
  <2> QED BY <2>1, <2>2, <2>3 DEF ListenerOK
<1> QED BY <1>2, <1>3, <1>4, <1>5, <1>6, <1>7 DEF IInv, Good

\* onTcpToRecv and onTcpToSend, SSL's part in them included.
LEMMA OnTcpDoes ==
  ASSUME ListenerOK, NEW i \in Updates, req[i] \in Request,
         NEW r \in Request, Holds(r), ~r.timer, Wanted(r) = {},
         r.state \in Talking \cup {"CONNECTING"}, r.state = "CONNECTING" => r.sock = "up",
         handle = i <=> Going(r.state), OnTcp(i, r)
  PROVE  \E q : Becomes(i, r, q)
<1>1. CASE ~(r.https /\ ~r.ready)
  <2>1. Woken(r) /\ DoHttp(i, r)
    BY <1>1 DEF Woken, OnTcp
  <2> QED BY <2>1, Does
<1>2. CASE r.https /\ ~r.ready
  <2> DEFINE read == IF r.arrived > 2 THEN 2 ELSE r.arrived
             r1 == TransferRecv(r)
             r2 == [r1 EXCEPT !.ready = TRUE]
             q == WaitToRecv(r1)
  <2>1. r.state = "CONNECTING" /\ r.sock = "up"
    BY <1>2 DEF Holds
  <2>2. read \in Nat /\ r1 = [r EXCEPT !.read = read]
    BY DEF Request, TransferRecv
  <2>3. IF r1.read = 2 THEN DoHttp(i, r2) ELSE Put(i, q) /\ UNCHANGED listener
    BY <1>2 DEF OnTcp, Handshake
  <2> HIDE DEF read, r1
  <2>4. /\ r1 \in Request /\ Same(r1, r) /\ r1.timer = r.timer /\ r1.events = r.events
        /\ r1.state = r.state /\ r1.got = r.got /\ r1.size = r.size
    BY <2>2 DEF Request, Same
  <2>5. /\ r2 \in Request /\ r2.timer = r1.timer /\ r2.events = r1.events /\ r2.lookup = r1.lookup
        /\ r2.state = r1.state /\ r2.got = r1.got /\ r2.size = r1.size /\ r2.ready
        /\ r2.sock = r1.sock /\ r2.https = r1.https /\ r2.reply = r1.reply /\ r2.arrived = r1.arrived
        /\ r2.fin = r1.fin
    BY <2>4 DEF Request
  <2>6. CASE DoHttp(i, r2)
    <3> HIDE DEF r2
    <3>1. Stream(r2) = Stream(r)
      BY <2>4, <2>5, SameStream DEF Same
    <3>2. Holds(r2)
      BY <2>1, <2>4, <2>5, <3>1 DEF Holds, Same, Gone, Talking
    <3>3. Woken(r2)
      BY <2>1, <2>4, <2>5, <3>2 DEF Woken, Same, Wanted
    <3>4. \E x : Becomes(i, r2, x)
      BY <2>4, <2>5, <2>6, <3>3, Does
    <3> QED BY <3>4, <2>4, <2>5 DEF Becomes, Same
  <2>7. CASE Put(i, q) /\ UNCHANGED listener
    <3>1. /\ q \in Request /\ Same(q, r1) /\ q.timer = r1.timer /\ q.state = r1.state
          /\ q.events = {"IN", "RDHUP"} /\ q.got = r1.got /\ q.size = r1.size
      BY <2>4, WaitIs
    <3> HIDE DEF q
    <3>2. Stream(q) = Stream(r)
      BY <2>4, <3>1, SameStream DEF Same
    <3>3. Holds(q)
      BY <2>1, <2>4, <3>1, <3>2 DEF Holds, Same, Gone, Talking
    <3>4. Waits(q)
      BY <2>1, <2>4, <3>1 DEF Waits, Same, Wanted
    <3>5. Good(q) /\ q.state = "CONNECTING" /\ q.sock = r.sock
      BY <2>1, <2>4, <3>1, <3>3, <3>4 DEF Good, Same
    <3>6. ListenerOK' /\ handle' = handle
      BY <2>7 DEF listener, ListenerOK
    <3> QED BY <2>1, <2>7, <3>5, <3>6 DEF Becomes, Put, Going
  <2> QED BY <2>3, <2>6, <2>7
<1> QED BY <1>1, <1>2

\* The callbacks of the loop.
LEMMA ServeHolds ==
  ASSUME IInv, NEW i \in Updates,
         ServeTimer(i) \/ ServeLookup(i) \/ ServeRead(i) \/ ServeWrite(i) \/ ServeClosed(i)
  PROVE  IInv'
<1> DEFINE r == req[i]
<1>1. /\ Good(r) /\ Fresh(i) /\ r \in Request /\ Holds(r) /\ Waits(r)
      /\ ListenerOK /\ (handle = i <=> Going(r.state))
  BY DEF IInv, Good, HandleAlive, Live, Going
<1>2. CASE ServeTimer(i)
  <2> DEFINE s == [r EXCEPT !.timer = FALSE]
  <2>1. rev[<<i, "timer">>] # {} /\ DoHttp(i, s) /\ Served(<<i, "timer">>)
    BY <1>2 DEF ServeTimer
  <2>2. /\ s \in Request /\ Same(s, r) /\ ~s.timer /\ s.state = r.state /\ s.events = r.events
        /\ s.got = r.got /\ s.size = r.size
    BY <1>1 DEF Request, Same
  <2> HIDE DEF s
  <2>3. Stream(s) = Stream(r)
    BY <2>2, SameStream DEF Same
  <2>4. /\ Wanted(r) = {} /\ r.state \notin {"CONNECTING", "RESOLVING"} \cup Gone
        /\ rev[<<i, "lookup">>] = {} /\ rev[<<i, "sock">>] \subseteq {"HUP"}
    BY <2>1, Waited
  <2>5. Woken(s)
    BY <1>1, <2>2, <2>3, <2>4 DEF Woken, Holds, Same, Wanted
  <2>6. PICK q : Becomes(i, s, q)
    BY <1>1, <2>1, <2>2, <2>5, Does
  <2> QED BY <1>1, <2>1, <2>2, <2>4, <2>6, ServedHolds DEF Same
<1>3. CASE ServeLookup(i)
  <2>1. rev[<<i, "lookup">>] # {} /\ DoHttp(i, r) /\ Served(<<i, "lookup">>)
    BY <1>3 DEF ServeLookup
  <2>2. /\ ~r.timer /\ r.state = "RESOLVING"
        /\ rev[<<i, "timer">>] = {} /\ rev[<<i, "sock">>] = {}
    BY <2>1, Waited
  <2>3. Woken(r)
    BY <1>1, <2>2 DEF Woken, Holds, Wanted
  <2>4. PICK q : Becomes(i, r, q)
    BY <1>1, <2>1, <2>3, Does
  <2> QED BY <1>1, <2>1, <2>2, <2>4, ServedHolds
<1>4. CASE ServeRead(i)
  <2> DEFINE e == r.events \ {"IN"}
             s == [r EXCEPT !.events = e]
  <2>1. /\ "IN" \in rev[<<i, "sock">>]
        /\ IF s.sock = "reset" /\ s.state # "CLOSED" THEN Die
           ELSE OnTcp(i, s) /\ Served(<<i, "sock">>)
    BY <1>4 DEF ServeRead
  <2>2. /\ ~r.timer /\ rev[<<i, "timer">>] = {} /\ rev[<<i, "lookup">>] = {}
        /\ r.state \in Talking \cup {"CONNECTING"} /\ r.state # "CLOSED"
        /\ "IN" \in r.events
    BY <2>1, Waited DEF Fresh, Talking
  <2>3. e = {"RDHUP"}
    BY <1>1, <2>2 DEF Holds
  <2> HIDE DEF e
  <2>4. /\ s \in Request /\ Same(s, r) /\ s.timer = r.timer /\ s.state = r.state
        /\ s.events = {"RDHUP"} /\ s.got = r.got /\ s.size = r.size
    BY <1>1, <2>3 DEF Request, Same
  <2> HIDE DEF s
  <2>5. Stream(s) = Stream(r)
    BY <2>4, SameStream DEF Same
  <2>6. Holds(s) /\ Wanted(s) = {}
    BY <1>1, <2>2, <2>4, <2>5 DEF Holds, Same, Wanted, Gone, Talking
  <2>7. r.state = "CONNECTING" => r.sock \in {"up", "reset"}
    BY <1>1, <2>2 DEF Waits, Gone, Stuck, HungUp
  <2>8. CASE Die
    BY <2>8, DieHolds
  <2>9. CASE ~(s.sock = "reset" /\ s.state # "CLOSED")
    <3>1. OnTcp(i, s) /\ Served(<<i, "sock">>) /\ s.sock # "reset"
      BY <2>1, <2>2, <2>4, <2>9
    <3>2. \E q : Becomes(i, s, q)
      BY <1>1, <2>2, <2>4, <2>6, <2>7, <3>1, OnTcpDoes DEF Same
    <3>3. PICK q : Becomes(i, s, q)
      BY <3>2
    <3> QED BY <1>1, <2>2, <2>4, <3>1, <3>3, ServedHolds DEF Same
  <2> QED BY <2>1, <2>8, <2>9
<1>5. CASE ServeWrite(i)
  <2> DEFINE e == r.events \ {"OUT"}
             s == [r EXCEPT !.events = e]
             up == [s EXCEPT !.sock = "up", !.ssl = s.https]
  <2>1. /\ "OUT" \in rev[<<i, "sock">>]
        /\ s.sock = "refused" => Put(i, s) /\ UNCHANGED listener /\ Served(<<i, "sock">>)
        /\ s.sock = "accepted" => OnTcp(i, up) /\ Served(<<i, "sock">>)
        /\ s.sock = "up" => OnTcp(i, s) /\ Served(<<i, "sock">>)
        /\ s.sock = "reset" => Die
    BY <1>5 DEF ServeWrite
  <2>2. /\ ~r.timer /\ rev[<<i, "timer">>] = {} /\ rev[<<i, "lookup">>] = {}
        /\ r.state \in Talking \cup {"CONNECTING"}
        /\ "OUT" \in r.events /\ r.sock \notin {"none", "connecting"}
    BY <2>1, Waited DEF Fresh
  <2>3. e = {"RDHUP"} /\ "IN" \notin r.events
    BY <1>1, <2>2 DEF Holds
  <2> HIDE DEF e
  <2>4. /\ s \in Request /\ Same(s, r) /\ s.timer = r.timer /\ s.state = r.state
        /\ s.events = {"RDHUP"} /\ s.got = r.got /\ s.size = r.size
    BY <1>1, <2>3 DEF Request, Same
  <2> HIDE DEF s
  <2>5. Stream(s) = Stream(r)
    BY <2>4, SameStream DEF Same
  <2>6. Holds(s) /\ Wanted(s) = {}
    BY <1>1, <2>2, <2>4, <2>5 DEF Holds, Same, Wanted, Gone, Talking
  <2>7. r.state = "CONNECTING" => r.sock \in {"connecting", "accepted", "refused"}
    BY <1>1, <2>2, <2>3 DEF Waits, Gone, Stuck, HungUp
  <2>8. r.state \in Talking => r.sock \in {"up", "reset"}
    BY <1>1 DEF Holds
  <2>9. CASE s.sock = "refused"
    <3>1. r.state = "CONNECTING"
      BY <2>2, <2>4, <2>8, <2>9 DEF Same
    <3>2. Good(s)
      BY <2>2, <2>4, <2>6, <2>9, <3>1 DEF Good, Waits, HungUp
    <3>3. Becomes(i, s, s)
      BY <1>1, <2>1, <2>4, <2>9, <3>1, <3>2 DEF Becomes, Put, listener, ListenerOK, Going
    <3> QED BY <1>1, <2>1, <2>2, <2>4, <2>9, <3>3, ServedHolds DEF Same
  <2>10. CASE s.sock = "accepted"
    <3>1. r.state = "CONNECTING"
      BY <2>2, <2>4, <2>8, <2>10 DEF Same
    <3>2. /\ up \in Request /\ up.https = s.https /\ up.ready = s.ready /\ up.reply = s.reply
          /\ up.arrived = s.arrived /\ up.lookup = s.lookup /\ up.sock = "up"
          /\ up.timer = s.timer /\ up.state = s.state /\ up.events = s.events
          /\ up.got = s.got /\ up.size = s.size /\ up.fin = s.fin
      BY <2>4 DEF Request
    <3> HIDE DEF up
    <3>3. Stream(up) = Stream(s)
      BY <3>2, SameStream
    <3>4. Holds(up) /\ Wanted(up) = {}
      BY <2>4, <2>6, <3>1, <3>2, <3>3 DEF Holds, Wanted, Gone, Talking
    <3>5. OnTcp(i, up) /\ Served(<<i, "sock">>)
      BY <2>1, <2>10
    <3>6. \E q : Becomes(i, up, q)
      BY <1>1, <2>2, <2>4, <3>1, <3>2, <3>4, <3>5, OnTcpDoes
    <3>7. PICK q : Becomes(i, up, q)
      BY <3>6
    <3> QED BY <1>1, <2>2, <3>2, <3>5, <3>7, ServedHolds
  <2>11. CASE s.sock = "up"
    <3>1. r.state \in Talking /\ r.state # "CONNECTING"
      BY <2>2, <2>4, <2>7, <2>11 DEF Same, Talking
    <3>2. OnTcp(i, s) /\ Served(<<i, "sock">>)
      BY <2>1, <2>11
    <3>3. \E q : Becomes(i, s, q)
      BY <1>1, <2>2, <2>4, <2>6, <2>11, <3>1, <3>2, OnTcpDoes
    <3>4. PICK q : Becomes(i, s, q)
      BY <3>3
    <3> QED BY <1>1, <2>2, <2>4, <3>2, <3>4, ServedHolds DEF Same
  <2>12. CASE s.sock = "reset"
    BY <2>1, <2>12, DieHolds
  <2>13. s.sock \in {"refused", "accepted", "up", "reset"}
    BY <2>2, <2>4, <2>7, <2>8 DEF Same
  <2> QED BY <2>9, <2>10, <2>11, <2>12, <2>13
<1>6. CASE ServeClosed(i)
  <2> DEFINE s == [r EXCEPT !.events = {}]
             q == Goto(s, "CLOSED")
  <2>1. /\ rev[<<i, "sock">>] # {} /\ OnTcpDisconnected(i, s) /\ Served(<<i, "sock">>)
    BY <1>6 DEF ServeClosed
  <2>2. /\ r.state \in Talking \cup {"CONNECTING", "CLOSED"} /\ r.lookup = "off"
        /\ rev[<<i, "lookup">>] = {} /\ r.sock \notin {"none", "connecting"}
    BY <2>1, Waited DEF Fresh
  <2>3. /\ s \in Request /\ Same(s, r) /\ s.timer = r.timer /\ s.state = r.state
        /\ s.events = {} /\ s.got = r.got /\ s.size = r.size
    BY <1>1 DEF Request, Same
  <2> HIDE DEF s
  <2>4. CASE s.state = "CLOSED"
    <3>1. Stream(s) = Stream(r)
      BY <2>3, SameStream DEF Same
    <3>2. Holds(s)
      BY <1>1, <2>3, <3>1 DEF Holds, Same, Gone, Talking
    <3>3. r.timer
      BY <1>1, <2>3, <2>4 DEF Waits, Gone, Stuck, HungUp, Talking
    <3>4. Waits(s)
      BY <2>3, <2>4, <3>3 DEF Waits, Wanted
    <3>5. Becomes(i, s, s)
      BY <1>1, <2>1, <2>3, <2>4, <3>2, <3>4
         DEF OnTcpDisconnected, Becomes, Good, Put, listener, ListenerOK, Going
    <3> QED BY <1>1, <2>1, <2>2, <2>3, <3>3, <3>5, ServedHolds DEF Same
  <2>5. CASE s.state # "CLOSED"
    <3>1. Put(i, q) /\ Forget /\ UNCHANGED <<tmp, rules>>
      BY <2>1, <2>5 DEF OnTcpDisconnected, OnHttpClientError
    <3>2. /\ q \in Request /\ Same(q, s) /\ q.timer /\ q.state = "CLOSED" /\ q.events = {}
          /\ q.got = s.got /\ q.size = s.size
      BY <2>3, GotoIs DEF States
    <3> HIDE DEF q
    <3>3. Stream(q) = Stream(r)
      BY <2>3, <3>2, SameStream DEF Same
    <3>4. Holds(q)
      BY <1>1, <2>2, <2>3, <3>2, <3>3 DEF Holds, Same, Gone, Talking
    <3>5. Waits(q)
      BY <3>2 DEF Waits, Wanted
    <3>6. handle = i
      BY <1>1, <2>2, <2>3, <2>5 DEF Going, Talking
    <3>7. handle' = 0 /\ handle' # i /\ open' = FALSE
      BY <1>1, <3>1, <3>6, Forgets
    <3>8. ListenerOK'
      BY <1>1, <3>1, <3>7, MaxNat DEF ListenerOK
    <3>9. Becomes(i, s, q)
      BY <3>1, <3>2, <3>4, <3>5, <3>6, <3>7, <3>8 DEF Becomes, Good, Put, Going, Same
    <3> QED BY <1>1, <2>1, <2>2, <2>3, <3>2, <3>9, ServedHolds DEF Same
  <2> QED BY <2>4, <2>5
<1> QED BY <1>2, <1>3, <1>4, <1>5, <1>6

\* A step of the network or of the lookup's thread changes no more of an object than
\* it waits for.
LEMMA HappensHolds ==
  ASSUME IInv, NEW i \in Updates, NEW q, Good(q), Happens(i, q), q.state = req[i].state,
         q.timer = req[i].timer, q.events = req[i].events,
         req[i].sock \notin {"none", "connecting"} => q.sock \notin {"none", "connecting"},
         req[i].lookup \in {"found", "failed"} => q.lookup \in {"found", "failed"}
  PROVE  IInv'
<1>1. /\ req' \in [Updates -> Request] /\ req'[i] = q /\ rev' = rev
      /\ \A j \in Updates \ {i} : req'[j] = req[j]
      /\ UNCHANGED listener
  BY DEF Happens, Put, Good, IInv
<1>2. \A j \in Updates : Holds(req'[j]) /\ Waits(req'[j])
  BY <1>1 DEF IInv, Good
<1>3. \A j \in Updates : Fresh(j)'
  BY <1>1 DEF IInv, Fresh
<1>4. HandleAlive'
  BY <1>1 DEF IInv, HandleAlive, Live, listener
<1>5. ListenerOK'
  BY <1>1 DEF IInv, ListenerOK, listener
<1> QED BY <1>1, <1>2, <1>3, <1>4, <1>5 DEF IInv

\* The lookup's thread and the server.
LEMMA WorldHolds ==
  ASSUME IInv, NEW i \in Updates, World(i)
  PROVE  IInv'
<1> DEFINE r == req[i]
<1>1. Good(r) /\ r \in Request /\ Holds(r) /\ Waits(r)
  BY DEF IInv, Good
<1>2. CASE LookedUp(i)
  <2>1. PICK l \in {"found", "failed"} : Happens(i, [r EXCEPT !.lookup = l])
    BY <1>2 DEF LookedUp
  <2> DEFINE q == [r EXCEPT !.lookup = l]
  <2>2. /\ q \in Request /\ q.lookup = l /\ q.timer = r.timer /\ q.state = r.state
        /\ q.events = r.events /\ q.got = r.got /\ q.size = r.size /\ q.read = r.read
        /\ q.https = r.https /\ q.ready = r.ready /\ q.reply = r.reply
        /\ q.arrived = r.arrived /\ q.sock = r.sock /\ q.fin = r.fin
    BY <1>1 DEF Request
  <2> HIDE DEF q
  <2>3. r.lookup = "running"
    BY <1>2 DEF LookedUp
  <2>4. Stream(q) = Stream(r)
    BY <2>2, SameStream
  <2>5. Holds(q)
    BY <1>1, <2>2, <2>3, <2>4 DEF Holds
  <2>6. Waits(q)
    BY <1>1, <2>2 DEF Waits, Wanted, Stuck, HungUp
  <2> QED BY <2>1, <2>2, <2>5, <2>6, HappensHolds DEF Good, q
<1>3. CASE Answers(i)
  <2>1. \/ \E reply \in Replies[i] : Happens(i, [r EXCEPT !.sock = "accepted", !.reply = reply])
        \/ Happens(i, [r EXCEPT !.sock = "refused"])
    BY <1>3 DEF Answers
  <2>2. r.sock = "connecting" /\ r.arrived = 0
    BY <1>1, <1>3 DEF Answers, Holds
  <2>3. ASSUME NEW q \in Request, q.sock \in {"accepted", "refused"}, Happens(i, q),
               q.lookup = r.lookup, q.timer = r.timer, q.state = r.state, q.events = r.events,
               q.got = r.got, q.size = r.size, q.read = r.read, q.arrived = r.arrived
        PROVE  IInv'
    <3>1. Len(Stream(q)) \in Nat
      BY StreamSeq
    <3>2. Holds(q)
      BY <1>1, <2>2, <2>3, <3>1 DEF Holds, Talking
    <3>3. r.state \in {"CONNECTING", "CLOSED"}
      BY <1>1, <2>2 DEF Holds, Request, States, Talking, Gone
    <3>4. Waits(q)
      BY <1>1, <2>2, <2>3, <3>3 DEF Waits, Wanted, Stuck, HungUp, Gone, Talking
    <3> QED BY <2>2, <2>3, <3>2, <3>4, HappensHolds DEF Good
  <2>4. ASSUME NEW reply \in Replies[i],
               Happens(i, [r EXCEPT !.sock = "accepted", !.reply = reply])
        PROVE  IInv'
    <3> DEFINE q == [r EXCEPT !.sock = "accepted", !.reply = reply]
    <3>1. reply \in AllReplies
      BY DEF AllReplies
    <3>2. /\ q \in Request /\ q.sock = "accepted" /\ q.lookup = r.lookup /\ q.timer = r.timer
          /\ q.state = r.state /\ q.events = r.events /\ q.got = r.got /\ q.size = r.size
          /\ q.read = r.read /\ q.arrived = r.arrived
      BY <1>1, <3>1 DEF Request
    <3>3. Happens(i, q)
      BY <2>4
    <3> HIDE DEF q
    <3> QED BY <2>3, <3>2, <3>3
  <2>5. ASSUME Happens(i, [r EXCEPT !.sock = "refused"])
        PROVE  IInv'
    <3> DEFINE q == [r EXCEPT !.sock = "refused"]
    <3>2. /\ q \in Request /\ q.sock = "refused" /\ q.lookup = r.lookup /\ q.timer = r.timer
          /\ q.state = r.state /\ q.events = r.events /\ q.got = r.got /\ q.size = r.size
          /\ q.read = r.read /\ q.arrived = r.arrived
      BY <1>1 DEF Request
    <3>3. Happens(i, q)
      BY <2>5
    <3> HIDE DEF q
    <3> QED BY <2>3, <3>2, <3>3
  <2> QED BY <2>1, <2>4, <2>5
<1>4. CASE Sends(i)
  <2> DEFINE early == IF r.https THEN 2 ELSE 0
             may == IF r.state \notin {"CONNECTING", "SEND_HEADER"} THEN Len(Stream(r)) ELSE early
  <2>1. /\ r.sock = "up" /\ r.arrived < may
        /\ \E n \in (r.arrived + 1)..may : Happens(i, [r EXCEPT !.arrived = n])
    BY <1>4 DEF Sends
  <2>2. Len(Stream(r)) \in Nat
    BY <1>1, StreamSeq
  <2>3. r.https => Len(Stream(r)) >= 2
    <3> DEFINE reply == IF r.reply = "-" THEN <<>> ELSE ReplyTokens(r.reply)
    <3>1. reply \in Seq(Token) /\ <<"part", "hello">> \in Seq(Token)
      <4>1. r.reply \in Names \cup {"-"}
        BY <1>1, RepliesNamed DEF Request
      <4>2. CASE r.reply = "-"
        BY <4>2 DEF Token
      <4>3. CASE r.reply # "-"
        BY <4>1, <4>3, TokensSeq DEF Token
      <4> QED BY <4>2, <4>3
    <3>2. r.https => Stream(r) = <<"part", "hello">> \o reply
      BY DEF Stream
    <3> HIDE DEF reply
    <3>3. Len(<<"part", "hello">> \o reply) = 2 + Len(reply) /\ Len(reply) \in Nat
      BY <3>1
    <3> QED BY <3>2, <3>3
  <2>4. may \in Nat /\ may <= Len(Stream(r))
    BY <2>2, <2>3
  <2> HIDE DEF may
  <2>5. r.arrived \in Nat
    BY <1>1 DEF Request
  <2>6. PICK n \in (r.arrived + 1)..may : Happens(i, [r EXCEPT !.arrived = n])
    BY <2>1
  <2>7. n \in Nat /\ n <= Len(Stream(r)) /\ n > r.arrived /\ r.sock = "up"
    BY <2>1, <2>2, <2>4, <2>5, <2>6
  <2> DEFINE q == [r EXCEPT !.arrived = n]
  <2>8. /\ q \in Request /\ q.arrived = n /\ q.lookup = r.lookup /\ q.timer = r.timer
        /\ q.state = r.state /\ q.events = r.events /\ q.got = r.got /\ q.size = r.size
        /\ q.read = r.read /\ q.https = r.https /\ q.ready = r.ready /\ q.reply = r.reply
        /\ q.sock = r.sock /\ q.fin = r.fin
    BY <1>1, <2>7 DEF Request
  <2> HIDE DEF q
  <2>9. Stream(q) = Stream(r)
    BY <2>8, SameStream
  <2>10. Holds(q)
    BY <1>1, <2>7, <2>8, <2>9 DEF Holds
  <2>11. r.read \in Nat
    BY <1>1 DEF Request
  <2>12. Waits(q)
    BY <1>1, <2>5, <2>7, <2>8, <2>11 DEF Waits, Wanted, Stuck, HungUp
  <2> QED BY <2>6, <2>7, <2>8, <2>10, <2>12, HappensHolds DEF Good, q
<1>5. CASE Ends(i)
  <2> DEFINE q == [r EXCEPT !.fin = TRUE]
  <2>1. Happens(i, q) /\ r.sock = "up"
    BY <1>5 DEF Ends
  <2>2. /\ q \in Request /\ q.arrived = r.arrived /\ q.lookup = r.lookup /\ q.timer = r.timer
        /\ q.state = r.state /\ q.events = r.events /\ q.got = r.got /\ q.size = r.size
        /\ q.read = r.read /\ q.https = r.https /\ q.ready = r.ready /\ q.reply = r.reply
        /\ q.sock = r.sock
    BY <1>1 DEF Request
  <2> HIDE DEF q
  <2>3. Stream(q) = Stream(r)
    BY <2>2, SameStream
  <2>4. Holds(q)
    BY <1>1, <2>1, <2>2, <2>3 DEF Holds
  <2>5. Waits(q)
    BY <1>1, <2>2 DEF Waits, Wanted, Stuck, HungUp
  <2> QED BY <2>1, <2>2, <2>4, <2>5, HappensHolds DEF Good
<1>6. CASE Resets(i)
  <2> DEFINE q == [r EXCEPT !.sock = "reset"]
  <2>1. Happens(i, q) /\ r.sock = "up"
    BY <1>6 DEF Resets
  <2>2. /\ q \in Request /\ q.arrived = r.arrived /\ q.lookup = r.lookup /\ q.timer = r.timer
        /\ q.state = r.state /\ q.events = r.events /\ q.got = r.got /\ q.size = r.size
        /\ q.read = r.read /\ q.https = r.https /\ q.ready = r.ready /\ q.reply = r.reply
        /\ q.sock = "reset"
    BY <1>1 DEF Request
  <2> HIDE DEF q
  <2>3. Stream(q) = Stream(r)
    BY <2>2, SameStream
  <2>4. Holds(q)
    BY <1>1, <2>1, <2>2, <2>3 DEF Holds
  <2>5. Waits(q)
    BY <1>1, <2>1, <2>2 DEF Waits, Wanted, Stuck, HungUp
  <2> QED BY <2>1, <2>2, <2>4, <2>5, HappensHolds DEF Good
<1> QED BY <1>2, <1>3, <1>4, <1>5, <1>6 DEF World

\* The loop looks at what is ready, and finds only what is waited for.
LEMMA PollHolds == ASSUME IInv, Poll PROVE IInv'
<1>1. /\ rev' = [s \in Slots |-> Ready(s)] /\ UNCHANGED <<listener, req>>
  BY DEF Poll
<1>2. ASSUME NEW i \in Updates
      PROVE  /\ Ready(<<i, "timer">>) = IF req[i].timer THEN {"IN"} ELSE {}
             /\ Ready(<<i, "lookup">>) = IF req[i].lookup \in {"found", "failed"} THEN {"IN"} ELSE {}
             /\ Ready(<<i, "sock">>) \subseteq {"IN", "OUT", "HUP"}
             /\ "IN" \in Ready(<<i, "sock">>) => "IN" \in req[i].events
             /\ "OUT" \in Ready(<<i, "sock">>) => "OUT" \in req[i].events
             /\ Ready(<<i, "sock">>) # {} => req[i].sock \notin {"none", "connecting"}
  <2> DEFINE r == req[i]
             dead == r.sock \in {"refused", "reset"}
             in == r.arrived > r.read \/ r.fin \/ dead
             out == r.sock \in {"accepted", "up"} \/ dead
             shown == {f \in {"IN", "OUT"} \cap r.events : IF f = "IN" THEN in ELSE out}
             hup == IF dead \/ (r.fin /\ "RDHUP" \in r.events) THEN {"HUP"} ELSE {}
  <2>1. /\ Ready(<<i, "timer">>) = IF r.timer THEN {"IN"} ELSE {}
        /\ Ready(<<i, "lookup">>) = IF r.lookup \in {"found", "failed"} THEN {"IN"} ELSE {}
        /\ Ready(<<i, "sock">>) = shown \cup hup
    BY DEF Ready
  <2>2. shown \subseteq {"IN", "OUT"} \cap r.events /\ hup \subseteq {"HUP"}
    OBVIOUS
  <2>3. shown \cup hup # {} => r.sock \notin {"none", "connecting"}
    BY DEF IInv, Holds, Request
  <2> HIDE DEF shown, hup
  <2> QED BY <2>1, <2>2, <2>3
<1>3. rev' \in [Slots -> SUBSET {"IN", "OUT", "HUP"}]
  <2>1. ASSUME NEW s \in Slots PROVE Ready(s) \subseteq {"IN", "OUT", "HUP"}
    <3>1. PICK i \in Updates, x \in {"timer", "lookup", "sock"} : s = <<i, x>>
      BY DEF Slots
    <3> QED BY <1>2, <3>1
  <2> QED BY <1>1, <2>1
<1>4. \A i \in Updates : Fresh(i)'
  <2> SUFFICES ASSUME NEW i \in Updates PROVE Fresh(i)'
    OBVIOUS
  <2>1. \A x \in {"timer", "lookup", "sock"} : rev'[<<i, x>>] = Ready(<<i, x>>)
    BY <1>1 DEF Slots
  <2>2. req'[i] = req[i]
    BY <1>1
  <2> QED BY <1>2, <2>1, <2>2 DEF Fresh
<1> QED BY <1>1, <1>3, <1>4 DEF IInv, ListenerOK, listener, HandleAlive, Live

\* An update is asked for while none is on.
LEMMA StartHolds == ASSUME IInv, StartUpdate PROVE IInv'
<1>1. PICK i \in Updates, https \in BOOLEAN :
        /\ req[i].state = "NONE" /\ handle' = i /\ handle = 0
        /\ Put(i, [Goto(Unborn, "PREPARING") EXCEPT !.https = https])
        /\ UNCHANGED <<open, tmp, rules, rev>>
  <2>1. \A i \in Updates : Https[i] \subseteq BOOLEAN
    BY RulesAssumption DEF Updates
  <2> QED BY <2>1 DEF StartUpdate
<1> DEFINE g == Goto(Unborn, "PREPARING")
           q == [g EXCEPT !.https = https]
<1>2. /\ g \in Request /\ Same(g, Unborn) /\ g.timer /\ g.state = "PREPARING"
      /\ g.events = Unborn.events /\ g.got = Unborn.got /\ g.size = Unborn.size
  BY Inert, GotoIs DEF Good, States
<1> HIDE DEF g
<1>3. /\ q \in Request /\ q.timer /\ q.state = "PREPARING" /\ q.events = {} /\ q.got = 0
      /\ q.size = 0 /\ q.sock = "none" /\ q.lookup = "off" /\ q.arrived = 0 /\ q.fin = FALSE
  BY <1>2 DEF Request, Same, Unborn
<1> HIDE DEF q
<1>4. Len(Stream(q)) \in Nat
  BY <1>3, StreamSeq
<1>5. Good(q)
  BY <1>3, <1>4 DEF Good, Holds, Waits, Wanted, Gone, Talking
<1>6. /\ req' \in [Updates -> Request] /\ req'[i] = q
      /\ \A j \in Updates \ {i} : req'[j] = req[j]
  BY <1>1, <1>3 DEF Put, IInv, q, g
<1>7. \A j \in Updates : Holds(req'[j]) /\ Waits(req'[j])
  BY <1>5, <1>6 DEF IInv, Good
<1>8. \A j \in Updates : Fresh(j)'
  <2>1. rev[<<i, "timer">>] = {} /\ rev[<<i, "lookup">>] = {} /\ rev[<<i, "sock">>] = {}
    BY <1>1, Waited DEF Gone, Talking
  <2> QED BY <1>1, <1>6, <2>1 DEF IInv, Fresh
<1>9. HandleAlive'
  <2>1. \A j \in Updates : ~Going(req[j].state)
    BY <1>1, MaxNat DEF IInv, HandleAlive, Live, Going
  <2>2. \A j \in Updates : handle' = j <=> Going(req'[j].state)
    BY <1>1, <1>3, <1>6, <2>1 DEF Going
  <2>3. handle' # NullFollowed
    BY <1>1, MaxNat DEF NullFollowed, Updates
  <2> QED BY <2>2, <2>3 DEF HandleAlive, Live, Going
<1>10. ListenerOK'
  <2>1. handle' \in 0..MaxUpdates
    BY <1>1, MaxNat DEF Updates
  <2> QED BY <1>1, <2>1 DEF IInv, ListenerOK
<1> QED BY <1>1, <1>6, <1>7, <1>8, <1>9, <1>10 DEF IInv

\* Every step keeps the invariant.
LEMMA StepHolds == IInv /\ [Next]_vars => IInv'
<1> SUFFICES ASSUME IInv, [Next]_vars PROVE IInv'
  OBVIOUS
<1>1. CASE UNCHANGED vars
  BY <1>1 DEF vars, listener, IInv, ListenerOK, Fresh, HandleAlive, Live
<1> QED BY <1>1, StartHolds, PollHolds, ServeHolds, WorldHolds DEF Next, Serve

\* A process that has just started.
LEMMA InitHolds == Init => IInv
<1> SUFFICES ASSUME Init PROVE IInv
  OBVIOUS
<1>1. \A i \in Updates : req[i] = Unborn
  BY DEF Init
<1>2. \A i \in Updates : Good(req[i]) /\ req[i].state = "NONE"
  BY <1>1, Inert
<1>3. req \in [Updates -> Request]
  BY <1>2 DEF Init, Good
<1>4. rev \in [Slots -> SUBSET {"IN", "OUT", "HUP"}] /\ \A s \in Slots : rev[s] = {}
  BY DEF Init, Idle
<1>5. \A i \in Updates : Fresh(i)
  BY <1>4 DEF Fresh, Slots
<1>6. HandleAlive
  BY <1>2, MaxNat DEF Init, HandleAlive, Live, NullFollowed
<1>7. ListenerOK
  <2>1. handle = 0 /\ open = FALSE /\ tmp = <<>> /\ rules = [of |-> "-", data |-> <<>>]
    BY DEF Init
  <2>2. <<>> \in Seq(Updates)
    OBVIOUS
  <2> QED BY <2>1, <2>2, MaxNat DEF ListenerOK
<1> QED BY <1>2, <1>3, <1>4, <1>5, <1>6, <1>7 DEF IInv, Good

-----------------------------------------------------------------------------
(* The results.                                                             *)

\* The listener, the objects and what poll reported keep their types, and nothing is
\* ever reported of an object that is not there (TypeOK).
THEOREM TypeCorrect == Spec => []TypeOK
<1>1. ASSUME IInv PROVE TypeOK
  <2>1. ASSUME NEW s \in Slots, rev[s] # {}
        PROVE  req[s[1]].state \notin {"NONE", "DELETED"}
    <3>1. PICK i \in Updates, x \in {"timer", "lookup", "sock"} : s = <<i, x>>
      BY DEF Slots
    <3>2. rev[<<i, "timer">>] # {} \/ rev[<<i, "lookup">>] # {} \/ rev[<<i, "sock">>] # {}
      BY <2>1, <3>1
    <3>3. req[i].state \notin Gone
      BY <1>1, <3>2, Waited DEF Gone, Talking
    <3> QED BY <3>1, <3>3 DEF Gone
  <2>2. handle \in 0..MaxUpdates \cup {NullFollowed}
    BY <1>1 DEF IInv, ListenerOK
  <2> QED BY <1>1, <2>1, <2>2 DEF TypeOK, IInv, ListenerOK
<1> QED BY <1>1, InitHolds, StepHolds, PTL DEF Spec

\* Config's pointer and the requests agree (HandleAlive): it is never left to a request
\* that has closed, never followed when it is null, and no request runs on without it,
\* for any number of updates and whichever of the module's faults occur.
THEOREM PointerHonest == Spec => []HandleAlive
<1>1. IInv => HandleAlive
  BY DEF IInv
<1> QED BY <1>1, InitHolds, StepHolds, PTL DEF Spec

\* A request is woken by one thing, and by one at least (OneWaker).
THEOREM WokenOnce == Spec => []OneWaker
<1>1. ASSUME IInv, NEW i \in Updates, req[i].state \notin {"NONE", "DELETED"}, ~Wedged(i)
      PROVE  LET r == req[i]
                 w1 == {w \in {"timer", "lookup", "sock", "hangup"} :
                     CASE w = "timer" -> r.timer
                       [] w = "lookup" -> r.lookup # "off"
                       [] w = "sock" -> r.events \cap {"IN", "OUT"} # {}
                       [] w = "hangup" -> /\ r.sock = "refused" /\ r.events = {"RDHUP"}
                                          /\ r.state # "CLOSED"}
             IN \E x : w1 = {x}
  <2> DEFINE r == req[i]
             a == r.timer
             b == r.lookup # "off"
             c == r.events \cap {"IN", "OUT"} # {}
             d == r.sock = "refused" /\ r.events = {"RDHUP"} /\ r.state # "CLOSED"
             w1 == {w \in {"timer", "lookup", "sock", "hangup"} :
                      CASE w = "timer" -> a [] w = "lookup" -> b [] w = "sock" -> c
                        [] w = "hangup" -> d}
  <2>1. Holds(r) /\ Waits(r) /\ r \in Request /\ r.state \notin Gone /\ ~Stuck(r)
    BY <1>1 DEF IInv, Gone, Wedged, Stuck, Wanted
  <2>2. \/ a /\ ~b /\ ~c /\ ~d
        \/ ~a /\ b /\ ~c /\ ~d
        \/ ~a /\ ~b /\ c /\ ~d
        \/ ~a /\ ~b /\ ~c /\ d
    BY <2>1 DEF Holds, Waits, HungUp, Wanted, Talking, Gone, Request, States
  <2> HIDE DEF a, b, c, d
  <2>3. /\ w1 \subseteq {"timer", "lookup", "sock", "hangup"}
        /\ ("timer" \in w1 <=> a) /\ ("lookup" \in w1 <=> b)
        /\ ("sock" \in w1 <=> c) /\ ("hangup" \in w1 <=> d)
    <3>1. w1 \subseteq {"timer", "lookup", "sock", "hangup"}
      OBVIOUS
    <3>2. "timer" \in w1 <=> a
      OBVIOUS
    <3>3. "lookup" \in w1 <=> b
      OBVIOUS
    <3>4. "sock" \in w1 <=> c
      OBVIOUS
    <3>5. "hangup" \in w1 <=> d
      OBVIOUS
    <3> QED BY <3>1, <3>2, <3>3, <3>4, <3>5
  <2> HIDE DEF w1
  <2>4. w1 = {"timer"} \/ w1 = {"lookup"} \/ w1 = {"sock"} \/ w1 = {"hangup"}
    BY <2>2, <2>3
  <2>5. \E x : w1 = {x}
    BY <2>4
  <2> QED BY <2>5 DEF w1, a, b, c, d
<1>2. IInv => OneWaker
  <2> SUFFICES ASSUME IInv, NEW i \in Updates, req[i].state \notin {"NONE", "DELETED"}, ~Wedged(i)
               PROVE  Cardinality({w \in {"timer", "lookup", "sock", "hangup"} :
                     CASE w = "timer" -> req[i].timer
                       [] w = "lookup" -> req[i].lookup # "off"
                       [] w = "sock" -> req[i].events \cap {"IN", "OUT"} # {}
                       [] w = "hangup" -> /\ req[i].sock = "refused" /\ req[i].events = {"RDHUP"}
                                          /\ req[i].state # "CLOSED"}) = 1
    BY DEF OneWaker
  <2> QED BY <1>1, FS_Singleton
<1> QED BY <1>2, InitHolds, StepHolds, PTL DEF Spec

-----------------------------------------------------------------------------
(* What ends up in the rules file, for any segments, resets, early ends and  *)
(* failed writes: what it was, or a whole body.  A request is where its      *)
(* reply allows it to be for what it has written so far (Place, Copied).     *)

Copying ==
  {"RECEIVE_CONTENT", "CHUNK_LENGTH", "CHUNK_DATA", "CHUNK_TAIL", "COMPLETED"}

Base(r) == IF r.https THEN 2 ELSE 0

\* Where in its reply a request stands that has written n bytes.
Place(r, n) ==
  \/ /\ r.reply = "length"
     /\ \/ r.state = "RECEIVE_CONTENT" /\ r.size = 2 /\ n = r.got /\ r.got <= 2
        \/ r.state = "COMPLETED" /\ n = 2
  \/ /\ r.reply = "chunked"
     /\ \/ r.state = "CHUNK_LENGTH" /\ r.read = Base(r) + 2 /\ n = 0
        \/ r.state = "CHUNK_LENGTH" /\ r.read = Base(r) + 7 /\ n = 1
        \/ r.state = "CHUNK_DATA" /\ r.read = Base(r) + 4 /\ r.size = 1 /\ r.got = 0 /\ n = 0
        \/ r.state = "CHUNK_DATA" /\ r.read = Base(r) + 9 /\ r.size = 0 /\ r.got = 0 /\ n = 1
        \/ r.state = "CHUNK_TAIL" /\ r.read = Base(r) + 5 /\ r.size = 1 /\ n = 1
        \/ r.state = "CHUNK_TAIL" /\ r.read = Base(r) + 9 /\ r.size = 0 /\ n = 1
        \/ r.state = "COMPLETED" /\ n = 1

\* n bytes of update i.
Text(i, n) == [k \in 1..n |-> i]

\* The temporary file holds what a request has read of the content.
Copied(i, r, t) ==
  r.state \in Copying =>
    \/ r.state = "COMPLETED" /\ r.reply \in {"unframed", "-"}
    \/ \E n \in 0..2 : t = Text(i, n) /\ Place(r, n)

FileInv == WholeRules /\ \A i \in Updates : Copied(i, req[i], tmp)

-----------------------------------------------------------------------------
(* The replies.                                                             *)

\* How many bytes of content the two framed replies have.
LEMMA BytesAre == Bytes("length") = 2 /\ Bytes("chunked") = 1
<1>1. {k \in DOMAIN ReplyTokens("length") : ReplyTokens("length")[k] = "byte"} = {3, 4}
  BY DEF ReplyTokens
<1>2. {k \in DOMAIN ReplyTokens("chunked") : ReplyTokens("chunked")[k] = "byte"} = {5}
  BY DEF ReplyTokens
<1>3. Cardinality({3} \cup {4}) = 2
  <2>1. IsFiniteSet({3}) /\ Cardinality({3}) = 1
    BY FS_Singleton
  <2> QED BY <2>1, FS_AddElement
<1>4. Cardinality({5}) = 1
  BY FS_Singleton
<1>5. {3, 4} = {3} \cup {4}
  OBVIOUS
<1> QED BY <1>1, <1>2, <1>3, <1>4, <1>5 DEF Bytes

\* The chunked reply has a length line at either chunk, the second one of length 0.
LEMMA ChunkedAt ==
  ASSUME NEW r \in Request, r.reply = "chunked"
  PROVE  /\ Len(Stream(r)) = Base(r) + 11
         /\ Stream(r)[Base(r) + 4] = "chunk" /\ Stream(r)[Base(r) + 9] = "last"
<1> DEFINE hello == <<"part", "hello">>
           t == <<"part", "header", "part", "chunk", "byte", "part", "tail",
                  "part", "last", "part", "tail">>
<1>1. ReplyTokens("chunked") = t
  BY DEF ReplyTokens
<1>2. t \in Seq(Token) /\ Len(t) = 11 /\ t[4] = "chunk" /\ t[9] = "last"
  BY DEF Token
<1>3. hello \in Seq(Token) /\ Len(hello) = 2 /\ <<>> \in Seq(Token)
  BY DEF Token
<1>4. Stream(r) = IF r.https THEN hello \o t ELSE <<>> \o t
  BY <1>1 DEF Stream
<1>5. ASSUME NEW h \in Seq(Token), NEW u \in Seq(Token), Len(u) = 11
      PROVE  /\ Len(h \o u) = Len(h) + 11
             /\ (h \o u)[Len(h) + 4] = u[4] /\ (h \o u)[Len(h) + 9] = u[9]
  <2> DEFINE s == h \o u
             n == Len(u)
             m == Len(h)
  <2>1. Len(s) = m + n
    OBVIOUS
  <2>2. \A k \in 1..n : s[m + k] = u[k]
    OBVIOUS
  <2>3. n = 11
    BY <1>5
  <2> HIDE DEF n, s, m
  <2>4. Len(s) = m + 11 /\ s[m + 4] = u[4] /\ s[m + 9] = u[9]
    BY <2>1, <2>2, <2>3
  <2> QED BY <2>4 DEF s, m
<1>6. Len(<<>>) = 0
  OBVIOUS
<1> HIDE DEF t, hello
<1>7. CASE r.https
  <2>1. /\ Len(hello \o t) = Len(hello) + 11
        /\ (hello \o t)[Len(hello) + 4] = t[4] /\ (hello \o t)[Len(hello) + 9] = t[9]
    BY <1>2, <1>3, <1>5
  <2>2. /\ Len(hello \o t) = 2 + 11
        /\ (hello \o t)[2 + 4] = t[4] /\ (hello \o t)[2 + 9] = t[9]
    BY <1>3, <2>1
  <2> QED BY <1>2, <1>4, <1>7, <2>2 DEF Base
<1>8. CASE ~r.https
  <2>1. /\ Len(<<>> \o t) = 0 + 11
        /\ (<<>> \o t)[0 + 4] = t[4] /\ (<<>> \o t)[0 + 9] = t[9]
    BY <1>2, <1>3, <1>5, <1>6
  <2> QED BY <1>2, <1>4, <1>8, <2>1 DEF Base
<1> QED BY <1>7, <1>8

\* The second token of what is unread.
LEMMA Second ==
  ASSUME NEW r \in Request, r.arrived <= Len(Stream(r)), Len(Unread(r)) >= 2
  PROVE  Unread(r)[2] = Stream(r)[r.read + 2]
<1>1. r.arrived \in Nat /\ r.read \in Nat /\ Stream(r) \in Seq(Token)
  BY StreamSeq DEF Request
<1> DEFINE s == Stream(r)
           m == r.read + 1
           n == r.arrived
<1>s. s \in Seq(Token) /\ m \in Nat \ {0} /\ n \in Nat /\ n <= Len(s)
  BY <1>1
<1> HIDE DEF s
<1>2. CASE m <= n
  <2>1. /\ Len(SubSeq(s, m, n)) = n - m + 1
        /\ \A k \in 1..(n - m + 1) : SubSeq(s, m, n)[k] = s[m + k - 1]
    <3> HIDE DEF m, n
    <3> QED BY <1>s, <1>2
  <2>2. Len(SubSeq(s, m, n)) >= 2
    BY DEF Unread, s
  <2>3. 2 \in 1..(n - m + 1)
    BY <1>1, <2>1, <2>2
  <2> HIDE DEF m, n
  <2>4. SubSeq(s, m, n)[2] = s[m + 2 - 1]
    BY <2>1, <2>3
  <2>5. m + 2 - 1 = r.read + 2
    BY <1>1 DEF m
  <2> QED BY <2>4, <2>5 DEF Unread, s, m, n
<1>3. CASE ~(m <= n)
  <2>1. Unread(r) = <<>>
    BY <1>1, <1>3, SubSeqProperties DEF Unread
  <2> QED BY <2>1
<1> QED BY <1>2, <1>3

\* Bytes behind bytes.
LEMMA TextsJoin ==
  ASSUME NEW i, NEW a \in Nat, NEW b \in Nat
  PROVE  Text(i, a) \o Text(i, b) = Text(i, a + b)
<1>1. Text(i, a) \in Seq({i}) /\ Len(Text(i, a)) = a
  BY DEF Text
<1>2. Text(i, b) \in Seq({i}) /\ Len(Text(i, b)) = b
  BY DEF Text
<1>3. Text(i, a + b) \in Seq({i}) /\ Len(Text(i, a + b)) = a + b
  BY DEF Text
<1> DEFINE s == Text(i, a) \o Text(i, b)
<1>4. s \in Seq({i}) /\ Len(s) = a + b
  BY <1>1, <1>2, ConcatProperties
<1>5. \A k \in 1..(a + b) : s[k] = i /\ Text(i, a + b)[k] = i
  <2> HIDE DEF s
  <2> QED BY <1>4 DEF Text
<1> HIDE DEF s
<1>6. s = Text(i, a + b)
  BY <1>3, <1>4, <1>5
<1> QED BY <1>6 DEF s

-----------------------------------------------------------------------------
(* A call of _doHttp.                                                       *)

\* Once its header is read, a request copies from the content's first byte.
LEMMA HeaderCopies ==
  ASSUME WholeRules, NEW i \in Updates, NEW r \in Request, DoReceiveHeader(i, r)
  PROVE  \E q : /\ Put(i, q) /\ Copied(i, q, tmp') /\ WholeRules'
<1> DEFINE base == IF r.https THEN 2 ELSE 0
           size == IF r.reply = "length" THEN Bytes(r.reply) ELSE 0
           g == Goto(r, AfterHeader(r))
           start == base + 2
           q == [g EXCEPT !.read = start, !.got = 0, !.size = size]
           wait == WaitToRecv([r EXCEPT !.read = r.arrived])
<1>1. r.state = "RECEIVE_HEADER"
  BY DEF DoReceiveHeader
<1>2. CASE Put(i, wait) /\ UNCHANGED listener
  <2>1. wait.state = "RECEIVE_HEADER"
    BY <1>1 DEF WaitToRecv, Request
  <2> HIDE DEF wait
  <2> QED BY <1>2, <2>1 DEF Copied, Copying, listener, WholeRules
<1>3. CASE OnResponseHeader(i, q)
  <2>1. AfterHeader(r) = IF r.reply = "length" THEN "RECEIVE_CONTENT"
                         ELSE IF r.reply = "chunked" THEN "CHUNK_LENGTH" ELSE "COMPLETED"
    BY DEF AfterHeader
  <2>2. AfterHeader(r) \in States
    BY <2>1 DEF States
  <2>3. /\ g \in Request /\ g.state = AfterHeader(r) /\ g.https = r.https /\ g.reply = r.reply
    BY <2>2, GotoIs DEF Same
  <2>4. size = IF r.reply = "length" THEN 2 ELSE 0
    BY BytesAre
  <2>5. start \in Nat /\ size \in Nat
    BY <2>4
  <2> HIDE DEF g, size, start
  <2>6. /\ q \in Request /\ q.state = AfterHeader(r) /\ q.https = r.https /\ q.reply = r.reply
        /\ q.read = start /\ q.got = 0 /\ q.size = size
    BY <2>3, <2>5 DEF Request
  <2> HIDE DEF q
  <2>7. CASE r.reply # "missing" /\ tmp' = <<>> /\ Put(i, q) /\ UNCHANGED rules
    <3>1. Text(i, 0) = <<>>
      BY DEF Text
    <3>2. r.reply \in Names \cup {"-"}
      BY RepliesNamed DEF Request
    <3>3. q.state # "COMPLETED" => Place(q, 0)
      BY <2>1, <2>4, <2>6, <2>7, <3>2 DEF Place, Base, Names, start
    <3>4. q.state = "COMPLETED" => q.reply \in {"unframed", "-"}
      BY <2>1, <2>6, <2>7, <3>2 DEF Names
    <3>5. Copied(i, q, tmp')
      <4>1. 0 \in 0..2
        OBVIOUS
      <4> QED BY <2>7, <3>1, <3>3, <3>4, <4>1 DEF Copied
    <3> QED BY <2>7, <3>5 DEF WholeRules
  <2>8. CASE Put(i, Goto(q, "CLOSED")) /\ UNCHANGED <<tmp, rules>>
    <3>1. Goto(q, "CLOSED").state = "CLOSED"
      BY <2>6, GotoIs DEF States
    <3> QED BY <2>8, <3>1 DEF Copied, Copying, WholeRules
  <2> QED BY <1>3, <2>6, <2>7, <2>8 DEF OnResponseHeader
<1> QED BY <1>2, <1>3 DEF DoReceiveHeader

\* A length line says that a byte comes, or that none is left.
LEMMA LengthCopies ==
  ASSUME WholeRules, NEW i \in Updates, NEW r \in Request, r.arrived <= Len(Stream(r)),
         Copied(i, r, tmp), DoChunkLength(i, r)
  PROVE  \E q : /\ Put(i, q) /\ Copied(i, q, tmp') /\ WholeRules'
<1>1. r.state = "CHUNK_LENGTH" /\ UNCHANGED <<tmp, rules>>
  BY DEF DoChunkLength, listener
<1>2. PICK n \in 0..2 : tmp = Text(i, n) /\ Place(r, n)
  BY <1>1 DEF Copied, Copying
<1>3. /\ r.reply = "chunked"
      /\ (r.read = Base(r) + 2 /\ n = 0) \/ (r.read = Base(r) + 7 /\ n = 1)
  BY <1>1, <1>2 DEF Place
<1>4. WholeRules'
  BY <1>1 DEF WholeRules
<1>5. CASE Put(i, r)
  BY <1>1, <1>4, <1>5
<1>6. CASE Put(i, WaitToRecv(r))
  <2>1. /\ WaitToRecv(r).state = r.state /\ WaitToRecv(r).read = r.read
        /\ WaitToRecv(r).reply = r.reply /\ WaitToRecv(r).https = r.https
    BY WaitIs DEF Same
  <2>2. Place(WaitToRecv(r), n)
    BY <1>1, <1>3, <2>1 DEF Place, Base
  <2> QED BY <1>1, <1>2, <1>4, <1>6, <2>2 DEF Copied
<1>7. ASSUME Len(Unread(r)) >= 2,
             Put(i, Goto([r EXCEPT !.read = @ + 2, !.got = 0,
                           !.size = IF Unread(r)[2] = "chunk" THEN 1 ELSE 0], "CHUNK_DATA"))
      PROVE  \E q : /\ Put(i, q) /\ Copied(i, q, tmp') /\ WholeRules'
  <2> DEFINE read == r.read + 2
             size == IF Unread(r)[2] = "chunk" THEN 1 ELSE 0
             g == [r EXCEPT !.read = read, !.got = 0, !.size = size]
             q == Goto(g, "CHUNK_DATA")
  <2>1. read \in Nat /\ size \in Nat
    BY DEF Request
  <2>2. size = IF n = 0 THEN 1 ELSE 0
    <3>1. Unread(r)[2] = Stream(r)[read]
      BY <1>7, Second
    <3>2. Unread(r)[2] = IF n = 0 THEN "chunk" ELSE "last"
      BY <1>3, <3>1, ChunkedAt DEF Base
    <3> QED BY <1>3, <3>2
  <2>3. read = Base(r) + IF n = 0 THEN 4 ELSE 9
    BY <1>3 DEF Base
  <2>4. Put(i, q)
    BY <1>7
  <2> HIDE DEF read, size
  <2>5. /\ g \in Request /\ g.read = read /\ g.got = 0 /\ g.size = size
        /\ g.https = r.https /\ g.reply = r.reply
    BY <2>1 DEF Request
  <2> HIDE DEF g
  <2>6. /\ q.state = "CHUNK_DATA" /\ q.read = read /\ q.got = 0 /\ q.size = size
        /\ q.https = r.https /\ q.reply = r.reply
    BY <2>5 DEF Goto, SetTimeout, Request
  <2> HIDE DEF q
  <2>7. Place(q, n)
    BY <1>3, <2>2, <2>3, <2>6 DEF Place, Base
  <2> QED BY <1>1, <1>2, <1>4, <2>4, <2>7 DEF Copied
<1> QED BY <1>5, <1>6, <1>7 DEF DoChunkLength

\* The line behind a chunk leads to the next chunk or, behind the empty one, to the end.
LEMMA TailCopies ==
  ASSUME WholeRules, NEW i \in Updates, NEW r \in Request,
         Copied(i, r, tmp), DoChunkTail(i, r)
  PROVE  \E q : /\ Put(i, q) /\ Copied(i, q, tmp') /\ WholeRules'
<1>1. r.state = "CHUNK_TAIL" /\ UNCHANGED <<tmp, rules>>
  BY DEF DoChunkTail, listener
<1>2. PICK n \in 0..2 : tmp = Text(i, n) /\ Place(r, n)
  BY <1>1 DEF Copied, Copying
<1>3. /\ r.reply = "chunked" /\ n = 1
      /\ (r.read = Base(r) + 5 /\ r.size = 1) \/ (r.read = Base(r) + 9 /\ r.size = 0)
  BY <1>1, <1>2 DEF Place
<1>4. WholeRules'
  BY <1>1 DEF WholeRules
<1>5. CASE Put(i, WaitToRecv(r))
  <2>1. /\ WaitToRecv(r).state = r.state /\ WaitToRecv(r).read = r.read
        /\ WaitToRecv(r).reply = r.reply /\ WaitToRecv(r).https = r.https
        /\ WaitToRecv(r).size = r.size
    BY WaitIs DEF Same
  <2>2. Place(WaitToRecv(r), n)
    BY <1>1, <1>3, <2>1 DEF Place, Base
  <2> QED BY <1>1, <1>2, <1>4, <1>5, <2>2 DEF Copied
<1> DEFINE read == r.read + 2
           next == IF r.size > 0 THEN "CHUNK_LENGTH" ELSE "COMPLETED"
           g == [r EXCEPT !.read = read]
           q == Goto(g, next)
<1>6. CASE Put(i, q)
  <2>1. read \in Nat
    BY DEF Request
  <2>2. (next = "CHUNK_LENGTH" /\ read = Base(r) + 7) \/ next = "COMPLETED"
    BY <1>3 DEF Base
  <2> HIDE DEF read, next
  <2>3. g \in Request /\ g.read = read /\ g.https = r.https /\ g.reply = r.reply
    BY <2>1 DEF Request
  <2> HIDE DEF g
  <2>4. q.state = next /\ q.read = read /\ q.https = r.https /\ q.reply = r.reply
    BY <2>3 DEF Goto, SetTimeout, Request
  <2> HIDE DEF q
  <2>5. Place(q, n)
    BY <1>3, <2>2, <2>4 DEF Place, Base
  <2> QED BY <1>1, <1>2, <1>4, <1>6, <2>5 DEF Copied
<1>7. Put(i, WaitToRecv(r)) \/ Put(i, q)
  BY DEF DoChunkTail
<1> QED BY <1>5, <1>6, <1>7

\* What has arrived of the content is behind what was written before.
LEMMA ContentCopies ==
  ASSUME WholeRules, NEW i \in Updates, NEW r \in Request, r.arrived <= Len(Stream(r)),
         Copied(i, r, tmp), DoReceiveContent(i, r)
  PROVE  \E q : /\ Put(i, q) /\ Copied(i, q, tmp') /\ WholeRules'
<1> DEFINE left == r.size - r.got
           m == IF Len(Unread(r)) < left THEN Len(Unread(r)) ELSE left
           next == IF r.state = "CHUNK_DATA" THEN "CHUNK_TAIL" ELSE "COMPLETED"
           read == r.read + m
           got == r.got + m
           g == [r EXCEPT !.read = read, !.got = got]
<1>1. r.state \in {"RECEIVE_CONTENT", "CHUNK_DATA"} /\ rules' = rules
  BY DEF DoReceiveContent
<1>2. PICK n \in 0..2 : tmp = Text(i, n) /\ Place(r, n)
  BY <1>1 DEF Copied, Copying
<1>3. WholeRules'
  BY <1>1 DEF WholeRules
<1>4. \/ /\ r.reply = "length" /\ r.state = "RECEIVE_CONTENT" /\ r.size = 2
         /\ n = r.got /\ r.got <= 2
      \/ /\ r.reply = "chunked" /\ r.state = "CHUNK_DATA" /\ r.got = 0
         /\ \/ r.read = Base(r) + 4 /\ r.size = 1 /\ n = 0
            \/ r.read = Base(r) + 9 /\ r.size = 0 /\ n = 1
  BY <1>1, <1>2 DEF Place
<1>5. Len(Unread(r)) \in Nat /\ r.got \in Nat /\ r.read \in Nat /\ Base(r) \in Nat
  <2>1. r.got \in Nat /\ r.read \in Nat
    BY DEF Request
  <2>2. Base(r) \in Nat
    BY DEF Base
  <2>3. Len(Unread(r)) \in Nat
    BY UnreadLen
  <2> QED BY <2>1, <2>2, <2>3
<1>6. left \in Nat /\ m \in Nat /\ m <= left
  <2>1. left \in Nat
    BY <1>4, <1>5
  <2> HIDE DEF left
  <2> QED BY <1>5, <2>1
<1>7. /\ g \in Request /\ g.read = read /\ g.got = got /\ g.size = r.size
      /\ g.state = r.state /\ g.https = r.https /\ g.reply = r.reply
  <2>1. read \in Nat /\ got \in Nat
    BY <1>5, <1>6
  <2> HIDE DEF read, got
  <2> QED BY <2>1 DEF Request
<1>8. n + m \in 0..2
  BY <1>4, <1>5, <1>6
<1>9. \/ /\ tmp' = tmp \o Text(i, m)
         /\ Put(i, IF m < left THEN WaitToRecv(g) ELSE Goto(g, next))
      \/ tmp' = tmp /\ Put(i, Goto(g, "CLOSED"))
  <2>1. g = [r EXCEPT !.read = r.read + m, !.got = r.got + m]
    OBVIOUS
  <2> QED BY DEF DoReceiveContent, Text
<1> HIDE DEF g
<1>10. CASE tmp' = tmp /\ Put(i, Goto(g, "CLOSED"))
  <2>1. Goto(g, "CLOSED").state = "CLOSED"
    BY <1>7, GotoIs DEF States
  <2> QED BY <1>3, <1>10, <2>1 DEF Copied, Copying
<1>11. ASSUME tmp' = tmp \o Text(i, m) PROVE tmp' = Text(i, n + m)
  <2>1. n \in Nat /\ m \in Nat
    BY <1>6
  <2> HIDE DEF m
  <2>2. Text(i, n) \o Text(i, m) = Text(i, n + m)
    BY <2>1, TextsJoin
  <2> QED BY <1>2, <1>11, <2>2
<1>12. CASE tmp' = tmp \o Text(i, m) /\ m < left /\ Put(i, WaitToRecv(g))
  <2> DEFINE q == WaitToRecv(g)
  <2>1. /\ q.read = read /\ q.got = got /\ q.size = r.size
        /\ q.state = r.state /\ q.https = r.https /\ q.reply = r.reply
    BY <1>7, WaitIs DEF Same
  <2> HIDE DEF q
  <2>2. got = r.got + m /\ read = r.read + m
    OBVIOUS
  <2>3. left = r.size - r.got
    OBVIOUS
  <2> HIDE DEF m, left, got, read
  <2>4. Place(q, n + m)
    <3>1. CASE r.state = "RECEIVE_CONTENT"
      BY <1>4, <1>5, <1>6, <1>12, <2>1, <2>2, <2>3, <3>1 DEF Place
    <3>2. CASE r.state = "CHUNK_DATA"
      <4>1. m = 0 /\ got = 0 /\ read = r.read /\ n + m = n
        BY <1>4, <1>5, <1>6, <1>12, <2>2, <2>3, <3>2
      <4> QED BY <1>4, <2>1, <3>2, <4>1 DEF Place, Base
    <3> QED BY <1>1, <3>1, <3>2
  <2> QED BY <1>3, <1>8, <1>11, <1>12, <2>4 DEF Copied, q
<1>13. CASE tmp' = tmp \o Text(i, m) /\ ~(m < left) /\ Put(i, Goto(g, next))
  <2> DEFINE q == Goto(g, next)
  <2>1. /\ q.read = read /\ q.size = r.size /\ q.state = next
        /\ q.https = r.https /\ q.reply = r.reply
    BY <1>7 DEF Goto, SetTimeout, Request
  <2> HIDE DEF q
  <2>2. read = r.read + m /\ left = r.size - r.got
    OBVIOUS
  <2> HIDE DEF m, left, read
  <2>3. m = left
    BY <1>5, <1>6, <1>13
  <2>4. Place(q, n + m)
    <3>1. CASE r.state = "RECEIVE_CONTENT"
      <4>1. n + m = 2 /\ next = "COMPLETED"
        BY <1>4, <1>5, <2>2, <2>3, <3>1
      <4> QED BY <1>4, <2>1, <3>1, <4>1 DEF Place
    <3>2. CASE r.state = "CHUNK_DATA"
      <4>1. next = "CHUNK_TAIL" /\ n + m = 1
        BY <1>4, <2>2, <2>3, <3>2
      <4>2. \/ read = Base(r) + 5 /\ r.size = 1
            \/ read = Base(r) + 9 /\ r.size = 0
        BY <1>4, <1>5, <2>2, <2>3, <3>2
      <4> QED BY <1>4, <2>1, <3>2, <4>1, <4>2 DEF Place, Base
    <3> QED BY <1>1, <3>1, <3>2
  <2> QED BY <1>3, <1>8, <1>11, <1>13, <2>4 DEF Copied, q
<1> QED BY <1>9, <1>10, <1>12, <1>13

\* What a completed request leaves in the rules file is the whole body.
LEMMA CompletedCopies ==
  ASSUME WholeRules, NEW i \in Updates, NEW r \in Request, req[i].reply = r.reply,
         Copied(i, r, tmp), DoCompleted(i, r)
  PROVE  \E q : /\ Put(i, q) /\ Copied(i, q, tmp') /\ WholeRules'
<1>1. /\ r.state = "COMPLETED" /\ Put(i, Goto(r, "CLOSED"))
      /\ rules' = [of |-> r.reply, data |-> tmp]
  BY DEF DoCompleted, OnResponseCompleted
<1>2. Goto(r, "CLOSED").state = "CLOSED"
  BY GotoIs DEF States
<1>3. WholeRules'
  <2>1. rules'.of = r.reply /\ rules'.data = tmp
    BY <1>1
  <2>2. CASE r.reply \in {"unframed", "-"}
    BY <2>1, <2>2 DEF WholeRules
  <2>3. CASE \E n \in 0..2 : tmp = Text(i, n) /\ Place(r, n)
    <3>1. PICK n \in 0..2 : tmp = Text(i, n) /\ Place(r, n)
      BY <2>3
    <3>2. n = Bytes(r.reply)
      BY <1>1, <3>1, BytesAre DEF Place
    <3>3. rules'.data = [k \in 1..Bytes(rules'.of) |-> i]
      BY <2>1, <3>1, <3>2 DEF Text
    <3> QED BY <3>3 DEF WholeRules
  <2> QED BY <1>1, <2>2, <2>3 DEF Copied, Copying
<1> QED BY <1>1, <1>2, <1>3 DEF Copied, Copying

\* Whatever state a request is in, its next step keeps the copy in place.
LEMMA DoCopies ==
  ASSUME WholeRules, NEW i \in Updates, NEW r \in Request, r.arrived <= Len(Stream(r)),
         req[i].reply = r.reply, Copied(i, r, tmp), DoHttp(i, r)
  PROVE  \E q : /\ Put(i, q) /\ Copied(i, q, tmp') /\ WholeRules'
                /\ tmp' = tmp \/ Going(r.state)
<1>1. ASSUME NEW q, Put(i, q), q.state \notin Copying, UNCHANGED listener
      PROVE  \E x : /\ Put(i, x) /\ Copied(i, x, tmp') /\ WholeRules'
                    /\ tmp' = tmp \/ Going(r.state)
  BY <1>1 DEF Copied, listener, WholeRules
<1>2. CASE DoPreparing(i, r)
  <2>1. Lookup([r EXCEPT !.state = "RESOLVING"]).state = "RESOLVING"
    BY DEF Lookup, Request
  <2> QED BY <1>1, <1>2, <2>1 DEF DoPreparing, Copying
<1>3. CASE DoResolving(i, r)
  <2> DEFINE found == r.lookup = "found"
             q == Connect([r EXCEPT !.state = "CONNECTING", !.lookup = "off"], found)
  <2>1. q.state = "CONNECTING"
    BY DEF Connect, WaitToSend, Request
  <2>2. Put(i, q) /\ UNCHANGED listener
    BY <1>3 DEF DoResolving
  <2> HIDE DEF q
  <2> QED BY <1>1, <2>1, <2>2 DEF Copying
<1>4. CASE DoConnecting(i, r)
  <2>1. Goto(r, "SEND_HEADER").state = "SEND_HEADER"
    BY GotoIs DEF States
  <2> QED BY <1>1, <1>4, <2>1 DEF DoConnecting, Copying
<1>5. CASE DoSendHeader(i, r)
  <2> DEFINE sent == WaitToRecv([r EXCEPT !.state = "RECEIVE_HEADER"])
             rest == WaitToSend([r EXCEPT !.stalled = TRUE])
  <2>1. sent.state = "RECEIVE_HEADER"
    BY DEF WaitToRecv, Request
  <2>2. rest.state = r.state /\ r.state = "SEND_HEADER"
    BY <1>5 DEF WaitToSend, Request, DoSendHeader
  <2>3. (Put(i, sent) \/ Put(i, rest)) /\ UNCHANGED listener
    BY <1>5 DEF DoSendHeader
  <2> HIDE DEF sent, rest
  <2> QED BY <1>1, <2>1, <2>2, <2>3 DEF Copying
<1>6. CASE DoReceiveHeader(i, r)
  BY <1>6, HeaderCopies DEF DoReceiveHeader, Going
<1>7. CASE DoChunkLength(i, r)
  BY <1>7, LengthCopies DEF DoChunkLength, Going
<1>8. CASE DoReceiveContent(i, r)
  BY <1>8, ContentCopies DEF DoReceiveContent, Going
<1>9. CASE DoChunkTail(i, r)
  BY <1>9, TailCopies DEF DoChunkTail, Going
<1>10. CASE DoCompleted(i, r)
  BY <1>10, CompletedCopies DEF DoCompleted, Going
<1>11. CASE DoClosed(i, r)
  BY <1>1, <1>11, Inert DEF DoClosed, Copying
<1> QED BY <1>2, <1>3, <1>4, <1>5, <1>6, <1>7, <1>8, <1>9, <1>10, <1>11 DEF DoHttp

\* The handshake comes before all that.
LEMMA OnTcpCopies ==
  ASSUME WholeRules, NEW i \in Updates, NEW r \in Request, r.arrived <= Len(Stream(r)),
         r.https /\ ~r.ready => r.state \notin Copying,
         req[i].reply = r.reply, Copied(i, r, tmp), OnTcp(i, r)
  PROVE  \E q : /\ Put(i, q) /\ Copied(i, q, tmp') /\ WholeRules'
                /\ tmp' = tmp \/ Going(r.state)
<1>1. CASE ~(r.https /\ ~r.ready)
  BY <1>1, DoCopies DEF OnTcp
<1>2. CASE r.https /\ ~r.ready
  <2> DEFINE read == IF r.arrived > 2 THEN 2 ELSE r.arrived
             r1 == TransferRecv(r)
             r2 == [r1 EXCEPT !.ready = TRUE]
             q == WaitToRecv(r1)
  <2>1. read \in Nat /\ r1 = [r EXCEPT !.read = read]
    BY DEF Request, TransferRecv
  <2>2. IF r1.read = 2 THEN DoHttp(i, r2) ELSE Put(i, q) /\ UNCHANGED listener
    BY <1>2 DEF OnTcp, Handshake
  <2> HIDE DEF read, r1
  <2>3. r1 \in Request /\ Same(r1, r) /\ r1.state = r.state
    BY <2>1 DEF Request, Same
  <2>4. /\ r2 \in Request /\ r2.state = r1.state /\ r2.https = r1.https
        /\ r2.reply = r1.reply /\ r2.arrived = r1.arrived
    BY <2>3 DEF Request
  <2>5. q.state = r1.state
    BY <2>3, WaitIs
  <2> HIDE DEF r2, q
  <2>6. CASE DoHttp(i, r2)
    <3>1. Stream(r2) = Stream(r)
      BY <2>3, <2>4, SameStream DEF Same
    <3>2. Copied(i, r2, tmp) /\ req[i].reply = r2.reply
      BY <1>2, <2>3, <2>4 DEF Copied, Same
    <3>3. r2.arrived <= Len(Stream(r2))
      BY <2>3, <2>4, <3>1 DEF Same
    <3>4. r2.state = r.state
      BY <2>3, <2>4
    <3> QED BY <2>4, <2>6, <3>2, <3>3, <3>4, DoCopies
  <2>7. CASE Put(i, q) /\ UNCHANGED listener
    BY <1>2, <2>3, <2>5, <2>7 DEF Copied, listener, WholeRules
  <2> QED BY <2>2, <2>6, <2>7
<1> QED BY <1>1, <1>2

-----------------------------------------------------------------------------
(* The steps of the process.                                                *)

\* One request writes at a time: the one the pointer stands for.
LEMMA OthersWait ==
  ASSUME IInv, FileInv, NEW i \in Updates, NEW q, Put(i, q), Copied(i, q, tmp'), WholeRules',
         tmp' = tmp \/ Going(req[i].state)
  PROVE  FileInv'
<1>1. req'[i] = q /\ \A j \in Updates \ {i} : req'[j] = req[j]
  BY DEF IInv, Put
<1>2. ASSUME NEW j \in Updates \ {i} PROVE Copied(j, req'[j], tmp')
  <2>1. CASE tmp' = tmp
    BY <1>1, <2>1 DEF FileInv
  <2>2. CASE Going(req[i].state)
    <3>1. handle = i
      BY <2>2 DEF IInv, HandleAlive, Live, Going
    <3>2. ~Live(j)
      BY <3>1 DEF IInv, HandleAlive
    <3> QED BY <1>1, <3>2 DEF Live, Copied, Copying
  <2> QED BY <2>1, <2>2
<1> QED BY <1>1, <1>2 DEF FileInv

\* An event of a request changes none of what its copy depends on.
LEMMA EventCopies ==
  ASSUME NEW i, NEW r, NEW s, NEW t, Copied(i, r, t), s.state = r.state, s.reply = r.reply,
         s.read = r.read, s.got = r.got, s.size = r.size, s.https = r.https
  PROVE  Copied(i, s, t)
BY DEF Copied, Place, Base

\* A callback of the loop.
LEMMA ServeCopies ==
  ASSUME IInv, FileInv, NEW i \in Updates,
         ServeTimer(i) \/ ServeLookup(i) \/ ServeRead(i) \/ ServeWrite(i) \/ ServeClosed(i)
  PROVE  FileInv'
<1> DEFINE r == req[i]
<1>1. r \in Request /\ Holds(r) /\ Copied(i, r, tmp) /\ WholeRules
  BY DEF IInv, FileInv
<1>2. r.https /\ ~r.ready => r.state \notin Copying
  BY <1>1 DEF Holds, Copying, Talking
<1>3. CASE Die
  <2>1. \A j \in Updates : req'[j].state \in {"NONE", "DELETED"}
    BY <1>3, Inert DEF Die
  <2> QED BY <1>1, <1>3, <2>1 DEF Die, FileInv, Copied, Copying, WholeRules
<1>4. ASSUME NEW s \in Request, s.state = r.state, s.read = r.read, s.got = r.got, s.size = r.size,
             s.https = r.https, s.reply = r.reply, s.arrived = r.arrived, s.ready = r.ready
      PROVE  /\ Copied(i, s, tmp) /\ s.arrived <= Len(Stream(s))
             /\ DoHttp(i, s) => FileInv'
             /\ OnTcp(i, s) => FileInv'
  <2>0. req[i].reply = s.reply
    BY <1>4
  <2>00. s.https /\ ~s.ready => s.state \notin Copying
    BY <1>2, <1>4
  <2>1. Copied(i, s, tmp) /\ WholeRules
    BY <1>1, <1>4, EventCopies
  <2>2. Stream(s) = Stream(r)
    BY <1>4, SameStream
  <2>3. s.arrived <= Len(Stream(s))
    BY <1>1, <1>4, <2>2 DEF Holds
  <2> HIDE DEF r
  <2>4. ASSUME DoHttp(i, s) PROVE FileInv'
    <3>0. \E q : /\ Put(i, q) /\ Copied(i, q, tmp') /\ WholeRules'
                 /\ tmp' = tmp \/ Going(s.state)
      BY <2>0, <2>1, <2>3, <2>4, DoCopies
    <3>1. PICK q : /\ Put(i, q) /\ Copied(i, q, tmp') /\ WholeRules'
                   /\ tmp' = tmp \/ Going(s.state)
      BY <3>0
    <3> QED BY <1>4, <3>1, OthersWait DEF r
  <2>5. ASSUME OnTcp(i, s) PROVE FileInv'
    <3>0. \E q : /\ Put(i, q) /\ Copied(i, q, tmp') /\ WholeRules'
                 /\ tmp' = tmp \/ Going(s.state)
      BY <2>0, <2>00, <2>1, <2>3, <2>5, OnTcpCopies
    <3>1. PICK q : /\ Put(i, q) /\ Copied(i, q, tmp') /\ WholeRules'
                   /\ tmp' = tmp \/ Going(s.state)
      BY <3>0
    <3> QED BY <1>4, <3>1, OthersWait DEF r
  <2> QED BY <2>1, <2>3, <2>4, <2>5
<1>5. CASE ServeTimer(i)
  <2> DEFINE s == [r EXCEPT !.timer = FALSE]
  <2>1. DoHttp(i, s)
    BY <1>5 DEF ServeTimer
  <2>2. /\ s \in Request /\ s.state = r.state /\ s.read = r.read /\ s.got = r.got
        /\ s.size = r.size /\ s.https = r.https /\ s.reply = r.reply
        /\ s.arrived = r.arrived /\ s.ready = r.ready
    BY <1>1 DEF Request
  <2> HIDE DEF s
  <2> QED BY <1>4, <2>1, <2>2
<1>6. CASE ServeLookup(i)
  BY <1>1, <1>4, <1>6 DEF ServeLookup
<1>7. CASE ServeRead(i)
  <2> DEFINE e == r.events \ {"IN"}
             s == [r EXCEPT !.events = e]
  <2>1. Die \/ OnTcp(i, s)
    BY <1>7 DEF ServeRead
  <2>2. e \in SUBSET {"IN", "OUT", "RDHUP"}
    BY <1>1 DEF Request
  <2> HIDE DEF e
  <2>3. /\ s \in Request /\ s.state = r.state /\ s.read = r.read /\ s.got = r.got
        /\ s.size = r.size /\ s.https = r.https /\ s.reply = r.reply
        /\ s.arrived = r.arrived /\ s.ready = r.ready
    BY <1>1, <2>2 DEF Request
  <2> HIDE DEF s
  <2> QED BY <1>3, <1>4, <2>1, <2>3
<1>8. CASE ServeWrite(i)
  <2> DEFINE e == r.events \ {"OUT"}
             s == [r EXCEPT !.events = e]
             up == [s EXCEPT !.sock = "up", !.ssl = s.https]
  <2>0. r.sock \in {"refused", "accepted", "up", "reset"}
    <3>1. /\ "OUT" \in rev[<<i, "sock">>] /\ Fresh(i)
      BY <1>8 DEF ServeWrite, IInv
    <3> QED BY <1>1, <3>1 DEF Fresh, Request
  <2>1. \/ Put(i, s) /\ UNCHANGED listener
        \/ OnTcp(i, up) \/ OnTcp(i, s) \/ Die
    <3>1. s.sock = r.sock
      BY <1>1 DEF Request
    <3> QED BY <1>8, <2>0, <3>1 DEF ServeWrite
  <2>2. e \in SUBSET {"IN", "OUT", "RDHUP"}
    BY <1>1 DEF Request
  <2> HIDE DEF e
  <2>3. /\ s \in Request /\ s.state = r.state /\ s.read = r.read /\ s.got = r.got
        /\ s.size = r.size /\ s.https = r.https /\ s.reply = r.reply
        /\ s.arrived = r.arrived /\ s.ready = r.ready
    BY <1>1, <2>2 DEF Request
  <2> HIDE DEF s
  <2>4. /\ up \in Request /\ up.state = s.state /\ up.read = s.read /\ up.got = s.got
        /\ up.size = s.size /\ up.https = s.https /\ up.reply = s.reply
        /\ up.arrived = s.arrived /\ up.ready = s.ready
    BY <2>3 DEF Request
  <2> HIDE DEF up
  <2>5. CASE Put(i, s) /\ UNCHANGED listener
    <3>1. tmp' = tmp /\ WholeRules' /\ Copied(i, s, tmp')
      BY <1>1, <1>4, <2>3, <2>5 DEF listener, WholeRules
    <3> QED BY <2>5, <3>1, OthersWait
  <2>6. CASE OnTcp(i, up)
    BY <1>4, <2>3, <2>4, <2>6
  <2>7. CASE OnTcp(i, s)
    BY <1>4, <2>3, <2>7
  <2> QED BY <1>3, <2>1, <2>5, <2>6, <2>7
<1>9. CASE ServeClosed(i)
  <2> DEFINE s == [r EXCEPT !.events = {}]
  <2>1. OnTcpDisconnected(i, s)
    BY <1>9 DEF ServeClosed
  <2>2. s \in Request /\ s.state = r.state
    BY <1>1 DEF Request
  <2> HIDE DEF s
  <2>3. Goto(s, "CLOSED").state = "CLOSED"
    BY <2>2, GotoIs DEF States
  <2>4. PICK q : Put(i, q) /\ q.state = "CLOSED" /\ UNCHANGED <<tmp, rules>>
    BY <2>1, <2>3 DEF OnTcpDisconnected, OnHttpClientError, listener
  <2>5. Copied(i, q, tmp') /\ WholeRules'
    BY <1>1, <2>4 DEF Copied, Copying, WholeRules
  <2> QED BY <2>4, <2>5, OthersWait
<1> QED BY <1>5, <1>6, <1>7, <1>8, <1>9

\* The network, the lookup's thread and the loop's poll write nothing.
LEMMA WorldCopies ==
  ASSUME IInv, FileInv, NEW i \in Updates, World(i)
  PROVE  FileInv'
<1> DEFINE r == req[i]
<1>1. r \in Request /\ Holds(r) /\ Copied(i, r, tmp) /\ WholeRules
  BY DEF IInv, FileInv
<1>2. ASSUME NEW q, Happens(i, q), Copied(i, q, tmp)
      PROVE  FileInv'
  <2>1. Put(i, q) /\ tmp' = tmp /\ rules' = rules
    BY <1>2 DEF Happens, listener
  <2> QED BY <1>1, <1>2, <2>1, OthersWait DEF WholeRules
<1>3. CASE LookedUp(i)
  <2>1. PICK l \in {"found", "failed"} : Happens(i, [r EXCEPT !.lookup = l])
    BY <1>3 DEF LookedUp
  <2> DEFINE q == [r EXCEPT !.lookup = l]
  <2>2. /\ q.state = r.state /\ q.read = r.read /\ q.got = r.got /\ q.size = r.size
        /\ q.https = r.https /\ q.reply = r.reply
    BY <1>1 DEF Request
  <2> HIDE DEF q
  <2> QED BY <1>1, <1>2, <2>1, <2>2, EventCopies DEF q
<1>4. CASE Answers(i)
  <2>1. \E q : Happens(i, q) /\ q.state = r.state
    <3>1. \A reply : [r EXCEPT !.sock = "accepted", !.reply = reply].state = r.state
      BY <1>1 DEF Request
    <3>2. [r EXCEPT !.sock = "refused"].state = r.state
      BY <1>1 DEF Request
    <3> QED BY <1>4, <3>1, <3>2 DEF Answers
  <2>2. r.state \notin Copying
    BY <1>1, <1>4 DEF Answers, Holds, Talking, Copying
  <2> QED BY <1>2, <2>1, <2>2 DEF Copied
<1>5. CASE Sends(i)
  <2>1. PICK n : Happens(i, [r EXCEPT !.arrived = n])
    BY <1>5 DEF Sends
  <2> DEFINE q == [r EXCEPT !.arrived = n]
  <2>2. /\ q.state = r.state /\ q.read = r.read /\ q.got = r.got /\ q.size = r.size
        /\ q.https = r.https /\ q.reply = r.reply
    BY <1>1 DEF Request
  <2> HIDE DEF q
  <2> QED BY <1>1, <1>2, <2>1, <2>2, EventCopies DEF q
<1>6. CASE Ends(i) \/ Resets(i)
  <2> DEFINE ended == [r EXCEPT !.fin = TRUE]
             reset == [r EXCEPT !.sock = "reset"]
  <2>1. Happens(i, ended) \/ Happens(i, reset)
    BY <1>6 DEF Ends, Resets
  <2>2. /\ ended.state = r.state /\ ended.read = r.read /\ ended.got = r.got
        /\ ended.size = r.size /\ ended.https = r.https /\ ended.reply = r.reply
    BY <1>1 DEF Request
  <2>3. /\ reset.state = r.state /\ reset.read = r.read /\ reset.got = r.got
        /\ reset.size = r.size /\ reset.https = r.https /\ reset.reply = r.reply
    BY <1>1 DEF Request
  <2> HIDE DEF ended, reset
  <2> QED BY <1>1, <1>2, <2>1, <2>2, <2>3, EventCopies
<1> QED BY <1>3, <1>4, <1>5, <1>6 DEF World

\* Every step keeps the copy in place.
LEMMA StepCopies == IInv /\ FileInv /\ [Next]_vars => FileInv'
<1> SUFFICES ASSUME IInv, FileInv, [Next]_vars PROVE FileInv'
  OBVIOUS
<1>1. CASE UNCHANGED vars \/ Poll
  BY <1>1 DEF vars, listener, Poll, FileInv, WholeRules
<1>2. CASE StartUpdate
  <2>0. \A i \in Updates : Https[i] \subseteq BOOLEAN
    BY RulesAssumption DEF Updates
  <2>1. PICK i \in Updates, https \in BOOLEAN :
          Put(i, [Goto(Unborn, "PREPARING") EXCEPT !.https = https])
    BY <1>2, <2>0 DEF StartUpdate
  <2>2. Goto(Unborn, "PREPARING") \in Request /\ Goto(Unborn, "PREPARING").state = "PREPARING"
    BY GotoIs, Inert DEF Good, States
  <2> DEFINE q == [Goto(Unborn, "PREPARING") EXCEPT !.https = https]
  <2>3. q.state = "PREPARING"
    BY <2>2 DEF Request
  <2>4. Put(i, q) /\ tmp' = tmp /\ rules' = rules
    BY <1>2, <2>1 DEF StartUpdate
  <2> HIDE DEF q
  <2>5. Copied(i, q, tmp') /\ WholeRules'
    BY <2>3, <2>4 DEF Copied, Copying, FileInv, WholeRules
  <2> QED BY <2>4, <2>5, OthersWait
<1> QED BY <1>1, <1>2, ServeCopies, WorldCopies DEF Next, Serve

\* The rules file is what it was or a whole body of a reply that names its length or
\* its chunks (WholeRules): what a failed write, an early end, a reset or a process
\* that died left behind never reaches it, nor does anything of another update.
THEOREM FileWhole == Spec => []WholeRules
<1>1. Init => FileInv
  <2> SUFFICES ASSUME Init PROVE FileInv
    OBVIOUS
  <2>1. \A i \in Updates : req[i].state = "NONE"
    BY Inert DEF Init
  <2>2. rules.of = "-"
    BY DEF Init
  <2> QED BY <2>1, <2>2 DEF FileInv, Copied, Copying, WholeRules
<1>2. FileInv => WholeRules
  BY DEF FileInv
<1> QED BY <1>1, <1>2, InitHolds, StepHolds, StepCopies, PTL DEF Spec
=============================================================================

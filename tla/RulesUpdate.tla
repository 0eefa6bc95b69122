---------------------------- MODULE RulesUpdate ----------------------------
(***************************************************************************)
(* The download of the rules file: Config's listener, HttpClient's request *)
(* object, the socket (in the clear or under SSL) and the timer it runs    *)
(* on, the lookup thread, and the poll loop that serves them.  The server  *)
(* is not part of the repository: it answers with one of the replies       *)
(* below, in segments of its own choice, and may end or reset the          *)
(* connection at any time.                                                 *)
(*                                                                         *)
(* A reply is a sequence of tokens; "part" is the first piece of a line    *)
(* that the next token completes.  A request is deleted on a timer, so the *)
(* next one may be started before: there are several objects.  The slots   *)
(* of a pass are served in any order, as the order of slots depends on     *)
(* what was attached and detached before.  Every timeout is 0, a timer of  *)
(* one nanosecond, which has run out by the next poll.  A throw that       *)
(* reaches the loop ends the process (Die).  Requests carry no content     *)
(* (Config sends none); the SSL library hands over whole what has arrived. *)
(*                                                                         *)
(* Left out: an https connection that is refused.  SSLConnection::_close   *)
(* does not close the socket before SSL_new, so such a socket outlives its *)
(* request and goes on calling a listener that is freed; what is below     *)
(* says nothing of a process in which that has happened.                   *)
(***************************************************************************)
EXTENDS Integers, Sequences, FiniteSets

CONSTANTS
  MaxUpdates,    \* bound: updates asked for
  Replies,       \* which replies the server may give to each update
  Https,         \* whether the rules' address may be an https one, for each update
  Faults,        \* what may go wrong: a subset of the kinds below
  ResetAllowed   \* may the server reset a connection that is up?

ASSUME RulesAssumption ==
  /\ MaxUpdates \in Nat \ {0}
  /\ Replies \in [1..MaxUpdates -> SUBSET {"length", "chunked", "unframed", "missing"}]
  /\ Https \in [1..MaxUpdates -> SUBSET BOOLEAN]
  /\ Faults \subseteq {"lookup", "refused", "stall", "disk", "fin"}
  /\ ResetAllowed \in BOOLEAN

Updates == 1..MaxUpdates

\* What the server may answer: a body of given length; one in two chunks, the
\* last empty; one that only the end of the connection ends; no file.
ReplyTokens(name) ==
  CASE name = "length"   -> <<"part", "header", "byte", "byte">>
    [] name = "chunked"  -> <<"part", "header", "part", "chunk", "byte", "part", "tail",
                              "part", "last", "part", "tail">>
    [] name = "unframed" -> <<"part", "header", "byte">>
    [] name = "missing"  -> <<"part", "header">>

Bytes(name) == Cardinality({k \in DOMAIN ReplyTokens(name) : ReplyTokens(name)[k] = "byte"})

States == {"NONE", "PREPARING", "RESOLVING", "CONNECTING", "SEND_HEADER",
           "RECEIVE_HEADER", "RECEIVE_CONTENT", "CHUNK_LENGTH", "CHUNK_DATA",
           "CHUNK_TAIL", "COMPLETED", "CLOSED", "DELETED"}

\* Config::_httpRequest after a null pointer was followed.
NullFollowed == -1

VARIABLES
  handle,   \* Config::_httpRequest: the update whose request it points to, or 0
  open,     \* fd # -1
  tmp,      \* the temporary file: of which update each byte is
  rules,    \* the rules file, and the reply it was completed for
  req,      \* the request objects
  rev       \* revents of the pass that have not been served

listener == <<handle, open, tmp, rules>>
vars == <<listener, req, rev>>

AllReplies == UNION {Replies[i] : i \in Updates}

\* A request object with its timer (set and polled, or not), its lookup,
\* its socket (and what the loop polls it for), and what the server sent on it.
Request ==
  [state : States,
   timer : BOOLEAN,
   lookup : {"off", "running", "found", "failed"},
   sock : {"none", "connecting", "accepted", "refused", "up", "reset"},
   events : SUBSET {"IN", "OUT", "RDHUP"},
   https : BOOLEAN, ssl : BOOLEAN, ready : BOOLEAN,
   reply : AllReplies \cup {"-"}, arrived : Nat, read : Nat, fin : BOOLEAN,
   size : Nat, got : Nat, stalled : BOOLEAN]

Unborn ==
  [state |-> "NONE", timer |-> FALSE, lookup |-> "off",
   sock |-> "none", events |-> {}, https |-> FALSE, ssl |-> FALSE, ready |-> FALSE,
   reply |-> "-", arrived |-> 0, read |-> 0, fin |-> FALSE, size |-> 0, got |-> 0,
   stalled |-> FALSE]

Slots == Updates \X {"timer", "lookup", "sock"}

Idle == [s \in Slots |-> {}]

TypeOK ==
  /\ handle \in 0..MaxUpdates \cup {NullFollowed}
  /\ open \in BOOLEAN
  /\ tmp \in Seq(Updates)
  /\ rules \in [of : AllReplies \cup {"-"}, data : Seq(Updates)]
  /\ req \in [Updates -> Request]
  /\ rev \in [Slots -> SUBSET {"IN", "OUT", "HUP"}]
  /\ \A s \in Slots : rev[s] # {} => req[s[1]].state \notin {"NONE", "DELETED"}

Init ==
  /\ handle = 0 /\ open = FALSE /\ tmp = <<>> /\ rules = [of |-> "-", data |-> <<>>]
  /\ req = [i \in Updates |-> Unborn]
  /\ rev = Idle

-----------------------------------------------------------------------------
(* The stream a request reads.                                              *)

\* SSL's handshake comes before the reply.
Stream(r) == (IF r.https THEN <<"part", "hello">> ELSE <<>>)
             \o (IF r.reply = "-" THEN <<>> ELSE ReplyTokens(r.reply))

Unread(r) == SubSeq(Stream(r), r.read + 1, r.arrived)

\* The file descriptor calls.
SetTimeout(r) == [r EXCEPT !.timer = TRUE]
WaitToRecv(r) == [r EXCEPT !.events = {"IN", "RDHUP"}]
WaitToSend(r) == [r EXCEPT !.events = {"OUT", "RDHUP"}]

\* SocketConnection::connect.
Connect(r, found) == WaitToSend([r EXCEPT !.sock = IF found THEN "connecting" ELSE "refused"])

\* DnsQuerySystem's constructor: an event and a thread.
Lookup(r) == [r EXCEPT !.lookup = "running"]

\* _parseHeader and what follows it: where the reply goes on.
AfterHeader(r) ==
  CASE r.reply = "length" -> "RECEIVE_CONTENT"
    [] r.reply = "chunked" -> "CHUNK_LENGTH"
    [] OTHER -> "COMPLETED"

Goto(r, s) == SetTimeout([r EXCEPT !.state = s])

Put(i, r) == req' = [req EXCEPT ![i] = r]

-----------------------------------------------------------------------------
(* Config's listener.                                                       *)

\* _close, of the listener: the pointer is followed without a test.
Forget ==
  /\ handle' = IF handle = 0 THEN NullFollowed ELSE 0
  /\ open' = FALSE

\* onResponseHeader: r is the request as it goes on if the file can be opened.
OnResponseHeader(i, r) ==
  \/ /\ r.reply # "missing"
     /\ open' = TRUE /\ tmp' = <<>>
     /\ Put(i, r)
     /\ UNCHANGED <<handle, rules>>
  \/ /\ r.reply = "missing" \/ "disk" \in Faults
     /\ Forget
     /\ Put(i, Goto(r, "CLOSED"))
     /\ UNCHANGED <<tmp, rules>>

\* onHttpClientError.
OnHttpClientError == Forget /\ UNCHANGED <<tmp, rules>>

\* onResponseCompleted: what was downloaded takes the place of the rules file.
OnResponseCompleted(i) ==
  /\ Forget
  /\ rules' = [of |-> req[i].reply, data |-> tmp] /\ tmp' = <<>>

-----------------------------------------------------------------------------
(* _Request::_doHttp, one action for each state; r is the object as the     *)
(* event that led here left it.                                             *)

DoPreparing(i, r) ==
  /\ r.state = "PREPARING"
  /\ Put(i, Lookup([r EXCEPT !.state = "RESOLVING"]))
  /\ UNCHANGED listener

\* A name that was not found gives the address 0, where nobody listens.
DoResolving(i, r) ==
  /\ r.state = "RESOLVING"
  /\ Put(i, Connect([r EXCEPT !.state = "CONNECTING", !.lookup = "off"], r.lookup = "found"))
  /\ UNCHANGED listener

\* (A wrong variant: room in the socket is waited for as well.)
DoConnectingTwice(i, r) ==
  /\ r.state = "CONNECTING"
  /\ Put(i, WaitToSend(Goto(r, "SEND_HEADER")))
  /\ UNCHANGED listener

DoConnecting(i, r) ==
  /\ r.state = "CONNECTING"
  /\ Put(i, Goto(r, "SEND_HEADER"))
  /\ UNCHANGED listener

\* The socket takes all of the request or, once, a part of it.
DoSendHeader(i, r) ==
  /\ r.state = "SEND_HEADER"
  /\ \/ Put(i, WaitToRecv([r EXCEPT !.state = "RECEIVE_HEADER"]))
     \/ "stall" \in Faults /\ ~r.stalled /\ Put(i, WaitToSend([r EXCEPT !.stalled = TRUE]))
  /\ UNCHANGED listener

\* Everything up to the end of the header is taken out of the socket.
DoReceiveHeader(i, r) ==
  LET whole == \E k \in DOMAIN Unread(r) : Unread(r)[k] = "header"
      base == IF r.https THEN 2 ELSE 0
  IN /\ r.state = "RECEIVE_HEADER"
     /\ \/ /\ ~whole
           /\ Put(i, WaitToRecv([r EXCEPT !.read = r.arrived]))
           /\ UNCHANGED listener
        \/ /\ whole
           /\ OnResponseHeader(i, [Goto(r, AfterHeader(r)) EXCEPT
                                     !.read = base + 2, !.got = 0,
                                     !.size = IF r.reply = "length" THEN Bytes(r.reply) ELSE 0])

\* A line that has not arrived as a whole is left unread, and nothing is waited for.
DoChunkLength(i, r) ==
  /\ r.state = "CHUNK_LENGTH"
  /\ CASE Len(Unread(r)) >= 2 ->
            Put(i, Goto([r EXCEPT !.read = @ + 2, !.got = 0,
                           !.size = IF Unread(r)[2] = "chunk" THEN 1 ELSE 0], "CHUNK_DATA"))
       [] Len(Unread(r)) = 1 -> Put(i, r)
       [] OTHER -> Put(i, WaitToRecv(r))
  /\ UNCHANGED listener

\* (A wrong variant: the end of the loop is taken for the end of the content.)
DoReceiveContentShort(i, r) ==
  LET left == r.size - r.got
      n == IF Len(Unread(r)) < left THEN Len(Unread(r)) ELSE left
      r1 == [r EXCEPT !.read = @ + n, !.got = @ + n]
  IN /\ r.state \in {"RECEIVE_CONTENT", "CHUNK_DATA"}
     /\ tmp' = tmp \o [k \in 1..n |-> i]
     /\ Put(i, Goto(r1, IF r.state = "CHUNK_DATA" THEN "CHUNK_TAIL" ELSE "COMPLETED"))
     /\ UNCHANGED <<handle, open, rules>>

\* What has arrived of the content is written, piece by piece; a write that fails
\* closes the request.
DoReceiveContent(i, r) ==
  LET left == r.size - r.got
      n == IF Len(Unread(r)) < left THEN Len(Unread(r)) ELSE left
      r1 == [r EXCEPT !.read = @ + n, !.got = @ + n]
  IN /\ r.state \in {"RECEIVE_CONTENT", "CHUNK_DATA"}
     /\ \/ /\ tmp' = tmp \o [k \in 1..n |-> i]
           /\ Put(i, IF n < left THEN WaitToRecv(r1)
                     ELSE Goto(r1, IF r.state = "CHUNK_DATA" THEN "CHUNK_TAIL"
                                   ELSE "COMPLETED"))
           /\ UNCHANGED <<handle, open, rules>>
        \/ /\ "disk" \in Faults /\ n > 0
           /\ Forget
           /\ Put(i, Goto(r1, "CLOSED"))
           /\ UNCHANGED <<tmp, rules>>

\* (A wrong variant: half a tail is neither taken nor waited for.)
DoChunkTailDeaf(i, r) ==
  /\ r.state = "CHUNK_TAIL"
  /\ Put(i, IF Len(Unread(r)) < 2 THEN r
            ELSE Goto([r EXCEPT !.read = @ + 2],
                      IF r.size > 0 THEN "CHUNK_LENGTH" ELSE "COMPLETED"))
  /\ UNCHANGED listener

DoChunkTail(i, r) ==
  /\ r.state = "CHUNK_TAIL"
  /\ Put(i, IF Len(Unread(r)) < 2 THEN WaitToRecv(r)
            ELSE Goto([r EXCEPT !.read = @ + 2],
                      IF r.size > 0 THEN "CHUNK_LENGTH" ELSE "COMPLETED"))
  /\ UNCHANGED listener

DoCompleted(i, r) ==
  /\ r.state = "COMPLETED"
  /\ Put(i, Goto(r, "CLOSED"))
  /\ OnResponseCompleted(i)

\* delete this: the timer and the socket are detached with it, which is so of
\* every connection but an https one that was never up.
Deleted == [Unborn EXCEPT !.state = "DELETED"]

DoClosed(i, r) ==
  /\ r.state = "CLOSED"
  /\ Put(i, Deleted)
  /\ UNCHANGED listener

DoHttp(i, r) ==
  \/ DoPreparing(i, r)     \/ DoResolving(i, r)      \/ DoConnecting(i, r)
  \/ DoSendHeader(i, r)    \/ DoReceiveHeader(i, r)  \/ DoChunkLength(i, r)
  \/ DoReceiveContent(i, r) \/ DoChunkTail(i, r)     \/ DoCompleted(i, r)
  \/ DoClosed(i, r)

-----------------------------------------------------------------------------
(* The callbacks of the loop.                                               *)

\* (A wrong variant: detach leaves the events of the pass.)
ServedAlone(s) == rev' = [rev EXCEPT ![s] = {}]

\* A pass is over for a slot once it is served, and for all slots of an object
\* that is deleted in it.
Served(s) ==
  rev' = [t \in Slots |->
            IF t = s \/ (t[1] = s[1] /\ req'[s[1]].state = "DELETED") THEN {} ELSE rev[t]]

ServeTimer(i) ==
  /\ rev[<<i, "timer">>] # {}
  /\ DoHttp(i, [req[i] EXCEPT !.timer = FALSE])
  /\ Served(<<i, "timer">>)

ServeLookup(i) ==
  /\ rev[<<i, "lookup">>] # {}
  /\ DoHttp(i, req[i])
  /\ Served(<<i, "lookup">>)

\* SSL's handshake: what has arrived of it is taken over; once it is all there,
\* the listener is told.
TransferRecv(r) == [r EXCEPT !.read = IF r.arrived > 2 THEN 2 ELSE r.arrived]

Handshake(i, r) ==
  LET r1 == TransferRecv(r) IN
  IF r1.read = 2 THEN DoHttp(i, [r1 EXCEPT !.ready = TRUE])
  ELSE Put(i, WaitToRecv(r1)) /\ UNCHANGED listener

\* onTcpToRecv and onTcpToSend, of the SSL layer and of the request.
OnTcp(i, r) == IF r.https /\ ~r.ready THEN Handshake(i, r) ELSE DoHttp(i, r)

\* A socket that was reset fails the next read or write, which nothing catches:
\* the process ends, and with it every request; its successor starts again.
Die ==
  /\ req' = [i \in Updates |-> IF req[i].state = "NONE" THEN Unborn ELSE Deleted]
  /\ handle' = 0 /\ open' = FALSE /\ tmp' = <<>>
  /\ rev' = Idle
  /\ UNCHANGED rules

ServeRead(i) ==
  LET r == [req[i] EXCEPT !.events = @ \ {"IN"}] IN
  /\ "IN" \in rev[<<i, "sock">>]
  /\ IF r.sock = "reset" /\ r.state # "CLOSED"
     THEN Die
     ELSE OnTcp(i, r) /\ Served(<<i, "sock">>)

\* Writable: connected now, refused, or room for more of the request.
ServeWrite(i) ==
  LET r == [req[i] EXCEPT !.events = @ \ {"OUT"}] IN
  /\ "OUT" \in rev[<<i, "sock">>] /\ "IN" \notin rev[<<i, "sock">>]
  /\ CASE r.sock = "refused" -> Put(i, r) /\ UNCHANGED listener /\ Served(<<i, "sock">>)
       [] r.sock = "accepted" ->
            /\ OnTcp(i, [r EXCEPT !.sock = "up", !.ssl = r.https])
            /\ Served(<<i, "sock">>)
       [] r.sock = "up" -> OnTcp(i, r) /\ Served(<<i, "sock">>)
       [] r.sock = "reset" -> Die

\* (A wrong variant: an end of the connection is reported after the request has
\* closed itself.)
OnTcpDisconnectedAgain(i, r) ==
  /\ Put(i, Goto(r, "CLOSED"))
  /\ OnHttpClientError

\* onTcpDisconnected: the request closes itself and tells the listener.
OnTcpDisconnected(i, r) ==
  IF r.state = "CLOSED" THEN Put(i, r) /\ UNCHANGED listener
  ELSE Put(i, Goto(r, "CLOSED")) /\ OnHttpClientError

ServeClosed(i) ==
  /\ rev[<<i, "sock">>] = {"HUP"}
  /\ OnTcpDisconnected(i, [req[i] EXCEPT !.events = {}])
  /\ Served(<<i, "sock">>)

\* What poll reports for a slot.
Ready(s) ==
  LET r == req[s[1]]
      dead == r.sock \in {"refused", "reset"}
      in == r.arrived > r.read \/ r.fin \/ dead
      out == r.sock \in {"accepted", "up"} \/ dead
  IN CASE s[2] = "timer" -> IF r.timer THEN {"IN"} ELSE {}
       [] s[2] = "lookup" -> IF r.lookup \in {"found", "failed"} THEN {"IN"} ELSE {}
       [] s[2] = "sock" -> {f \in {"IN", "OUT"} \cap r.events : IF f = "IN" THEN in ELSE out}
                           \cup (IF dead \/ (r.fin /\ "RDHUP" \in r.events) THEN {"HUP"} ELSE {})

Poll ==
  /\ rev = Idle
  /\ \E s \in Slots : Ready(s) # {}
  /\ rev' = [s \in Slots |-> Ready(s)]
  /\ UNCHANGED <<listener, req>>

Serve == \E i \in Updates :
  ServeTimer(i) \/ ServeLookup(i) \/ ServeRead(i) \/ ServeWrite(i) \/ ServeClosed(i)

\* The page asks for an update; while one is on it is told so.
StartUpdate ==
  /\ handle = 0
  /\ \E i \in Updates : \E https \in Https[i] :
       /\ req[i].state = "NONE" /\ \A j \in 1..(i - 1) : req[j].state # "NONE"
       /\ Put(i, [Goto(Unborn, "PREPARING") EXCEPT !.https = https])
       /\ handle' = i
  /\ UNCHANGED <<open, tmp, rules, rev>>

-----------------------------------------------------------------------------
(* The lookup's thread and the server.                                       *)

Happens(i, r) == Put(i, r) /\ UNCHANGED <<listener, rev>>

\* The thread writes the event once gethostbyname has returned.  Of an https name
\* it finds the address: without one the connection would be refused.
LookedUp(i) ==
  /\ req[i].lookup = "running"
  /\ \/ Happens(i, [req[i] EXCEPT !.lookup = "found"])
     \/ "lookup" \in Faults /\ ~req[i].https /\ Happens(i, [req[i] EXCEPT !.lookup = "failed"])

Answers(i) ==
  /\ req[i].sock = "connecting"
  /\ \/ \E reply \in Replies[i] :
          Happens(i, [req[i] EXCEPT !.sock = "accepted", !.reply = reply])
     \/ /\ "refused" \in Faults /\ ~req[i].https
        /\ Happens(i, [req[i] EXCEPT !.sock = "refused"])

\* The server sends the handshake as soon as the connection is up, and the reply
\* once it has the request.
Sends(i) ==
  LET r == req[i]
      may == IF r.state \notin {"CONNECTING", "SEND_HEADER"} THEN Len(Stream(r))
             ELSE IF r.https THEN 2 ELSE 0
  IN /\ r.sock = "up" /\ r.arrived < may /\ ~r.fin
     /\ \E n \in (r.arrived + 1)..may : Happens(i, [r EXCEPT !.arrived = n])

\* The server ends the connection: early, or behind its reply.
Ends(i) ==
  /\ req[i].sock = "up" /\ ~req[i].fin
  /\ "fin" \in Faults
  /\ Happens(i, [req[i] EXCEPT !.fin = TRUE])

Resets(i) ==
  /\ ResetAllowed /\ req[i].sock = "up"
  /\ Happens(i, [req[i] EXCEPT !.sock = "reset"])

World(i) == LookedUp(i) \/ Answers(i) \/ Sends(i) \/ Ends(i) \/ Resets(i)

Next == StartUpdate \/ Poll \/ Serve \/ \E i \in Updates : World(i)

\* The loop runs and a lookup returns.  Nothing is assumed of the server: it may
\* leave a connect unanswered, or stop sending, for ever.
Fairness ==
  /\ WF_vars(Poll) /\ WF_vars(Serve)
  /\ \A i \in Updates : WF_vars(LookedUp(i))

Spec == Init /\ [][Next]_vars /\ Fairness

-----------------------------------------------------------------------------
(* Properties.                                                              *)

Live(i) == req[i].state \notin {"NONE", "CLOSED", "DELETED"}

\* Config's pointer and the request's own state agree between any two callbacks:
\* the pointer is never left to a request that has closed or is deleted, and no
\* request goes on that it has lost, although both sides close and errors,
\* completions and the next update's start come in any order.
HandleAlive ==
  handle # NullFollowed /\ \A i \in Updates : handle = i <=> Live(i)

\* A request stuck where half a chunk's length line was all there was.
Wedged(i) ==
  /\ req[i].state = "CHUNK_LENGTH" /\ ~req[i].timer
  /\ req[i].events \cap {"IN", "OUT"} = {}
  /\ req[i].read < req[i].arrived

\* Between two callbacks a request is woken by one thing only, and by one thing at
\* least: its timer, its lookup, its socket, or, for a refused one, the hang-up.
\* (_doHttp looks at the state alone, so a second waker would run a step twice.)
OneWaker ==
  \A i \in Updates :
    req[i].state \notin {"NONE", "DELETED"} /\ ~Wedged(i) =>
      Cardinality({w \in {"timer", "lookup", "sock", "hangup"} :
                     CASE w = "timer" -> req[i].timer
                       [] w = "lookup" -> req[i].lookup # "off"
                       [] w = "sock" -> req[i].events \cap {"IN", "OUT"} # {}
                       [] w = "hangup" -> /\ req[i].sock = "refused" /\ req[i].events = {"RDHUP"}
                                          /\ req[i].state # "CLOSED"}) = 1

\* The rules file is what it was or the whole body of one reply: no early end, no
\* failed write, no reset and no other update's bytes reach it.  A reply without
\* a length is not covered: it empties the file.
WholeRules ==
  \/ rules.of \in {"-", "unframed"}
  \/ \E i \in Updates : rules.data = [k \in 1..Bytes(rules.of) |-> i]

\* More is waited for than has arrived.
Starved(i) ==
  /\ "IN" \in req[i].events
  /\ req[i].arrived - req[i].read < IF req[i].state = "CHUNK_TAIL" THEN 2 ELSE 1

\* The server has ended the connection where more was waited for: the socket stays
\* readable with nothing to read, and is read again and again.
Spins(i) == Starved(i) /\ req[i].fin

\* The server has neither answered the connect, nor sent what is waited for, nor
\* ended the connection.
Silent(i) ==
  \/ req[i].sock = "connecting"
  \/ req[i].sock = "up" /\ ~req[i].fin /\ Starved(i)

\* Every update ends, in any order of segments, ends, resets and failures, except
\* in the three ways that leave it, and with it the page's "update in progress",
\* for ever: half a chunk's length line, an end in the middle of what is waited
\* for, and a server that from some moment on stays silent, since no request sets
\* a timeout other than 0.  A server that goes on is not kept waiting by anything
\* else.
UpdateEnds ==
  \A i \in Updates :
    Live(i) ~> (~Live(i) \/ Wedged(i) \/ Spins(i) \/ []Silent(i))
===========================================================================

------------------------- MODULE TransConnection -------------------------
(***************************************************************************)
(* One transparent TCP connection, TransTCP::_Connection: the state        *)
(* machine that forwards a client's handshake to the upstream proxy,       *)
(* authenticates there in the client's stead, splices the two sequence     *)
(* spaces, and closes.  It is driven by the poll loop of Looper.cpp:       *)
(* one poll takes a snapshot of what is ready, the TUN device (attached    *)
(* first, so at index 0) is served before any timer, and a timer that the  *)
(* packet has just set again is still served in the same pass.             *)
(*                                                                         *)
(* Everything the TUN device can deliver for this connection's two address *)
(* pairs is possible here: any flags, numbers and lengths, in any order,   *)
(* lost or repeated.  Module Tunnel puts real endpoints at both ends.      *)
(***************************************************************************)
EXTENDS ProxyAuth, FiniteSets

CONSTANTS
  SeqWrap,    \* 2^32 in the code: sequence numbers wrap here
  ISNs,      \* bound: the numbers a SYN may carry
  AckNos,    \* bound: the numbers the other fields of a packet may carry
  FlagSets,  \* bound: the combinations of flags that arrive
  Lens,      \* bound: payload lengths that arrive
  Windows    \* bound: window sizes that arrive

ASSUME SeqAssumption ==
  /\ SeqWrap \in Nat \ {0, 1}
  /\ ISNs \subseteq 0..(SeqWrap - 1)
  /\ AckNos \subseteq 0..(SeqWrap - 1)
  /\ FlagSets \subseteq SUBSET {"SYN", "ACK", "FIN", "RST", "PSH"}
  /\ Lens \subseteq Nat
  /\ Windows \subseteq Nat

VARIABLES
  state,                \* _state, or "NONE" while no object exists
  timer,                \* what _timer is armed for, in ms, or Off
  expired,              \* the armed timer has run out and not been read
  pass,                 \* what the current pass of the loop has yet to serve
  retry,                \* _retryCount
  clientSeq, proxySeq,  \* _clientSeq, _proxySeq
  clientWnd, proxyWnd,  \* _clientWindowSize, _proxyWindowSize
  auth,                 \* *_auth, or NoAuth
  outTotal, inTotal,    \* _proxyOutTotal, _proxyInTotal
  upBytes, downBytes,   \* _upBytes, _downBytes
  clientFin, proxyFin   \* _clientFin, _proxyFin

seqVars == <<clientSeq, proxySeq, clientWnd, proxyWnd>>
totals == <<outTotal, inTotal>>
counts == <<upBytes, downBytes>>
fins == <<clientFin, proxyFin>>
timerVars == <<timer, expired>>
connVars == <<state, retry, seqVars, auth, totals, counts, fins>>
vars == <<connVars, timerVars, pass>>

States == {"CLOSED", "SYN_SENT", "SYN_RECEIVED", "AUTH", "ESTABLISHING",
           "ESTABLISHED", "FIN_WAIT", "CLOSING"}

SeqNo == 0..(SeqWrap - 1)

\* Unsigned 32-bit arithmetic.
Plus(a, b) == (a + b) % SeqWrap
Minus(a, b) == (a - b) % SeqWrap

Off == -1
Now == 0
Soon == 3000
Idle == 900000  \* 15 minutes

From == {"client", "proxy"}

Has(p, f) == f \in p.flags

TypeOK ==
  /\ state \in States \cup {"NONE"}
  /\ timer \in {Off, Now, Soon, Idle}
  /\ expired \in BOOLEAN
  /\ pass \in [pkt : BOOLEAN, tmr : BOOLEAN]
  /\ retry \in 0..4
  /\ clientSeq \in SeqNo /\ proxySeq \in SeqNo
  /\ clientWnd \in Nat /\ proxyWnd \in Nat
  /\ auth \in AuthObject \cup {NoAuth}
  /\ outTotal \in SeqNo /\ inTotal \in SeqNo
  /\ upBytes \in SeqNo /\ downBytes \in SeqNo
  /\ clientFin \in BOOLEAN /\ proxyFin \in BOOLEAN

-----------------------------------------------------------------------------
(* Timer.h: a one-shot timer.  Setting it again forgets an expiry that was  *)
(* not read yet, but not the readiness the loop has already seen.           *)

SetTimeout(ms) == timer' = ms /\ expired' = FALSE

-----------------------------------------------------------------------------
(* No connection: its fields are what the constructor will set.              *)

Init ==
  /\ state = "NONE"
  /\ timer = Off /\ expired = FALSE
  /\ pass = [pkt |-> FALSE, tmr |-> FALSE]
  /\ retry = 0
  /\ clientSeq = 0 /\ proxySeq = 0
  /\ clientWnd = 0 /\ proxyWnd = 0
  /\ auth = NoAuth
  /\ outTotal = 0 /\ inTotal = 0
  /\ upBytes = 0 /\ downBytes = 0
  /\ clientFin = FALSE /\ proxyFin = FALSE

-----------------------------------------------------------------------------
(* Handlers of packets.  Each is the part of dispatchPacket for one state.  *)

\* A SYN of the client.  It creates the connection unless it is also an ACK.
IsSYN1(from, p) ==
  /\ state \in {"NONE", "CLOSED", "SYN_SENT"}
  /\ from = "client" /\ Has(p, "SYN")
  /\ state = "NONE" => ~Has(p, "ACK")

IsSYN2(from, p) ==
  /\ state \in {"SYN_SENT", "SYN_RECEIVED"}
  /\ from = "proxy" /\ Has(p, "SYN") /\ Has(p, "ACK") /\ p.ack = clientSeq

IsSYN3(from, p) ==
  /\ state = "SYN_RECEIVED"
  /\ from = "client" /\ Has(p, "ACK") /\ p.ack = proxySeq

IsAuthReply(from, p) ==
  /\ state = "AUTH"
  /\ from = "proxy" /\ p.seq = Plus(proxySeq, inTotal)

\* A connection that waits to be deleted starts over with what its other
\* fields still hold; one that was just created holds what Fresh says.
TransferSYN1(from, p) ==
  /\ IsSYN1(from, p)
  /\ clientSeq' = Plus(p.seq, 1)
  /\ clientWnd' = p.win
  /\ state' = "SYN_SENT"
  /\ SetTimeout(Soon)
  /\ UNCHANGED <<retry, proxySeq, proxyWnd, auth, totals, counts, fins>>

TransferSYN2(from, p) ==
  /\ IsSYN2(from, p)
  /\ proxySeq' = Plus(p.seq, 1)
  /\ state' = "SYN_RECEIVED"
  /\ SetTimeout(Soon)
  /\ UNCHANGED <<retry, clientSeq, clientWnd, proxyWnd, auth, totals, counts, fins>>

\* (A wrong variant: the state is changed, the authenticator not created.)
TransferSYN3NoAuth(from, p) ==
  /\ IsSYN3(from, p)
  /\ state' = "AUTH"
  /\ retry' = 0
  /\ SetTimeout(Now)
  /\ UNCHANGED <<seqVars, auth, totals, counts, fins>>

TransferSYN3(from, p) ==
  /\ IsSYN3(from, p)
  /\ auth' = NewAuth
  /\ state' = "AUTH"
  /\ retry' = 0
  /\ SetTimeout(Now)
  /\ UNCHANGED <<seqVars, totals, counts, fins>>

\* _close: start closing, on the next expiry.
Close ==
  /\ state' = "CLOSING"
  /\ retry' = 0
  /\ SetTimeout(Now)

\* _closed: to be deleted, on the next expiry.
Closed ==
  /\ state' = "CLOSED"
  /\ SetTimeout(Now)

\* The next bytes of the proxy's answer.  They are counted out of the client's
\* stream whatever onAuthResponse makes of them.
AuthDispatchPacket(from, p) ==
  /\ IsAuthReply(from, p)
  /\ inTotal' = Plus(inTotal, p.len)
  /\ \E v \in OnAuthResponse(auth, p.len) :
       /\ outTotal' = Plus(outTotal, v.commit)
       /\ \/ /\ v.r = -1
             /\ auth' = v.auth
             /\ UNCHANGED <<state, retry, proxyWnd, timerVars>>
          \/ /\ v.r = 0
             /\ auth' = NoAuth
             /\ Close
             /\ UNCHANGED proxyWnd
          \/ /\ v.r = 1
             /\ auth' = NoAuth
             /\ proxyWnd' = p.win
             /\ state' = "ESTABLISHING"
             /\ retry' = 0
             /\ SetTimeout(Now)
  /\ UNCHANGED <<clientSeq, clientWnd, proxySeq, counts, fins>>

\* How far an acknowledgement moves a byte counter: not at all when it is old.
Advance(count, ack, base) ==
  LET d == Minus(ack, Plus(base, count)) IN
  IF d > 0 /\ d < SeqWrap \div 2 THEN Plus(count, d) ELSE count

\* (A wrong variant: the request is counted as the client's bytes.)
TransferDataRaw(from, p) ==
  IF ~Has(p, "ACK") THEN UNCHANGED counts
  ELSE IF from = "client"
       THEN /\ downBytes' = Advance(downBytes, p.ack, proxySeq)
            /\ UNCHANGED upBytes
       ELSE /\ upBytes' = Advance(upBytes, p.ack, clientSeq)
            /\ UNCHANGED downBytes

\* The counting half of _transferData; what it sends is TransferOut.
TransferData(from, p) ==
  IF ~Has(p, "ACK") THEN UNCHANGED counts
  ELSE IF from = "client"
       THEN /\ downBytes' = Advance(downBytes, p.ack, proxySeq)
            /\ UNCHANGED upBytes
       ELSE /\ upBytes' = Advance(upBytes, Minus(p.ack, outTotal), clientSeq)
            /\ UNCHANGED downBytes

ObserveFIN(from, p) ==
  /\ clientFin' = (clientFin \/ (from = "client" /\ Has(p, "FIN")))
  /\ proxyFin' = (proxyFin \/ (from = "proxy" /\ Has(p, "FIN")))

\* (A wrong variant: clearTimeout without a setTimeout once both FINs passed.)
EstablishedFinUnarmed(from, p) ==
  /\ state \in {"ESTABLISHING", "ESTABLISHED"}
  /\ TransferData(from, p)
  /\ ObserveFIN(from, p)
  /\ IF clientFin' /\ proxyFin'
     THEN state' = "FIN_WAIT" /\ timer' = Off /\ expired' = FALSE
     ELSE state' = "ESTABLISHED" /\ SetTimeout(Idle)
  /\ UNCHANGED <<retry, seqVars, auth, totals>>

\* Either side's first packet establishes; both FINs end the connection.
EstablishedDispatchPacket(from, p) ==
  /\ state \in {"ESTABLISHING", "ESTABLISHED"}
  /\ TransferData(from, p)
  /\ ObserveFIN(from, p)
  /\ IF clientFin' /\ proxyFin'
     THEN state' = "FIN_WAIT" /\ SetTimeout(Soon)
     ELSE state' = "ESTABLISHED" /\ SetTimeout(Idle)
  /\ UNCHANGED <<retry, seqVars, auth, totals>>

\* (A wrong variant: every late packet prolongs the wait.)
FinWaitRearmed(from, p) ==
  /\ state = "FIN_WAIT"
  /\ TransferData(from, p)
  /\ SetTimeout(Soon)
  /\ UNCHANGED <<state, retry, seqVars, auth, totals, fins>>

FinWaitDispatchPacket(from, p) ==
  /\ state = "FIN_WAIT"
  /\ TransferData(from, p)
  /\ UNCHANGED <<state, retry, seqVars, auth, totals, fins, timerVars>>

\* Does p acknowledge the FIN that ClosingOut sends to the side p is from?
AcksFIN(from, p) ==
  /\ Has(p, "ACK")
  /\ p.ack = IF from = "client" THEN Plus(proxySeq, 1)
                                ELSE Plus(clientSeq, outTotal + 1)

ClosingDispatchPacket(from, p) ==
  /\ state = "CLOSING"
  /\ Has(p, "ACK")
  /\ clientFin' = (clientFin \/ (from = "client" /\ AcksFIN(from, p)))
  /\ proxyFin' = (proxyFin \/ (from = "proxy" /\ AcksFIN(from, p)))
  /\ IF clientFin' /\ proxyFin' THEN Closed ELSE UNCHANGED <<state, timerVars>>
  /\ UNCHANGED <<retry, seqVars, auth, totals, counts>>

\* dispatchPacket finds nothing to do with the packet in this state.
Ignored(from, p) ==
  /\ ~IsSYN1(from, p) /\ ~IsSYN2(from, p) /\ ~IsSYN3(from, p)
  /\ ~IsAuthReply(from, p)
  /\ state \notin {"ESTABLISHING", "ESTABLISHED", "FIN_WAIT"}
  /\ ~(state = "CLOSING" /\ Has(p, "ACK"))
  /\ UNCHANGED <<connVars, timerVars>>

DispatchPacket(from, p) ==
  \/ TransferSYN1(from, p)
  \/ TransferSYN2(from, p)
  \/ TransferSYN3(from, p)
  \/ AuthDispatchPacket(from, p)
  \/ EstablishedDispatchPacket(from, p)
  \/ FinWaitDispatchPacket(from, p)
  \/ ClosingDispatchPacket(from, p)
  \/ Ignored(from, p)

-----------------------------------------------------------------------------
(* onTimeout: one action for each way a state answers it.                    *)

MaxTries == 3

\* _try: three attempts, each followed by a wait, then what gives up.
CanTry == retry < MaxTries

\* (A wrong variant: attempts are not counted.)
AgainUncounted ==
  /\ CanTry
  /\ SetTimeout(Soon)
  /\ UNCHANGED <<state, retry>>

\* (A wrong variant: a fourth attempt, the comparison off by one.)
AgainOnceMore ==
  /\ retry <= MaxTries
  /\ retry' = retry + 1
  /\ SetTimeout(Soon)
  /\ UNCHANGED state

Again ==
  /\ CanTry
  /\ retry' = retry + 1
  /\ SetTimeout(Soon)
  /\ UNCHANGED state

TimeoutHandshake ==
  /\ state \in {"SYN_SENT", "SYN_RECEIVED"}
  /\ Close
  /\ UNCHANGED <<seqVars, auth, totals, counts, fins>>

TimeoutRequest ==
  /\ state \in {"AUTH", "ESTABLISHING"}
  /\ Again \/ (~CanTry /\ Close)
  /\ UNCHANGED <<seqVars, auth, totals, counts, fins>>

TimeoutEstablished ==
  /\ state = "ESTABLISHED"
  /\ Close
  /\ UNCHANGED <<seqVars, auth, totals, counts, fins>>

TimeoutFinWait ==
  /\ state = "FIN_WAIT"
  /\ Closed
  /\ UNCHANGED <<retry, seqVars, auth, totals, counts, fins>>

TimeoutClosing ==
  /\ state = "CLOSING"
  /\ Again \/ (~CanTry /\ retry' = retry + 1 /\ Closed)
  /\ UNCHANGED <<seqVars, auth, totals, counts, fins>>

\* delete this: the destructor takes the timer out of the loop.  The next SYN
\* finds what the constructor sets.
TimeoutClosed ==
  /\ state = "CLOSED"
  /\ state' = "NONE"
  /\ timer' = Off /\ expired' = FALSE
  /\ retry' = 0
  /\ clientSeq' = 0 /\ proxySeq' = 0
  /\ clientWnd' = 0 /\ proxyWnd' = 0
  /\ auth' = NoAuth
  /\ outTotal' = 0 /\ inTotal' = 0
  /\ upBytes' = 0 /\ downBytes' = 0
  /\ clientFin' = FALSE /\ proxyFin' = FALSE

OnTimeout ==
  \/ TimeoutHandshake
  \/ TimeoutRequest
  \/ TimeoutEstablished
  \/ TimeoutFinWait
  \/ TimeoutClosing
  \/ TimeoutClosed

-----------------------------------------------------------------------------
(* The poll loop, as this connection meets it.                              *)

\* The kernel: the armed timer runs out.
Expire ==
  /\ timer # Off /\ ~expired
  /\ expired' = TRUE
  /\ UNCHANGED <<connVars, timer, pass>>

\* poll(): at most one packet of the TUN device is read in a pass.
Poll ==
  /\ pass = [pkt |-> FALSE, tmr |-> FALSE]
  /\ \E pkt \in BOOLEAN :
       /\ pkt \/ expired
       /\ pass' = [pkt |-> pkt, tmr |-> expired]
  /\ UNCHANGED <<connVars, timerVars>>

\* The TUN device is at a lower index than every timer.
ServePacket(from, p) ==
  /\ pass.pkt
  /\ DispatchPacket(from, p)
  /\ pass' = [pass EXCEPT !.pkt = FALSE]

\* Timer::onFDToRead: the listener is called whether or not the read succeeds.
ServeTimer ==
  /\ ~pass.pkt /\ pass.tmr
  /\ OnTimeout
  /\ pass' = [pass EXCEPT !.tmr = FALSE]

\* The packets the bounds let arrive.
Arriving ==
  {p \in [seq : AckNos \cup ISNs, ack : AckNos, flags : FlagSets, len : Lens, win : Windows] :
     IF Has(p, "SYN") THEN p.seq \in ISNs ELSE p.seq \in AckNos}

Next ==
  \/ Expire
  \/ Poll
  \/ \E from \in From, p \in Arriving : ServePacket(from, p)
  \/ ServeTimer

\* The states that no packet sets the timer again in without leaving them.
Quiet == States \ {"SYN_SENT", "SYN_RECEIVED", "ESTABLISHED"}

\* The loop keeps running, and a timer that nothing sets again runs out.
Fairness ==
  /\ WF_vars(Expire /\ state \in Quiet)
  /\ WF_vars(Poll /\ expired)
  /\ WF_vars(\E from \in From, p \in Arriving : ServePacket(from, p))
  /\ WF_vars(ServeTimer)

Spec == Init /\ [][Next]_vars

FairSpec == Spec /\ Fairness

-----------------------------------------------------------------------------
(* Properties.                                                              *)

\* Every connection has its timer armed between two callbacks, and a deleted one
\* has not: whatever packets do, no connection stays in the tables with nothing
\* left that would ever close it (setTimeout on every path of dispatchPacket and
\* onTimeout, clearTimeout only before one).
TimerArmed == (state = "NONE") <=> (timer = Off)

\* The authenticator is there exactly while its answers are awaited: no packet or
\* timeout in AUTH finds a null _auth, none survives into the data phases.
AuthHeld ==
  /\ state = "AUTH" => auth # NoAuth
  /\ state \in {"ESTABLISHING", "ESTABLISHED", "FIN_WAIT"} => auth = NoAuth

\* The connection implements what the management page says of it.
Phase ==
  CASE state = "NONE" -> "None"
    [] state \in {"SYN_SENT", "SYN_RECEIVED"} -> "Connecting"
    [] state = "AUTH" -> "Authorizing"
    [] state \in {"ESTABLISHING", "ESTABLISHED"} -> "Connected"
    [] state \in {"FIN_WAIT", "CLOSING"} -> "Closing"
    [] OTHER -> "Closed"

Attempts ==
  IF state \in {"NONE", "SYN_SENT", "SYN_RECEIVED", "CLOSED"} THEN 0 ELSE retry

Page == INSTANCE Lifecycle
          WITH phase <- Phase, attempts <- Attempts, MaxAttempts <- MaxTries

ImplementsLifecycle == Page!FairSpec

\* Its steps alone, with no assumption on what is served: the order of the phases
\* and the bound on attempts.
LifecycleSteps == Page!Spec

\* Once the handshake is through, a connection either carries data or is
\* eventually ready to be deleted: neither retries nor packets keep it, in
\* particular not the ones of a peer that never acknowledges the FIN it is sent.
EventuallyOver ==
  (state \in Quiet) ~> (state \in {"ESTABLISHED", "CLOSED"})

\* Timer.h calls a read of the timer that finds nothing FAILED; this is the
\* listener called only for a timer that has run out.
TimeoutOnlyWhenExpired == [][ServeTimer => expired]_vars

=============================================================================

---------------------- MODULE TransConnection_proofs ----------------------
(***************************************************************************)
(* Proofs about one transparent connection, for every sequence space, every *)
(* authenticator and every packet that can arrive.                          *)
(*                                                                          *)
(* The invariants the runs check are proved together, with one fact added   *)
(* to make them inductive: a connection that is closing has counted at most *)
(* MaxTries attempts (a connection that starts over from CLOSED still holds *)
(* the count it gave up with, so retry alone is not bounded by MaxTries).   *)
(***************************************************************************)
EXTENDS TransConnection, TLAPS

\* _retryCount in CLOSING has not passed the last attempt: what keeps the
\* increment of the attempt that gives up within the type.
ClosingTries == state = "CLOSING" => retry \in 0..MaxTries

IInv == TypeOK /\ TimerArmed /\ AuthHeld /\ ClosingTries

\* 32-bit sums and differences are 32-bit numbers (Plus, Minus).
LEMMA SeqArithmetic ==
  ASSUME NEW a \in Int, NEW b \in Int
  PROVE  Plus(a, b) \in SeqNo /\ Minus(a, b) \in SeqNo
BY SeqAssumption DEF Plus, Minus, SeqNo

\* Sequence numbers are integers, so that the arithmetic applies to them.
LEMMA SeqNoInt == SeqNo \subseteq Int
BY SeqAssumption DEF SeqNo

\* Zero is a sequence number and a count of attempts (the constructor).
LEMMA ZeroSeqNo == 0 \in SeqNo /\ 0 \in Nat /\ 0 \in 0..4
BY SeqAssumption DEF SeqNo

\* A byte counter stays a 32-bit number whatever is acknowledged (Advance).
LEMMA AdvanceType ==
  ASSUME NEW c \in SeqNo, NEW ack \in SeqNo, NEW base \in SeqNo
  PROVE  Advance(c, ack, base) \in SeqNo
<1>1. Minus(ack, Plus(base, c)) \in SeqNo
  BY SeqArithmetic, SeqNoInt
<1>2. Plus(c, Minus(ack, Plus(base, c))) \in SeqNo
  BY <1>1, SeqArithmetic, SeqNoInt
<1> QED BY <1>2 DEF Advance

\* What dispatchPacket reads of a packet has its type, whatever else p carries.
Typed(p) == p.seq \in SeqNo /\ p.ack \in SeqNo /\ p.len \in Nat /\ p.win \in Nat

\* Every packet the loop can read is typed (Arriving).
LEMMA ArrivingType == \A p \in Arriving : Typed(p)
BY SeqAssumption DEF Arriving, Typed, SeqNo

\* onAuthResponse leaves an authenticator behind unless it has decided, and
\* commits a whole number of bytes (OnAuthResponse).
LEMMA VerdictType ==
  ASSUME NEW a \in AuthObject, NEW n \in Nat, NEW v \in OnAuthResponse(a, n)
  PROVE  /\ v.r \in {-1, 0, 1}
         /\ v.commit \in Nat
         /\ v.r = -1 => v.auth \in AuthObject
<1> USE AuthAssumption
<1> DEFINE b == [a EXCEPT !.got = a.got + n]
<1>1. a.got \in Nat /\ a.stage \in 1..2 /\ a.got <= BufSize
  BY DEF AuthObject
<1>2. a.got + n <= BufSize => b \in AuthObject
  BY <1>1 DEF AuthObject
<1>3. CASE n = 0
  BY <1>3 DEF OnAuthResponse, GoOn, Verdict
<1>4. CASE n # 0 /\ AuthKind = "http"
  <2>1. v \in HttpVerdicts(a, n)
    BY <1>4 DEF OnAuthResponse
  <2>2. CASE a.got + n >= BufSize
    BY <2>1, <2>2 DEF HttpVerdicts, Refused, Verdict
  <2>3. CASE ~(a.got + n >= BufSize)
    <3>1. v \in {GoOn(b), Refused(b), Accepted(b)}
      BY <2>1, <2>3 DEF HttpVerdicts
    <3>2. b \in AuthObject
      BY <1>1, <1>2, <2>3
    <3> QED BY <3>1, <3>2 DEF GoOn, Refused, Accepted, Verdict
  <2> QED BY <2>2, <2>3
<1>5. CASE n # 0 /\ AuthKind # "http"
  <2>1. v \in Sock5Verdicts(a, n)
    BY <1>5 DEF OnAuthResponse
  <2>2. CASE a.got + n > BufSize
    BY <2>1, <2>2 DEF Sock5Verdicts, Refused, Verdict
  <2>3. CASE ~(a.got + n > BufSize)
    <3>1. v \in {GoOn(b), Refused(b), Accepted(b),
                 Verdict(-1, [stage |-> 2, got |-> 0], GreetLen, TRUE)}
      BY <2>1, <2>3 DEF Sock5Verdicts
    <3>2. b \in AuthObject
      BY <1>1, <1>2, <2>3
    <3>3. [stage |-> 2, got |-> 0] \in AuthObject
      BY DEF AuthObject
    <3> QED BY <3>1, <3>2, <3>3 DEF GoOn, Refused, Accepted, Verdict
  <2> QED BY <2>2, <2>3
<1> QED BY <1>3, <1>4, <1>5

\* The timer fields after a handler that sets the timer (SetTimeout).
LEMMA SetTimeoutType ==
  ASSUME NEW ms \in {Now, Soon, Idle}, SetTimeout(ms)
  PROVE  /\ timer' \in {Off, Now, Soon, Idle} /\ timer' # Off
         /\ expired' \in BOOLEAN
<1>1. timer' = ms /\ expired' = FALSE
  BY DEF SetTimeout
<1>2. Off # Now /\ Off # Soon /\ Off # Idle
  BY DEF Now, Soon, Idle, Off
<1> QED BY <1>1, <1>2

\* The counters stay 32-bit numbers (TransferData).
LEMMA TransferDataType ==
  ASSUME TypeOK, NEW from \in From, NEW p, Typed(p), TransferData(from, p)
  PROVE  upBytes' \in SeqNo /\ downBytes' \in SeqNo
<1>1. p.ack \in SeqNo /\ Minus(p.ack, outTotal) \in SeqNo
  BY SeqArithmetic, SeqNoInt DEF Typed, TypeOK
<1>2. CASE ~Has(p, "ACK")
  BY <1>2 DEF TransferData, TypeOK, counts
<1>3. CASE Has(p, "ACK") /\ from = "client"
  BY <1>1, <1>3, AdvanceType DEF TransferData, TypeOK
<1>4. CASE Has(p, "ACK") /\ from # "client"
  BY <1>1, <1>4, AdvanceType DEF TransferData, TypeOK
<1> QED BY <1>2, <1>3, <1>4

\* A packet keeps the invariant, whatever it is and whenever it comes: one case
\* for each branch of dispatchPacket.
LEMMA PacketStep ==
  ASSUME IInv, NEW from \in From, NEW p, Typed(p), ServePacket(from, p)
  PROVE  IInv'
<1> USE DEF IInv, TypeOK, States, TimerArmed, AuthHeld, ClosingTries,
            MaxTries
<1>1. pass' \in [pkt : BOOLEAN, tmr : BOOLEAN]
  BY DEF ServePacket
<1>2. p.seq \in SeqNo /\ p.ack \in SeqNo /\ p.len \in Nat /\ p.win \in Nat
  BY DEF Typed
<1>3. Plus(p.seq, 1) \in SeqNo
  <2>1. p.seq \in Int
    BY <1>2, SeqNoInt
  <2>2. 1 \in Int
    OBVIOUS
  <2> QED BY <2>1, <2>2, SeqArithmetic
<1>4. CASE TransferSYN1(from, p)
  <2>1. clientSeq' \in SeqNo
    BY <1>4, <1>3 DEF TransferSYN1
  <2> QED BY <1>1, <1>2, <1>4, <2>1, SetTimeoutType
          DEF TransferSYN1, IsSYN1, totals, counts, fins
<1>5. CASE TransferSYN2(from, p)
  <2>1. proxySeq' \in SeqNo
    BY <1>5, <1>3 DEF TransferSYN2
  <2> QED BY <1>1, <1>5, <2>1, SetTimeoutType
          DEF TransferSYN2, IsSYN2, totals, counts, fins
<1>6. CASE TransferSYN3(from, p)
  <2>1. auth' \in AuthObject /\ auth' # NoAuth
    BY <1>6, AuthAssumption DEF TransferSYN3, NewAuth, NoAuth, AuthObject
  <2> QED BY <1>1, <1>6, <2>1, SetTimeoutType
          DEF TransferSYN3, IsSYN3, seqVars, totals, counts, fins
<1>7. CASE AuthDispatchPacket(from, p)
  <2>1. state = "AUTH" /\ auth \in AuthObject
    BY <1>7 DEF AuthDispatchPacket, IsAuthReply
  <2>2. PICK v \in OnAuthResponse(auth, p.len) :
          /\ outTotal' = Plus(outTotal, v.commit)
          /\ \/ /\ v.r = -1
                /\ auth' = v.auth
                /\ UNCHANGED <<state, retry, proxyWnd, timerVars>>
             \/ /\ v.r = 0
                /\ auth' = NoAuth
                /\ Close
                /\ UNCHANGED proxyWnd
             \/ /\ v.r = 1
                /\ auth' = NoAuth
                /\ proxyWnd' = p.win
                /\ state' = "ESTABLISHING"
                /\ retry' = 0
                /\ SetTimeout(Now)
    BY <1>7 DEF AuthDispatchPacket
  <2>3. v.commit \in Nat /\ (v.r = -1 => v.auth \in AuthObject)
    BY <1>2, <2>1, VerdictType
  <2>4. outTotal' \in SeqNo /\ inTotal' \in SeqNo
    BY <1>2, <1>7, <2>2, <2>3, SeqArithmetic, SeqNoInt DEF AuthDispatchPacket
  <2>5. NoAuth \notin AuthObject
    BY DEF NoAuth, AuthObject
  <2>6. /\ UNCHANGED <<clientSeq, clientWnd, proxySeq, counts, fins>>
    BY <1>7 DEF AuthDispatchPacket
  <2>7. CASE v.r = -1
    BY <1>1, <2>1, <2>2, <2>3, <2>4, <2>5, <2>6, <2>7
    DEF timerVars, counts, fins
  <2>8. CASE v.r = 0
    BY <1>1, <2>1, <2>2, <2>4, <2>6, <2>8, SetTimeoutType
    DEF Close, counts, fins
  <2>9. CASE v.r = 1
    BY <1>1, <1>2, <2>1, <2>2, <2>4, <2>6, <2>9, SetTimeoutType
    DEF counts, fins
  <2> QED BY <2>2, <2>7, <2>8, <2>9
<1>8. CASE EstablishedDispatchPacket(from, p)
  <2>1. upBytes' \in SeqNo /\ downBytes' \in SeqNo
    BY <1>8, TransferDataType DEF EstablishedDispatchPacket
  <2>2. clientFin' \in BOOLEAN /\ proxyFin' \in BOOLEAN
    BY <1>8 DEF EstablishedDispatchPacket, ObserveFIN
  <2>3. auth = NoAuth
    BY <1>8 DEF EstablishedDispatchPacket
  <2> QED BY <1>1, <1>8, <2>1, <2>2, <2>3, SetTimeoutType
          DEF EstablishedDispatchPacket, seqVars, totals
<1>9. CASE FinWaitDispatchPacket(from, p)
  <2>1. upBytes' \in SeqNo /\ downBytes' \in SeqNo
    BY <1>9, TransferDataType DEF FinWaitDispatchPacket
  <2> QED BY <1>1, <1>9, <2>1
          DEF FinWaitDispatchPacket, seqVars, totals, fins, timerVars
<1>10. CASE ClosingDispatchPacket(from, p)
  <2>1. clientFin' \in BOOLEAN /\ proxyFin' \in BOOLEAN
    BY <1>10 DEF ClosingDispatchPacket
  <2> QED BY <1>1, <1>10, <2>1, SetTimeoutType
          DEF ClosingDispatchPacket, Closed, seqVars, totals, counts, timerVars
<1>11. CASE Ignored(from, p)
  BY <1>1, <1>11 DEF Ignored, connVars, seqVars, totals, counts, fins, timerVars
<1> QED BY <1>4, <1>5, <1>6, <1>7, <1>8, <1>9, <1>10, <1>11
        DEF ServePacket, DispatchPacket

\* A call of onTimeout keeps the invariant, also when nothing had run out.
LEMMA TimerStep ==
  ASSUME IInv, ServeTimer
  PROVE  IInv'
<1> USE DEF IInv, TypeOK, States, TimerArmed, AuthHeld, ClosingTries,
            MaxTries
<1>1. pass' \in [pkt : BOOLEAN, tmr : BOOLEAN]
  BY DEF ServeTimer
<1>2. CASE TimeoutHandshake
  BY <1>1, <1>2, SetTimeoutType
  DEF TimeoutHandshake, Close, seqVars, totals, counts, fins
<1>3. CASE TimeoutRequest
  BY <1>1, <1>3, SetTimeoutType
  DEF TimeoutRequest, Again, CanTry, Close, seqVars, totals, counts, fins
<1>4. CASE TimeoutEstablished
  BY <1>1, <1>4, SetTimeoutType
  DEF TimeoutEstablished, Close, seqVars, totals, counts, fins
<1>5. CASE TimeoutFinWait
  BY <1>1, <1>5, SetTimeoutType
  DEF TimeoutFinWait, Closed, seqVars, totals, counts, fins
<1>6. CASE TimeoutClosing
  BY <1>1, <1>6, SetTimeoutType
  DEF TimeoutClosing, Again, CanTry, Closed, seqVars, totals, counts, fins
<1>7. CASE TimeoutClosed
  BY <1>1, <1>7, ZeroSeqNo DEF TimeoutClosed
<1> QED BY <1>2, <1>3, <1>4, <1>5, <1>6, <1>7 DEF ServeTimer, OnTimeout

\* The invariant is inductive.
LEMMA InvariantStep == IInv /\ [Next]_vars => IInv'
<1> SUFFICES ASSUME IInv, [Next]_vars PROVE IInv'
  OBVIOUS
<1> USE DEF IInv, TypeOK, TimerArmed, AuthHeld, ClosingTries
<1>1. CASE Expire
  BY <1>1 DEF Expire, connVars, seqVars, totals, counts, fins
<1>2. CASE Poll
  BY <1>2 DEF Poll, connVars, seqVars, totals, counts, fins, timerVars
<1>3. CASE \E from \in From, p \in Arriving : ServePacket(from, p)
  BY <1>3, ArrivingType, PacketStep
<1>4. CASE ServeTimer
  BY <1>4, TimerStep
<1>5. CASE UNCHANGED vars
  BY <1>5 DEF vars, connVars, seqVars, totals, counts, fins, timerVars
<1> QED BY <1>1, <1>2, <1>3, <1>4, <1>5 DEF Next

LEMMA InvariantInit == Init => IInv
<1> SUFFICES ASSUME Init PROVE IInv
  OBVIOUS
<1>1. pass \in [pkt : BOOLEAN, tmr : BOOLEAN]
  BY DEF Init
<1>2. TypeOK
  BY <1>1, ZeroSeqNo DEF Init, TypeOK
<1>3. TimerArmed /\ AuthHeld /\ ClosingTries
  BY DEF Init, TimerArmed, AuthHeld, ClosingTries
<1> QED BY <1>2, <1>3 DEF IInv

LEMMA Invariance == Spec => []IInv
BY InvariantInit, InvariantStep, PTL DEF Spec

\* Every field of a connection keeps its type, for every packet sequence: in
\* particular no counter of attempts or bytes leaves its range.
THEOREM TypeCorrect == Spec => []TypeOK
BY Invariance, PTL DEF IInv

\* No connection is ever left in the tables without an armed timer.
THEOREM NeverLeaked == Spec => []TimerArmed
BY Invariance, PTL DEF IInv

\* The authenticator is there whenever AUTH uses it and gone once data flows.
THEOREM AuthNeverNull == Spec => []AuthHeld
BY Invariance, PTL DEF IInv

-----------------------------------------------------------------------------
(* The connection implements Lifecycle: each of its steps is one of that     *)
(* specification's, or changes neither the phase nor the attempts.           *)

LEMMA LifecycleInit == Init => Page!Init
BY DEF Init, Page!Init, Phase, Attempts

\* Only the branches that change the state change the phase.
LEMMA LifecyclePacket ==
  ASSUME IInv, NEW from \in From, NEW p, Typed(p), ServePacket(from, p)
  PROVE  [Page!Next]_Page!vars
<1> USE DEF Phase, Attempts, Page!Next, Page!vars
<1>1. CASE TransferSYN1(from, p)
  BY <1>1 DEF TransferSYN1, IsSYN1, Page!Open
<1>2. CASE TransferSYN2(from, p)
  BY <1>2 DEF TransferSYN2, IsSYN2
<1>3. CASE TransferSYN3(from, p)
  BY <1>3 DEF TransferSYN3, IsSYN3, Page!Ask
<1>4. CASE AuthDispatchPacket(from, p)
  <2>1. state = "AUTH"
    BY <1>4 DEF AuthDispatchPacket, IsAuthReply
  <2>2. \/ UNCHANGED <<state, retry>>
        \/ state' = "CLOSING" /\ retry' = 0
        \/ state' = "ESTABLISHING" /\ retry' = 0
    BY <1>4 DEF AuthDispatchPacket, Close
  <2> QED BY <2>1, <2>2 DEF Page!Grant, Page!GiveUp
<1>5. CASE EstablishedDispatchPacket(from, p)
  <2>1. /\ state \in {"ESTABLISHING", "ESTABLISHED"}
        /\ state' \in {"ESTABLISHED", "FIN_WAIT"}
        /\ retry' = retry
    BY <1>5 DEF EstablishedDispatchPacket
  <2> QED BY <2>1 DEF Page!Finish
<1>6. CASE FinWaitDispatchPacket(from, p)
  BY <1>6 DEF FinWaitDispatchPacket
<1>7. CASE ClosingDispatchPacket(from, p)
  BY <1>7 DEF ClosingDispatchPacket, Closed, Page!End
<1>8. CASE Ignored(from, p)
  BY <1>8 DEF Ignored, connVars
<1> QED BY <1>1, <1>2, <1>3, <1>4, <1>5, <1>6, <1>7, <1>8
        DEF ServePacket, DispatchPacket

LEMMA LifecycleTimer ==
  ASSUME IInv, ServeTimer
  PROVE  [Page!Next]_Page!vars
<1> USE DEF Phase, Attempts, Page!Next, Page!vars
<1>1. CASE TimeoutHandshake
  BY <1>1 DEF TimeoutHandshake, Close, Page!GiveUp
<1>2. CASE TimeoutRequest
  <2>1. \/ UNCHANGED state /\ retry < MaxTries /\ retry' = retry + 1
        \/ state' = "CLOSING" /\ retry' = 0
    BY <1>2 DEF TimeoutRequest, Again, CanTry, Close
  <2> QED BY <1>2, <2>1 DEF TimeoutRequest, Page!Attempt, Page!GiveUp
<1>3. CASE TimeoutEstablished
  BY <1>3 DEF TimeoutEstablished, Close, Page!GiveUp
<1>4. CASE TimeoutFinWait
  BY <1>4 DEF TimeoutFinWait, Closed, Page!End
<1>5. CASE TimeoutClosing
  <2>1. \/ UNCHANGED state /\ retry < MaxTries /\ retry' = retry + 1
        \/ state' = "CLOSED"
    BY <1>5 DEF TimeoutClosing, Again, CanTry, Closed
  <2> QED BY <1>5, <2>1 DEF TimeoutClosing, Page!Attempt, Page!End
<1>6. CASE TimeoutClosed
  BY <1>6 DEF TimeoutClosed, Page!Delete
<1> QED BY <1>1, <1>2, <1>3, <1>4, <1>5, <1>6 DEF ServeTimer, OnTimeout

LEMMA LifecycleStep == IInv /\ [Next]_vars => [Page!Next]_Page!vars
<1> SUFFICES ASSUME IInv, [Next]_vars PROVE [Page!Next]_Page!vars
  OBVIOUS
<1>1. CASE Expire
  BY <1>1 DEF Expire, connVars, Phase, Attempts, Page!vars
<1>2. CASE Poll
  BY <1>2 DEF Poll, connVars, Phase, Attempts, Page!vars
<1>3. CASE \E from \in From, p \in Arriving : ServePacket(from, p)
  BY <1>3, ArrivingType, LifecyclePacket
<1>4. CASE ServeTimer
  BY <1>4, LifecycleTimer
<1>5. CASE UNCHANGED vars
  BY <1>5 DEF vars, connVars, Phase, Attempts, Page!vars
<1> QED BY <1>1, <1>2, <1>3, <1>4, <1>5 DEF Next

\* The phases come in the order the management page suggests, and no request is
\* sent more than MaxTries times in one phase, whatever packets arrive and
\* however stale the timeouts are.
THEOREM LifecycleImplemented == Spec => LifecycleSteps
BY LifecycleInit, LifecycleStep, Invariance, PTL
DEF Spec, LifecycleSteps, Page!Spec
===========================================================================

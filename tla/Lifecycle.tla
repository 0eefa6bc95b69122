---------------------------- MODULE Lifecycle ----------------------------
(***************************************************************************)
(* What a transparent connection promises of its life, in the five words   *)
(* the management page shows for it (TransTCP::onHttpRequest): Connecting, *)
(* Authorizing, Connected, Closing, Closed; "None" is a connection that    *)
(* is not in the tables.  A request is sent at most MaxAttempts times, and *)
(* neither Authorizing, Closing nor Closed lasts for ever.                 *)
(***************************************************************************)
EXTENDS Naturals

CONSTANT MaxAttempts

VARIABLES
  phase,    \* what the management page shows
  attempts  \* requests sent in this phase so far

vars == <<phase, attempts>>

Init == phase = "None" /\ attempts = 0

\* A client's SYN, for a new connection or for one not deleted yet.
Open ==
  /\ phase \in {"None", "Closed"}
  /\ phase' = "Connecting" /\ attempts' = 0

\* Both sides have shaken hands.
Ask ==
  /\ phase = "Connecting"
  /\ phase' = "Authorizing" /\ attempts' = 0

Attempt ==
  /\ phase \in {"Authorizing", "Connected", "Closing"}
  /\ attempts < MaxAttempts
  /\ attempts' = attempts + 1
  /\ UNCHANGED phase

Grant ==
  /\ phase = "Authorizing"
  /\ phase' = "Connected" /\ attempts' = 0

\* A refusal, a lack of answers, or silence.
GiveUp ==
  /\ phase \in {"Connecting", "Authorizing", "Connected"}
  /\ phase' = "Closing" /\ attempts' = 0

\* Both sides have sent their FIN.
Finish ==
  /\ phase = "Connected"
  /\ phase' = "Closing" /\ UNCHANGED attempts

End ==
  /\ phase = "Closing"
  /\ phase' = "Closed" /\ attempts' = 0

Delete ==
  /\ phase = "Closed"
  /\ phase' = "None" /\ attempts' = 0

Next ==
  Open \/ Ask \/ Attempt \/ Grant \/ GiveUp \/ Finish \/ End \/ Delete

Spec == Init /\ [][Next]_vars

\* Connecting lasts while the handshake is repeated, Connected while there is
\* traffic; no other phase lasts for ever.
FairSpec ==
  /\ Spec
  /\ WF_vars(phase = "Authorizing" /\ (Grant \/ GiveUp))
  /\ WF_vars(End)
  /\ WF_vars(Delete \/ (phase = "Closed" /\ Open))
==========================================================================

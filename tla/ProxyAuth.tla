---------------------------- MODULE ProxyAuth ----------------------------
(***************************************************************************)
(* The two authenticators a transparent connection may use to ask the      *)
(* upstream proxy for a tunnel: an HTTP CONNECT exchange                   *)
(* (ProxyAuthHTTP.h) and a SOCKS5 exchange (ProxyAuthSock5.h).             *)
(*                                                                         *)
(* The bytes of a reply are abstracted to their number and to what the     *)
(* code makes of them: a reply that is still incomplete, that refuses, or  *)
(* that accepts.  Which of these a received segment amounts to is the      *)
(* proxy's choice, within what its length allows.                          *)
(***************************************************************************)
EXTENDS Integers

CONSTANTS
  AuthKind,    \* "http" or "sock5": the builder the configured proxy selects
  ReqLen,      \* length of the CONNECT request (either kind)
  GreetLen,    \* length of the SOCKS5 greeting (3 in the code)
  BufSize,     \* sizeof(_response) (1024 in the code)
  GreetReply,  \* length of the only greeting reply accepted (2 in the code)
  ReplyHead    \* bytes of a SOCKS5 reply before it is looked at (7 in the code)

ASSUME AuthAssumption ==
  /\ AuthKind \in {"http", "sock5"}
  /\ ReqLen \in Nat \ {0}
  /\ GreetLen \in Nat \ {0}
  /\ BufSize \in Nat \ {0}
  /\ GreetReply \in Nat \ {0}
  /\ ReplyHead \in Nat \ {0}

\* A ProxyAuth object: _state (1 greeting, 2 request) and _responseBytes.
AuthObject == [stage : 1..2, got : 0..BufSize]

\* The null pointer _auth.
NoAuth == [stage |-> 0, got |-> 0]

NewAuth == [stage |-> 1, got |-> 0]

\* What onAuthResponse does: its result r (0 refused, 1 accepted, -1 go on),
\* the object afterwards, the request bytes it commits, and whether it sends
\* the next request at once.
Verdict(r, a, commit, resend) ==
  [r |-> r, auth |-> a, commit |-> commit, resend |-> resend]

Refused(a) == Verdict(0, a, 0, FALSE)

GoOn(a) == Verdict(-1, a, 0, FALSE)

Accepted(a) == Verdict(1, a, ReqLen, FALSE)

\* HTTP: a reply that would fill the buffer is refused, one without its empty
\* line is waited for, a complete one is accepted or refused by its status.
HttpVerdicts(a, n) ==
  LET b == [a EXCEPT !.got = a.got + n] IN
  IF a.got + n >= BufSize THEN {Refused(a)}
  ELSE {GoOn(b), Refused(b), Accepted(b)}

\* SOCKS5: the greeting reply must be exactly GreetReply bytes; it commits the
\* greeting and the request follows in the same call.  A reply header is
\* accepted once the address it announces is complete.
Sock5Verdicts(a, n) ==
  LET got == a.got + n
      b == [a EXCEPT !.got = a.got + n] IN
  IF got > BufSize THEN {Refused(a)}
  ELSE IF a.stage = 1
       THEN IF got < GreetReply THEN {GoOn(b)}
            ELSE {Refused(b)} \cup
                 (IF got = GreetReply
                  THEN {Verdict(-1, [stage |-> 2, got |-> 0], GreetLen, TRUE)}
                  ELSE {})
       ELSE IF got < ReplyHead THEN {GoOn(b)}
            ELSE {GoOn(b), Refused(b), Accepted(b)}

\* Everything onAuthResponse may do with a segment of n bytes; an empty one (a
\* bare acknowledgement) finds the same incomplete reply as the one before it.
OnAuthResponse(a, n) ==
  IF n = 0 THEN {GoOn(a)}
  ELSE IF AuthKind = "http" THEN HttpVerdicts(a, n)
  ELSE Sock5Verdicts(a, n)

\* The window sendAuthRequest offers: what the buffer still takes.
RequestWindow(a) ==
  IF AuthKind = "http" THEN BufSize - 1 - a.got ELSE BufSize - a.got
==========================================================================

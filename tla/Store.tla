------------------------------- MODULE Store -------------------------------
(***************************************************************************)
(* What the management page promises of what it saves: each request has a  *)
(* number, a file holds one request's text whole, a file is written only   *)
(* when those before it are, and the answer comes after the last.  A later *)
(* request may leave an earlier one unfinished; nothing else is ever lost. *)
(***************************************************************************)
EXTENDS Naturals, Sequences

CONSTANTS
  Batches  \* what is saved together: sequences of files

VARIABLES
  asked,   \* the last request for each batch
  stored,  \* the request whose text each file holds
  told     \* the last request each batch was acknowledged for

vars == <<asked, stored, told>>

Members(b) == {b[i] : i \in 1..Len(b)}
StoreFiles == UNION {Members(b) : b \in Batches}

Init ==
  /\ asked = [b \in Batches |-> 0]
  /\ stored = [f \in StoreFiles |-> 0]
  /\ told = [b \in Batches |-> 0]

Ask(b) ==
  /\ asked' = [asked EXCEPT ![b] = @ + 1]
  /\ UNCHANGED <<stored, told>>

Put(b, i) ==
  /\ \A j \in 1..(i - 1) : stored[b[j]] = asked[b]
  /\ stored[b[i]] < asked[b]
  /\ stored' = [stored EXCEPT ![b[i]] = asked[b]]
  /\ UNCHANGED <<asked, told>>

Tell(b) ==
  /\ \A f \in Members(b) : stored[f] = asked[b]
  /\ told' = [told EXCEPT ![b] = asked[b]]
  /\ UNCHANGED <<asked, stored>>

Next ==
  \E b \in Batches :
    \/ Ask(b) \/ Tell(b)
    \/ \E i \in 1..Len(b) : Put(b, i)

Spec == Init /\ [][Next]_vars
=============================================================================

----------------------------- MODULE Directory -----------------------------
(***************************************************************************)
(* What clients may rely on when they are told a virtual address for a     *)
(* name: while the network keeps its numbers, the name keeps the address,  *)
(* and no two names share one.  Nothing is said of caches or of restarts:  *)
(* they must not be noticed.                                               *)
(***************************************************************************)
CONSTANTS Names, Addrs

VARIABLE bound  \* the bindings some client was told

Binding == [name : Names, ip : Addrs]

Init == bound = {}

\* A client is told a binding nobody was told before.
Tell(b) ==
  /\ \A o \in bound : o.name # b.name /\ o.ip # b.ip
  /\ bound' = bound \cup {b}

\* The network is given other numbers; what clients were told is void.
Renumber == bound' = {}

Next == Renumber \/ \E b \in Binding : Tell(b)

Spec == Init /\ [][Next]_bound
=============================================================================

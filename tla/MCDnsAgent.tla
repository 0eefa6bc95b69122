---------------------------- MODULE MCDnsAgent ----------------------------
(***************************************************************************)
(* The agent with ids up to MAX_ID, one more than its array has places for.*)
(***************************************************************************)
EXTENDS DnsAgent

MCQueries ==
  {[from |-> c, id |-> 1, name |-> n, type |-> t, plain |-> p] :
     c \in Clients, n \in {"proxied", "other"}, t \in {"A", "AAAA"}, p \in BOOLEAN}
MCResolved == [proxied |-> 7, other |-> 0, self |-> 0]
===========================================================================

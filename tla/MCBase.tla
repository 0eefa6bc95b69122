------------------------------ MODULE MCBase ------------------------------
(***************************************************************************)
(* The parts that hold data for the others, one of them at a time: the     *)
(* ring, the map, the rules, the DNS agent.  part says which.              *)
(***************************************************************************)
EXTENDS RingBuffer, DnsAgent, DomainRules, AvlMap

VARIABLE part

MCTexts == UNION {[1..n -> Byte] : n \in 1..(Size + 1)}

\* Eight items, four of them in pairs of one key.
MCItems == {1, 3, 4, 5, 6, 8, 10, 11}
MCKey == [i \in MCItems |-> i \div 2]

Rule(direct, mark, labels) == [direct |-> direct, mark |-> mark, labels |-> labels]
MCRuleLines ==
  {Rule(FALSE, "", <<"a", "c">>), Rule(FALSE, "||", <<"a", "c">>), Rule(FALSE, ".", <<"c">>),
   Rule(FALSE, "", <<"b", "a", "c">>), Rule(FALSE, "||", <<"b", "/">>),
   Rule(FALSE, "", <<"b", "*", "c">>), Rule(FALSE, ".", <<"", "c">>),
   Rule(TRUE, "||", <<"b", "a", "c">>), Rule(TRUE, "", <<"a", "/", "*", "c">>)}
MCListLines ==
  {[direct |-> TRUE, comment |-> FALSE, labels |-> <<"b", "c">>],
   [direct |-> FALSE, comment |-> FALSE, labels |-> <<"b", "b", "c">>],
   [direct |-> FALSE, comment |-> TRUE, labels |-> <<"a", "b", "c">>]}
MCHosts == {<<"c">>} \cup {<<k, "c">> : k \in {"a", "b"}} \cup {<<j, k, "c">> : j, k \in {"a", "b"}}

\* Both clients use the same two ids; a name for the proxy, another, and the own one.
MCQuery(c, i, n, t, p) == [from |-> c, id |-> i, name |-> n, type |-> t, plain |-> p]
MCQueries ==
  {MCQuery(c, 1, n, "A", TRUE) : c \in {"c1", "c2"}, n \in {"proxied", "other"}}
  \cup {MCQuery("c1", 1, "self", "A", TRUE),
         MCQuery("c1", 2, "other", "A", FALSE),
         MCQuery("c2", 2, "proxied", "A", FALSE), MCQuery("c1", 2, "proxied", "AAAA", TRUE)}
MCResolved == [n \in {"proxied", "other"} |-> IF n = "proxied" THEN 7 ELSE 0]

Init ==
  /\ part \in {"ring", "map", "rules", "dns"}
  /\ RingInit /\ (part = "ring" \/ buffer = [i \in 0..(Size - 1) |-> CHOOSE b \in Byte : TRUE])
  /\ AvlInit /\ RulesInit /\ DnsInit

Next ==
  /\ UNCHANGED part
  /\ \/ part = "ring" /\ RingNext /\ UNCHANGED <<avlVars, ruleVars, dnsVars>>
     \/ part = "map" /\ AvlNext /\ UNCHANGED <<ringVars, ruleVars, dnsVars>>
     \/ part = "rules" /\ RulesNext /\ UNCHANGED <<ringVars, avlVars, dnsVars>>
     \/ part = "dns" /\ DnsNext /\ UNCHANGED <<ringVars, avlVars, ruleVars>>

Spec == Init /\ [][Next]_<<part, ringVars, avlVars, ruleVars, dnsVars>>
===========================================================================

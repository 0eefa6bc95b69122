------------------------- MODULE MCDomainResolver -------------------------
(***************************************************************************)
(* Bounds for DomainResolver: three names, two clients, of which one is    *)
(* the proxy (its queries are denied), and two networks whose addresses    *)
(* overlap.                                                                *)
(***************************************************************************)
EXTENDS DomainResolver

CONSTANTS h1, h2, h3, lan, proxyHost

MCHosts == {h1, h2, h3}
MCClients == {lan, proxyHost}

\* The rules file, with an exception; a custom list; TransTCP's own rule.
MCRules ==
  {[accept |-> MCClients \X {h1, h2}, deny |-> {}],
   [accept |-> MCClients \X {h3}, deny |-> {}],
   [accept |-> {}, deny |-> {proxyHost} \X MCHosts]}

===========================================================================

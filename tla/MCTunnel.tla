----------------------------- MODULE MCTunnel -----------------------------
(***************************************************************************)
(* Bounds for Tunnel: a request of two bytes, in one piece for the HTTP    *)
(* proxy and in two for the SOCKS5 proxy, an answer of three, a client's    *)
(* stream that with its FIN is longer than the request, and a server's     *)
(* shorter than the answer, in five-bit sequence spaces that both wrap     *)
(* within the connection's data.  One run has both authenticators: kind,   *)
(* chosen at the start, says which.  The endpoints' bytes are the same for *)
(* both, so the properties of Tunnel are those of the connection at hand.  *)
(***************************************************************************)
EXTENDS Tunnel

VARIABLE kind

MCReply == [i \in 1..3 |-> <<"answer", i>>]
MCClient == [i \in 1..2 |-> <<"client", i>>]
MCServer == [i \in 1..2 |-> <<"server", i>>]
MCBytes == {"request", "answer", "client", "server"} \X (1..3)

Http == INSTANCE Tunnel WITH AuthKind <- "http", ReqLen <- GreetLen + ReqLen

MCInit ==
  \/ kind = "http" /\ Http!TunnelInit
  \/ kind = "sock5" /\ TunnelInit

MCNext ==
  /\ UNCHANGED kind
  /\ \/ kind = "http" /\ Http!TunnelNext
     \/ kind = "sock5" /\ TunnelNext

MCSpec == MCInit /\ [][MCNext]_<<tunnelVars, kind>>
==========================================================================

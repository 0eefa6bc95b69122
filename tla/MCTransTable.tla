--------------------------- MODULE MCTransTable ---------------------------
(***************************************************************************)
(* Two clients, one address of a name with two ports, a server's address   *)
(* and a port next to it; two ports for an agent IP, and three of those.   *)
(***************************************************************************)
EXTENDS TransTable

MCClients == {<<1, 7>>, <<2, 7>>}
MCProxy == <<3, 8>>
MCServers == {<<4, 80>>}
MCSockets == {<<4, 53>>}
MCTargets == {<<5, 80>>, <<5, 81>>, <<4, 80>>, <<4, 53>>}
==========================================================================

------------------------ MODULE MCTransConnection ------------------------
(***************************************************************************)
(* Bounds for TransConnection.  Sequence numbers are two bits wide and     *)
(* every connection starts at the last one, so that numbers wrap at once.  *)
(***************************************************************************)
EXTENDS TransConnection

MCFlagSets == {{"SYN"}, {"SYN", "ACK"}, {"ACK"}, {"FIN", "ACK"}, {"RST"}}
==========================================================================

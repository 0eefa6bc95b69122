--------------------------- MODULE MCHttpServer ---------------------------
(***************************************************************************)
(* Two requests on one connection.  The ring holds three bytes and a       *)
(* packet two: the second request and the first response are longer than   *)
(* the ring, and so go through it in pieces.                               *)
(***************************************************************************)
EXTENDS HttpServer

MCRequests == <<2, 4>>
MCResponses == <<5, 2>>
==========================================================================

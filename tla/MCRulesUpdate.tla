--------------------------- MODULE MCRulesUpdate ---------------------------
(***************************************************************************)
(* Two updates, so that the second may begin before the first one's object *)
(* is deleted, over every reply, in the clear and under SSL, with every    *)
(* fault of the model (a refused https connection is not among them).      *)
(***************************************************************************)
EXTENDS RulesUpdate

MCReplies == <<{"length", "chunked", "unframed", "missing"}, {"length", "chunked", "missing"}>>
MCHttps == <<{TRUE, FALSE}, {TRUE, FALSE}>>
==========================================================================

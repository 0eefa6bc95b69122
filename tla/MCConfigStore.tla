--------------------------- MODULE MCConfigStore ---------------------------
(***************************************************************************)
(* Bounds for ConfigStore: as many requests as leave an old text, a backup *)
(* of another and a third one half way.                                    *)
(***************************************************************************)
EXTENDS ConfigStore
=============================================================================

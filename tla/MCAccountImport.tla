--------------------------- MODULE MCAccountImport ---------------------------
(* AccountImport on small instances. *)
EXTENDS AccountImport
=============================================================================

----------------------------- MODULE MCQueryTask -----------------------------
(* The instance of QueryTask that TLC checks. *)
EXTENDS QueryTask
=============================================================================

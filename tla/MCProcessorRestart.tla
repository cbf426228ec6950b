------------------------- MODULE MCProcessorRestart -------------------------
(* ProcessorRestart on small instances. *)
EXTENDS ProcessorRestart
=============================================================================

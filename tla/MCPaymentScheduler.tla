------------------------- MODULE MCPaymentScheduler -------------------------
(* PaymentScheduler on a small instance: four requests of two SendActivity *)
(* objects and one MainActivity object.                                    *)
EXTENDS PaymentScheduler
=============================================================================

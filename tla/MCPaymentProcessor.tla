------------------------- MODULE MCPaymentProcessor -------------------------
(* PaymentProcessor on small instances.  A tick stands for 30 to 60        *)
(* seconds in the interval constants of the configurations.                *)
EXTENDS PaymentProcessor
=============================================================================

------------------------------- MODULE MCQrScan -------------------------------
(* The instance of QrScan that TLC checks. *)
EXTENDS QrScan
=============================================================================

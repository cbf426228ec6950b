------------------------ MODULE MCTransactionHistory ------------------------
(* TransactionHistory with pages of two: up to six transactions make three *)
(* full pages.  The activity lists all but the second and the fourth.      *)
EXTENDS TransactionHistory

MCWanted == {t \in Transactions : t \notin {2, 4}}
=============================================================================

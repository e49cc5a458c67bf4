--------------------------- MODULE MCTransactions ---------------------------
(* Transactions on small sets of transactions and tables. *)
EXTENDS Transactions
=============================================================================

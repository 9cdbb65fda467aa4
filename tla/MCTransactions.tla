--------------------------- MODULE MCTransactions ---------------------------
(* An instance of Transactions for TLC: a logical write and a command that *)
(* write two rows in opposite orders.                                      *)
EXTENDS Transactions, TLC
CONSTANTS t1, t2, a, b
MCPrograms == (t1 :> {<<a, b>>}) @@ (t2 :> {<<b, a>>})
=============================================================================

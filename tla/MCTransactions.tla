--------------------------- MODULE MCTransactions ---------------------------
(* One connection with one or two tabs.                                     *)
EXTENDS Transactions

CONSTANTS A, B

TwoTabs   == {A, B}
AllStmts  == Kinds
WriteOnly == {"write"}
============================================================================

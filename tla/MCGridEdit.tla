----------------------------- MODULE MCGridEdit -----------------------------
(* The instances of GridEdit that TLC checks; see the .cfg files.           *)
EXTENDS GridEdit

(* Other sessions add rows and change other columns.                        *)
OtherRows == {"insert", "update"}
BothEngines == {TRUE, FALSE}
=============================================================================

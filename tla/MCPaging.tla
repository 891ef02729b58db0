------------------------------ MODULE MCPaging ------------------------------
(* Paging with one or two tabs and one walk on one connection: a short read, *)
(* a read of several pages, and a statement that writes and returns rows.    *)
EXTENDS Paging

CONSTANTS A, B, c1, w1, q1, q2, dml

OneTab    == {A}
TwoTabs   == {A, B}
TheConn   == {c1}
OneConn   == [t \in {A, B} |-> c1]
OneTabOn  == [t \in {A} |-> c1]
TheWalker == {w1}
WalkOn    == [w \in {w1} |-> c1]
TwoReads  == {q1, q2}
ReadDml   == {q1, dml}
OneRead   == {q1}
FiveRows  == [s \in {q1, q2} |-> IF s = q1 THEN 5 ELSE 3]
DmlRows   == [s \in {q1, dml} |-> 3]
============================================================================

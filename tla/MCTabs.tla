------------------------------- MODULE MCTabs -------------------------------
(* Tabs open bound to no connection; a query may be bound to one later. No   *)
(* definition tells two texts of one size apart: the small ones, and the big *)
(* ones, may be permuted.                                                    *)
EXTENDS Tabs

Unbound == {NoConn}
Symmetry == Permutations(Texts \ Big) \cup Permutations(Big)
=============================================================================

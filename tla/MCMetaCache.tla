----------------------------- MODULE MCMetaCache ----------------------------
(* The instance of MetaCache that TLC checks; see the .cfg file.  Neither   *)
(* connections nor servers have an order, so both may be permuted.          *)
EXTENDS MetaCache

Symmetry == Permutations(Conns) \union Permutations(Hosts)
=============================================================================

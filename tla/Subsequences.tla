---------------------------- MODULE Subsequences ----------------------------
(* Array.prototype.filter: the elements of s that are in T, in their order.  *)
(* SelectSeq, with the test given as a set and in a form one can reason      *)
(* about: nothing is known to the provers of SelectSeq.                      *)
EXTENDS Naturals, Sequences

Only(s, T) ==
  LET upto[k \in 0..Len(s)] ==
        IF k = 0 THEN <<>>
        ELSE IF s[k] \in T THEN Append(upto[k - 1], s[k]) ELSE upto[k - 1]
  IN  upto[Len(s)]
=============================================================================

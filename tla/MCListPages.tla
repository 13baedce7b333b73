----------------------------- MODULE MCListPages -----------------------------
(* ListPages for TLC: two items of two subjects, one with a window.         *)
EXTENDS ListPages, TLC

MCFound == [t \in Texts |-> {}]
MCSubjectOf == [k \in Ids |-> IF k = "i1" THEN "s1" ELSE "s2"]

CallSymmetry == Permutations(Calls)
=============================================================================

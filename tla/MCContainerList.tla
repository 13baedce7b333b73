--------------------------- MODULE MCContainerList ---------------------------
(* ContainerList for TLC: two containers at most, a text that one of them   *)
(* has in its name and a text that none has.                                *)
EXTENDS ContainerList, TLC

MCFound == [t \in Texts |-> IF t = "one" THEN {"c1"} ELSE {}]

CallSymmetry == Permutations(Calls)
=============================================================================

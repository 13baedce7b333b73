----------------------------- MODULE MCTransfer -----------------------------
(* Transfer on small sets: threads are interchangeable; all the marks of a *)
(* run differ in case only, so that MainWindow takes them for one another. *)
EXTENDS Transfer, TLC

MCFold == [k \in Keys |-> "folded"]

ThreadSymmetry == Permutations(Workers)
=============================================================================

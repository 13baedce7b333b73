------------------------------- MODULE MCAudit -------------------------------
(* Audit for TLC.                                                          *)
EXTENDS Audit, TLC

MCFound == [t \in Texts |-> {}]
MCTyped == {-1, 0, 3}
=============================================================================

----------------------------- MODULE MCSettings -----------------------------
(* Settings for TLC: two nodes, two templates, a subject on the first node.  *)
EXTENDS Settings

MCNodeOf == [s \in Sources |-> IF s = "t2" THEN "n2" ELSE "n1"]
MCNetsOf == [s \in Sources |-> IF s = "t1" THEN 1 ELSE 2]
MCManyNets == [s \in Sources |-> 3]
=============================================================================

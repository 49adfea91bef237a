-------------------------- MODULE MCMemoryPipeline --------------------------
(* Values of the constants of MemoryPipeline for TLC.                      *)
EXTENDS MemoryPipeline

CONSTANTS t1, t2, t3, c1, m1, m2, k1

OnlyAdds == [t \in Tasks |-> "add"]
AddDelete == [t \in Tasks |-> IF t = t2 THEN "delete" ELSE "add"]

ThirdIsOther == [t \in Tasks |-> IF t = t3 THEN m2 ELSE m1]
OneMemory == [t \in Tasks |-> m1]
=============================================================================

----------------------------- MODULE MCEventHub -----------------------------
(* EventHub with two reporters of one run and one of another.              *)
EXTENDS EventHub

MCRunOf == [p \in Reporters |-> IF p = "other" THEN "r2" ELSE "r1"]
=============================================================================

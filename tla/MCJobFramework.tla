--------------------------- MODULE MCJobFramework ---------------------------
(* Instances of JobFramework for TLC. *)
EXTENDS JobFramework

\* Jobs are numbers here, of which the first is the least urgent.
MCPriority == [j \in Jobs |-> IF j = 1 THEN 1 ELSE 0]
=============================================================================

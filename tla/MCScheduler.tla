---------------------------- MODULE MCScheduler ----------------------------
(* Instances of Scheduler for TLC. *)
EXTENDS Scheduler

CONSTANTS daily, once

MCPeriod == [s \in Schedules |-> IF s = daily THEN 2 ELSE 1]
MCStarts == {-1,1}
=============================================================================

------------------------- MODULE MCCollectorRuntime -------------------------
(* Instances of CollectorRuntime for TLC. *)
EXTENDS CollectorRuntime

CONSTANTS a1, a2, solo, ssh_a, ssh_b

\* Two jobs share a target, the third has one of its own.
MCKey == [j \in Jobs |-> IF j = solo THEN ssh_b ELSE ssh_a]

\* One of them is tried again.
MCMaxAttempts == [j \in Jobs |-> IF j = a1 THEN 2 ELSE 1]
=============================================================================

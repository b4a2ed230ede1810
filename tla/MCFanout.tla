------------------------------ MODULE MCFanout ------------------------------
(* Instances of Fanout for TLC. *)
EXTENDS Fanout, TLC

CONSTANTS a1, a2, other

\* A device reports the address it was reached at or one outside the scope.
Differing == [a \in Addresses |-> {a, other}]

MCSymmetry == Permutations(Addresses)
=============================================================================

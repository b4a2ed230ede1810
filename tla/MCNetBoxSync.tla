---------------------------- MODULE MCNetBoxSync ----------------------------
(* Instances of NetBoxSync for TLC. *)
EXTENDS NetBoxSync
=============================================================================

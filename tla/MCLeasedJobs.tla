---------------------------- MODULE MCLeasedJobs ----------------------------
(* Instances of LeasedJobs for TLC. *)
EXTENDS LeasedJobs, TLC

\* Jobs 1 and 2 are about the same target, job 3 about another one.
MCTargetOf == <<1, 1, 2>>

\* Owner tokens and worker processes are interchangeable.
MCSymmetry == Permutations(Owners) \cup Permutations(Workers)
=============================================================================

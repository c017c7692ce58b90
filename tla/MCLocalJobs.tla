--------------------------- MODULE MCLocalJobs ---------------------------
(* Instances of LocalJobs for TLC. *)
EXTENDS LocalJobs

CONSTANTS j1, j2, j3, a1, a2

MCSymmetry == Permutations(Jobs) \cup Permutations(Accounts)
==========================================================================

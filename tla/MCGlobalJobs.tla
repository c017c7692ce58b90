--------------------------- MODULE MCGlobalJobs ---------------------------
(* Instances of GlobalJobs for TLC. *)
EXTENDS GlobalJobs

CONSTANTS g1, g2, w1, w2, l1, l2, l3, l4, l5

MCSymmetry == Permutations(Jobs) \cup Permutations(LocalIds) \cup Permutations(Workers)
==========================================================================

------------------------- MODULE MCWorkerRegistry -------------------------
(* Instances of WorkerRegistry for TLC. *)
EXTENDS WorkerRegistry, TLC

CONSTANTS w1, w2, u1, u2, p1, p2

MCSymmetry == Permutations(Polls)
==========================================================================

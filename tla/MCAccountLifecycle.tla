------------------------ MODULE MCAccountLifecycle ------------------------
(* Instances of AccountLifecycle for TLC. *)
EXTENDS AccountLifecycle, TLC

CONSTANTS c1, c2, c3, o1, o2

MCPids == 1..10
MCDesktop == <<"xvfb">>
MCSymmetry == Permutations(Calls) \cup Permutations(Objects)
===========================================================================

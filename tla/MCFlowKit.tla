----------------------------- MODULE MCFlowKit -----------------------------
(* Instances of FlowKit for TLC. *)
EXTENDS FlowKit

CONSTANTS r1, s1, s2

============================================================================

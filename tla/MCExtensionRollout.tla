------------------------ MODULE MCExtensionRollout ------------------------
(* Instances of ExtensionRollout for TLC. *)
EXTENDS ExtensionRollout, TLC

Symmetry == Permutations(Calls) \cup Permutations(Workers) \cup Permutations(Accounts)
===========================================================================

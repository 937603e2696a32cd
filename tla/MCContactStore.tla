--------------------------- MODULE MCContactStore ----------------------------
(* ContactStore for TLC. *)
EXTENDS ContactStore, TLC

Symmetry == Permutations(Pubkeys) \cup Permutations(Workers) \cup Permutations(Entries)
==============================================================================

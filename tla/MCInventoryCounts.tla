------------------------- MODULE MCInventoryCounts -------------------------
(* InventoryCounts for TLC. *)
EXTENDS InventoryCounts, TLC

Perms == Permutations(Counts) \cup Permutations(Variants)
=============================================================================

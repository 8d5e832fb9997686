--------------------------- MODULE MCOfflineSync ---------------------------
(* OfflineSync for TLC. *)
EXTENDS OfflineSync, TLC

Perms == Permutations(Sales) \cup Permutations(Runs)
=============================================================================

-------------------------- MODULE MCStockTransfers --------------------------
(* StockTransfers for TLC. *)
EXTENDS StockTransfers, TLC

Perms == Permutations(Transfers) \cup Permutations(Warehouses)
           \cup Permutations(Variants)
=============================================================================

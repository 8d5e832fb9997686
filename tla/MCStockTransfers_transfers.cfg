CONSTANTS
  Transfers = {t1}
  Variants = {v1, v2}
  Warehouses = {w1, w2}
  Active = {w1, w2}
  NoRow = NoRow
  MaxQty = 2
  MaxStock = 2
  MaxDrift = 1
  MaxOff = 1
SPECIFICATION Spec
SYMMETRY Perms
INVARIANTS LedgerMatchesStock MovementsMatchDocument
CHECK_DEADLOCK FALSE

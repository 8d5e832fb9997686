CONSTANTS
  Boxes = {b1, b2, b3}
  Liquid = {b1, b2}
  Payments = {p1, p2}
  Suppliers = {p2}
  Tasks = {r1, r2, r3}
  Money = {1, 2}
SPECIFICATION DeskSpec
INVARIANTS BalanceIsLedger VoidUndoesPayment
PROPERTIES NoDoubleSpend LockersEnd

CONSTANTS
  Returns = {r1, r2}
  EditRequests = {e1}
  Requests = {q1, q2}
  Drawers = {d1}
  PaidBox = bank
  Sold = 1
  MaxQty = 2
  NewLines <- OneOfEach
  NewEdits <- UpOrAway
  MaxOnHand = 2
  NoReturn = NoReturn
  NoBox = NoBox
  NoEntry = NoEntry
SPECIFICATION Spec
SYMMETRY Perms
INVARIANTS CashMatchesEntry BookedAsItStands MovementsMatchReturn TakenOneByOne RefundCanBeReversed
CHECK_DEADLOCK FALSE

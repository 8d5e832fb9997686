CONSTANTS
  Reservations = {r1, r2}
  Reservable = {v1}
  Requests = {q1, q2}
  NoReservation = NoReservation
  MaxQty = 2
  MaxDiscount = 1
  MaxChange = 1
  DepositPct = 30
  FeePct = 50
SPECIFICATION ReservationSpec
SYMMETRY Perms
INVARIANTS
  ReservationTypeOK HoldsFollowReservations CollectedBeforeHandedOver SettledOneWay
CHECK_DEADLOCK FALSE

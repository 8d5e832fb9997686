CONSTANTS
  Shifts = {s1}
  Requests = {q1, q2}
  NoShift = NoShift
  Unset = Unset
  MaxCash = 1
  MaxBooked = 1
SPECIFICATION Spec
SYMMETRY Perms
INVARIANTS VarianceOnce SnapshotMatches
PROPERTIES ClosingExplainsCash VarianceIsDecided
CHECK_DEADLOCK FALSE

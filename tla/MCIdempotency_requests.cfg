CONSTANTS
  Requests = {r1, r2, r3}
  Keys = {k1}
  Payloads = {p1, p2}
  NoKey = NoKey
  BadKey = BadKey
  NoBody = NoBody
  WithinBudget = TRUE
  MaxCrashes = 1
SPECIFICATION Spec
PROPERTY LockIsFreed
INVARIANTS ReplayIsFaithful AtMostOnce
CHECK_DEADLOCK FALSE

CONSTANTS
  r1 = r1
  r2 = r2
  r3 = r3
  Expenses = {e1}
  Rules = {r1, r2, r3}
  Amounts = {1, 2, 3}
  Bracket <- MCBracket
SPECIFICATION Spec
INVARIANTS
  PostedIffApproved EveryLevelConsents AllLevelsApprove
CHECK_DEADLOCK FALSE

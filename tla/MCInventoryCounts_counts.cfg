CONSTANTS
  Counts = {c1, c2}
  Variants = {v1}
  Unset = Unset
  MaxStock = 3
SPECIFICATION Spec
SYMMETRY Perms
INVARIANTS NoVarianceUnrecorded
PROPERTY FinalizeCorrects
CHECK_DEADLOCK FALSE

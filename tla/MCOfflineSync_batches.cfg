CONSTANTS
  Sales = {s1, s2, s3}
  Runs = {y1}
  NoSale = NoSale
  MaxRetries = 1
  BatchSize = 2
  MaxCrashes = 1
  MaxBooked = 2
SPECIFICATION Spec
SYMMETRY Perms
PROPERTIES IntakeSpec
CHECK_DEADLOCK FALSE

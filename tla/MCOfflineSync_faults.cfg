CONSTANTS
  Sales = {s1}
  Runs = {y1, y2}
  NoSale = NoSale
  MaxRetries = 3
  BatchSize = 1
  MaxCrashes = 1
  MaxBooked = 2
SPECIFICATION Spec
INVARIANTS AckMeansBooked DropIsEarned
PROPERTIES QueueDrains IntakeSpec
CHECK_DEADLOCK FALSE

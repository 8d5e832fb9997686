CONSTANTS
  Templates = {t1, t2}
  Scheduler = scheduler
  Requests = {r1}
  MaxDay = 2
  Gap <- MCGap
  Starts = {0}
  Ends <- MCEnds
  Never = Never
  Limit = 1
  None = None
  MaxEdits = 1
  MaxCrashes = 1
SPECIFICATION RecurringSpec
INVARIANTS OncePerDate NoDateSkipped
 

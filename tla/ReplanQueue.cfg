SPECIFICATION QueueSpec
CONSTANTS
  s1 = s1  r1 = r1  r2 = r2
  Shifts = {s1}
  Replicas = {r1, r2}
  OnDemand = OnDemand
  Nightly = Nightly
  Nobody = Nobody
  Leftovers <- MCLeftovers
  MaxMessages = 2
  BatchSize = 2
  MaxRetries = 3
  SharedPool = TRUE
INVARIANTS QueueTypeOK PlannedOnce RunTellsOutcome
PROPERTIES RequestsAreKept
CHECK_DEADLOCK FALSE

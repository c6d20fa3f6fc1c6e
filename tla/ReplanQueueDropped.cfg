INIT QueueInit
NEXT QueueNext
CONSTANTS
  s1 = s1  r1 = r1  r2 = r2
  Shifts = {s1}
  Replicas = {r1}
  OnDemand = OnDemand
  Nightly = Nightly
  Nobody = Nobody
  Leftovers <- MCLeftovers
  MaxMessages = 2
  BatchSize = 2
  MaxRetries = 2
  SharedPool = TRUE
PROPERTIES DiscardedAfterRetries
CHECK_DEADLOCK FALSE

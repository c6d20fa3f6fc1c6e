SPECIFICATION Spec
CONSTANTS
  s1 = s1  s2 = s2  d1 = d1  d2 = d2  v1 = v1  v2 = v2
  p1 = p1  p2 = p2  p3 = p3  c1 = c1  c2 = c2  c3 = c3
  Shifts = {s1, s2}
  Scheduled = {s2}
  Drivers = {d1, d2}
  Vehicles = {v1, v2}
  Packages = {p1, p2, p3}
  Pairings <- MCPairings
  Covers <- MCCovers
  Carries <- MCCarries
  GrossLimits <- MCGrossLimits
  Feasible <- MCFeasible
  Urgent = {p1, p3}
  Fresh = {p1, p2, p3}
  FreeShifts = 2
  HasPayment = FALSE
  NoShift = NoShift
  Nobody = Nobody
  Calls = {c1, c2}
  MaxEvictions = 1
  MaxRevisionRetries = 1
PROPERTIES LoadedStays
CHECK_DEADLOCK FALSE

INIT DispatchInit
NEXT DispatchNext
CONSTANTS
  s1 = s1  s2 = s2  d1 = d1  d2 = d2  v1 = v1  v2 = v2
  p1 = p1  p2 = p2  c1 = c1  c2 = c2  w1 = w1  w2 = w2  e1 = e1  e2 = e2
  Shifts = {s1, s2}
  Scheduled = {}
  Drivers = {d1, d2}
  Vehicles = {v1, v2}
  Packages = {p1, p2}
  Pairings <- MCOnePairing
  Covers <- MCCovers
  Carries <- MCCarries
  GrossLimits <- MCLargerLimits
  Feasible <- MCRoomy
  Routable <- MCRoomy
  Urgent = {}
  Fresh = {p1, p2}
  FreeShifts = 2
  HasPayment = FALSE
  NoShift = NoShift
  Nobody = Nobody
  Calls = {c1, c2, w1, w2}
  Workers = {w1, w2}
  Editors = {}
  MaxEvictions = 1
  MaxRevisionRetries = 1
  MaxRetries = 1
  SharedPool = FALSE
PROPERTIES SkippedSolveIsCovered
CHECK_DEADLOCK FALSE

INIT PlanningInit
NEXT PlanningNext
CONSTANTS
  p1 = p1  p2 = p2  v1 = v1  v2 = v2  w1 = w1  w2 = w2
  Parcels = {p1, p2}
  Located = {p1, p2}
  Handled = {p1}
  Vans = {v1, v2}
  Solves = {w1}
  None = None
  MaxShifts = 2
  MaxClock = 1
  Lengths = {1}
  Buffer = 1
  unset = unset
  Unset = unset
  TimePerStop = 250
  ShiftWindow = 1200
  MaxStops = 3
  Items = {1, 2, 3}
  Shifts = {1, 2}
  At <- MCAt
  Weight <- MCWeight
  Deadline <- MCDeadline
  Old <- MCOld
  CapacityG = 3
  DayEnd = 1200
  Detour = 135
  Safety = 120
  RoadFactor = 150
  GreyBand = 15
  MaxEvictions = 2
  LoadSpread = 100
  Policies <- MCPolicies
  Pinnable = {1}
  Loadable = {1}
  Rolling = {2}
  oa = oa  ob = ob  wa = wa  wb = wb  d1 = d1  d2 = d2  d3 = d3  a1 = a1  a2 = a2
  g1 = g1  g2 = g2  g3 = g3  x1 = x1  x2 = x2  cold = cold
  Orgs = {oa}
  Warehouses = {wa}
  Drivers = {d1, d2}
  Areas = {a1, a2}
  Goods = {g1, g2}
  Points = {x1, x2}
  WarehouseOrg <- MCWarehouseOrg
  DriverHome <- MCDriverHome
  AreaOrg <- MCAreaOrg
  Covered <- MCCovered
  GoodsAt <- MCGoodsAt
  GoodsHome <- MCGoodsHome
  GoodsOrg <- MCGoodsOrg
  Needs <- MCNeeds
  Holds <- MCHolds
  Nowhere = Nowhere
  Links <- MCLinks
  Batches <- MCBatches
  Pinned = {g2}
  LiveAtFirst <- MCLiveAtFirst
  MaxEdits = 1
  MaxPlacements = 2
  MinDecisions = 1
  AlertRate = 20
CHECK_DEADLOCK FALSE
INVARIANTS RoutedAreClaimed HeldForTheSolver NoFalseYes TheSameWinner TiersAgree AnUnstaffedMapChangesNothing TheDiagnosisAgrees EachPlacementCounted
PROPERTIES DispatchersChoiceStands NextWaveAfterReturn VictimsAreNeeded
SYMMETRY Sym

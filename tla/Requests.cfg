INIT RequestsInit
NEXT RequestsNext
CONSTANTS
  k1 = k1  k2 = k2  k3 = k3  b1 = b1  e1 = e1  e2 = e2  q1 = q1  q2 = q2  j1 = j1  j2 = j2
  h1 = h1  h2 = h2  m1 = m1  n1 = n1  n2 = n2  x1 = x1  x2 = x2  x3 = x3  x4 = x4  x5 = x5
  RowIds = {k1, k2, k3}
  Clients <- MCClients
  Jobs = {j1, j2}
  PaymentsOn = TRUE
  NoRow = NoRow
  Absent = Absent
  Posts = {q1, q2}
  Numbers = {"t1"}
  Generated = Generated
  Sessions = {b1}
  Sender <- MCSenders
  Receivers <- MCReceivers
  Deliveries = {e1, e2}
  Catalogue <- MCCatalogue
  Distance <- MCDistance
  Weight <- MCWeight
  w1 = w1  w2 = w2  w3 = w3  d1 = d1  d2 = d2  v1 = v1  v2 = v2  a1 = a1  p1 = p1  p2 = p2
  t1 = t1  t2 = t2  t3 = t3
  Wizards = {w1, w2, w3}
  Form <- MCForm
  LocalDay <- MCLocalDay
  Homes <- MCHomes
  PackageDepot <- MCPackageDepot
  NoDepot = NoDepot
  Allowance = 2
  Triggers = {t1, t2, t3}
  At0 <- MCAt0
  Limit = 2
  MaxTime = 3
  c1 = c1  c2 = c2
  Calls = {c1, c2}
  NoCustomer = NoCustomer
  Kinds <- MCKinds
  MaxEvents = 5
  i1 = i1  i2 = i2  a3 = a3  a4 = a4  n3 = n3
  Offers <- MCOffers
  CallerGrants = {"load", "plan"}
  AllGrants = {"load", "plan", "pay"}
  NoOne = NoOne
  NoRole = NoRole
  Inviters = {i1, i2}
  Accepters = {a3, a4}
  Creators = {n3}
INVARIANTS EveryOrderOnce WizardBillsOnce RunsAreSpaced OneKindOfPlan
PROPERTIES StrongerIdentityStands GrantsAreOneOffer
CHECK_DEADLOCK FALSE

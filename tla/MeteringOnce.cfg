SPECIFICATION Spec
CONSTANTS
  i1 = i1  i2 = i2  o1 = o1  o2 = o2  d1 = d1  d2 = d2  n1 = n1  n2 = n2
  Replicas = {n1}
  MaxWakes = 1
  Rows = {i1, i2}
  Organisations = {o1, o2}
  Owners <- MCOwners
  Drains = {d1, d2}
  Faults = {"crash"}
  MaxFaults = 1
INVARIANT MeteredOnce
CHECK_DEADLOCK FALSE

INIT RunInit
NEXT RunNext
CONSTANTS
  p1 = p1  p2 = p2  v1 = v1  v2 = v2  w1 = w1  w2 = w2
  Parcels = {p1, p2}
  Located = {p1, p2}
  Handled = {p1}
  Vans = {v1, v2}
  Solves = {w1}
  None = None
  MaxShifts = 2
  MaxClock = 1
  Lengths = {1, 2}
  Buffer = 0
CHECK_DEADLOCK FALSE
PROPERTIES WavesDoNotOverlap
SYMMETRY Sym

SPECIFICATION Safety
CONSTANTS
  None = None
  k1 = k1
  k2 = k2
  Conns = {k1}
  Cases = {1}
  Requests = {1, 2, 3}
  Mobile = {2}
  CaseOf <- MCOneCase
  Orderly = TRUE
  Resends = FALSE
  MaxLanes = 2
  MaxOthers = 1
  MaxFaults = 1
  MaxStops = 0
INVARIANTS
  PendingIsDriven

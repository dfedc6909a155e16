SPECIFICATION Safety
CONSTANTS
  None = None
  k1 = k1
  k2 = k2
  Conns = {k1}
  Cases = {1}
  Requests = {1, 2}
  Mobile = {2}
  CaseOf <- MCOneCase
  Orderly = TRUE
  Resends = FALSE
  MaxLanes = 2
  MaxOthers = 0
  MaxFaults = 1
  MaxStops = 1
INVARIANTS
  PendingIsDriven
  AcceptedIsKept
  EverySnapshotRestores
  PlayedIsFinal
  FailureIsFinal

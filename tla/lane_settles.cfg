SPECIFICATION Spec
CONSTANTS
  None = None
  k1 = k1
  k2 = k2
  Conns = {k1}
  Cases = {1, 2}
  Requests = {1}
  Mobile = {}
  CaseOf <- MCTwoCases
  Orderly = FALSE
  Resends = TRUE
  MaxLanes = 2
  MaxOthers = 1
  MaxFaults = 1
  MaxStops = 0
PROPERTIES
  AudioEndsItsOwnStream
  PendingSettles

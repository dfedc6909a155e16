SPECIFICATION BleSpec
CONSTANTS
  StreamKinds = {"recording", "image"}
  Pieces = 1
  MaxAccepted = 1
  QueueCap = 1
  MaxStreams = 1
  MaxLinks = 1
  MaxChannels = 1
  MaxFaults = 0
INVARIANT
  EndIsHonest
CHECK_DEADLOCK FALSE

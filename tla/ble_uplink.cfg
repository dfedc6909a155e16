SPECIFICATION BleSpec
CONSTANTS
  StreamKinds = {"recording", "image", "voice"}
  Pieces = 2
  MaxAccepted = 2
  QueueCap = 1
  MaxStreams = 2
  MaxLinks = 2
  MaxChannels = 2
  MaxFaults = 1
INVARIANTS
  OwnDataInOrder
  UncrossedEndIsHonest
PROPERTIES
  EndedStreamEnds
CHECK_DEADLOCK FALSE

SPECIFICATION Spec
CONSTANTS
  SlotIds <- MCSlotIds
  Segments <- MCSegments
  Recordings <- MCSegments
  Capacity = 1
  MaxCompleted = 1
  MaxProbes = 0
  Prompt = TRUE
  MaxCases = 1
  MaxAsks = 1
  MaxFaults = 1
  TxCapacity = 9
INVARIANTS
  KeptUntilStored
  StreamIsOneRecording
PROPERTIES
  RequestCoversEverything
  EverythingDelivered

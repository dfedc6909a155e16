SPECIFICATION Spec
CONSTANTS
  Chunks = 3
  Room = 2
  MaxFaults = 1
  MaxSlips = 1
  Prompt = TRUE
INVARIANTS
  HeardWithoutGap
  HeardIsWhole
PROPERTIES
  ResetIsAcknowledged
  PlaybackEnds
CHECK_DEADLOCK FALSE

SPECIFICATION Spec
CONSTANTS
  TxItems = 1
  TxAudio = 1
  RxItems = 1
  CallbackItems = 2
  MaxChunks = 1
  MaxStarts = 2
INVARIANTS
  NothingUsedAfterDelete
  CallbacksAreCurrent
  LossIsTold
  WireIsWellFormed
PROPERTIES
  StopReturns
CHECK_DEADLOCK FALSE

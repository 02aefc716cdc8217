SPECIFICATION Spec
CONSTANTS
  Capacity = 127
  Sentence = 28
  Pauses = {14, 20}
  MayNack = TRUE
  MayCorrupt = TRUE
  MayLose = TRUE
  MaxFaults = 2
  MaxCalls = 5
INVARIANTS DatumGenuine DatumOfThisCall InStep InitSynchronises
PROPERTIES CallReturns
CHECK_DEADLOCK FALSE

SPECIFICATION Spec
CONSTANTS
  RX_BUFFER_SIZE = 4
  Byte = {0, 1}
  MaxAccepted = 8
CONSTRAINT Bound
INVARIANTS ReaderStable StreamIntact
PROPERTY ImplementsFifo
CHECK_DEADLOCK TRUE

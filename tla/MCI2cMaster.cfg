SPECIFICATION Spec
CONSTANTS
  Sizes = {1, 2, 3}
  Capacity = 4
  MayNack = TRUE
  OtherMaster = TRUE
  Late = FALSE
  MaxTransfers = 3
INVARIANTS IdleMeansDone NeverTooMany
PROPERTIES TransferUndisturbed Completes
CHECK_DEADLOCK FALSE

SPECIFICATION BmpSpec
CONSTANTS
  Sizes = {1, 2, 3, 5, 6, 32}
  Capacity = 63
  MayNack = FALSE
  OtherMaster = FALSE
  Late = FALSE
  MaxTransfers = 42
  StackReused = TRUE
  Settings <- Registers
  MaxCalls = 1
INVARIANT SettingsArrive
CHECK_DEADLOCK FALSE

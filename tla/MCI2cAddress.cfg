SPECIFICATION Spec
CONSTANTS
  Builds = {"normal"}
  UpdatesCore = TRUE
  Bauds = {}
  SpiModes = {}
  Cpols = {}
  Freqs = {}
  I2cModes = {"master", "slave"}
  Addresses = {33, 72}
  Channels <- OneI2c
  FreePins = {}
  MaxCalls = 3
INVARIANT SlaveAnswersItsAddress
CHECK_DEADLOCK FALSE

SPECIFICATION Spec
CONSTANTS
  Builds = {"normal", "low power"}
  UpdatesCore = TRUE
  Bauds = {9600, 140700}
  SpiModes = {"master", "slave"}
  Cpols = {0, 1}
  Freqs = {200, 2000, 16000}
  I2cModes = {"master", "slave"}
  Addresses = {33, 72}
  Channels <- AllChannels
  FreePins <- CsPins
  MaxCalls = 4
INVARIANTS Serviceable PinsServeOwner UartRate SpiRate AsAskedLast
CHECK_DEADLOCK FALSE

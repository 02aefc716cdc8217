SPECIFICATION SdSpec
CONSTANTS
  Cards <- MCCards
  BlockLen = 2
  BecomesReady = TRUE
  Args = {0, 1, 2}
  Counts = {0, 1, 2}
  MaxFaults = 2
  MaxIdle = 1
  MaxCalls = 4
PROPERTIES InitSound ReadsReturnSectors WritePrefix TransmissionClosed CallReturns
           ImplementsStore
CHECK_DEADLOCK FALSE

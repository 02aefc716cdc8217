SPECIFICATION DiskSpec
CONSTANTS
  Cards <- MCCards
  BlockLen = 2
  BecomesReady = TRUE
  Args = {0, 1, 2, 6, 7}
  Counts = {0, 1, 2}
  MaxFaults = 2
  MaxIdle = 0
  MaxCalls = 3
  LbaModulus = 8
INVARIANT GeometryOfSomeCard
PROPERTY TransferInsideCard
CHECK_DEADLOCK FALSE

SPECIFICATION Spec
CONSTANTS
  Capacity = 2
  TickMod = 8
  Timeouts = {0, 3}
  Sizes = {0, 2}
  MaxLag = 1
  MaxBytes = 4
  MaxCalls = 3
INVARIANTS TimeoutNotEarly GivesUpInTime DelayExact FreshAfterFlush
PROPERTY CallReturns
CHECK_DEADLOCK TRUE

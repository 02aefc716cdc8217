SPECIFICATION Spec
CONSTANTS
  Sizes = {1, 2, 3}
  Capacity = 4
  Keeps = {"armed", "direction", "length"}
  MaxCalls = 3
  MaxVisits = 3
INVARIANTS SendsItsBytes ReceivesAll
PROPERTIES Released
CHECK_DEADLOCK FALSE

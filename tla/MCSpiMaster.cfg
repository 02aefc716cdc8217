SPECIFICATION Spec
CONSTANTS
  PolledSizes = {1, 2, 4}
  TimedSizes = {1, 3, 5}
  Capacity = 4
  Late = {"timed"}
  MaxExchanges = 3
INVARIANTS AnswersInOrder QuietBetween TimeoutMeansLoss
PROPERTIES ExchangeEnds
CHECK_DEADLOCK FALSE

SPECIFICATION Spec
CONSTANTS
  MaxCalls = 3
  MaxTries = 2
  MaxFlips = 1
  MaxRaw = 0
  MaxRestarts = 0
  MaxPrunes = 1
CHECK_DEADLOCK FALSE
INVARIANTS HoldSound OrderUnlessGivenUp

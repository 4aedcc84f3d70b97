SPECIFICATION FairSpec
CONSTANTS
  MaxCalls = 3
  MaxTries = 1
  MaxFlips = 1
  MaxRaw = 1
  MaxRestarts = 1
  MaxPrunes = 1
CHECK_DEADLOCK FALSE
PROPERTIES HeldIsDispatched SendsSettle WireIsStream

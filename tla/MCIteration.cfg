SPECIFICATION Spec
CONSTANTS
  Records = {1, 2, 3, 4}
  Hidden = {2}
  Limit = 2
CHECK_DEADLOCK FALSE
INVARIANTS IterationComplete

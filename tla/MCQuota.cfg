SPECIFICATION MCSpec
CONSTANTS
  Conns = {c1, c2}
  Admin = Admin
  Sizes = {1, 2}
  SmallMax = 1
  DefaultQuota = 2
  Grants = {3}
  MaxBilled = 2
  MaxAdmin = 1
  MaxKicks = 1
  MaxRestarts = 1
  MaxPeriods = 1
SYMMETRY Symmetry
CHECK_DEADLOCK FALSE
INVARIANTS NoOverbilling ExactUndisturbed

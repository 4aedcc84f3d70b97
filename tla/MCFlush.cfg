SPECIFICATION TrafficSpec
CONSTANTS
  Recs = {r1, r2}
  Kinds = {k1}
  Ops = {o1, o2}
  Write = Write
  PerMinute = 2
  Times = {0, 1, 2}
  Limits = {1, 2}
CHECK_DEADLOCK FALSE
INVARIANTS FlushDrains

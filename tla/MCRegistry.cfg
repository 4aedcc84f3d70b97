SPECIFICATION MCSpec
CONSTANTS
  Users = {u1}
  SessionIds = {s1, s2}
  Conns = {c1, c2}
  NoConn = NoConn
  MaxSessions = 1
  RelayFailLimit = 1
  AdminOps = 1
CHECK_DEADLOCK FALSE
INVARIANTS NoInvisibleSession OneLiveConnection ExactUntilOverlap
PROPERTIES EvictedTaskEnds

SPECIFICATION Spec
CONSTANTS
  Msgs = {m1, m2}
  NoMsg = NoMsg
  Sids = {s1}
  QueueMax = 2
  Retries = 0
  MaxSends = 1
  MaxReloads = 1
  MaxPeerReloads = 0
CHECK_DEADLOCK FALSE
SYMMETRY Symmetry
INVARIANTS ReflushArmed StoreMirrorsQueue PendingIsHeld

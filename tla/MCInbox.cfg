SPECIFICATION Spec
CONSTANTS
  Senders = {a}
  PerSender = 3
  Conns = {c1, c2}
  Sessions = {s1, s2}
  None = None
  InboxMax = 2
  TTL = 1
  MaxNow = 2
CHECK_DEADLOCK FALSE
SYMMETRY Symmetry
INVARIANTS BacklogInOrder

SPECIFICATION FairSpec
CONSTANTS
  Senders = {a, b}
  PerSender = 1
  Conns = {c1, c2}
  Sessions = {s1}
  None = None
  InboxMax = 1
  TTL = 1
  MaxNow = 2
CHECK_DEADLOCK FALSE
INVARIANTS AtMostOnce
PROPERTIES RowsLeave RelayIsMailbox

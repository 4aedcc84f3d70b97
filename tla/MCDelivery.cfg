SPECIFICATION FairSpec
CONSTANTS
  Msgs = {m1}
  NoMsg = NoMsg
  Sids = {s1}
  QueueMax = 2
  Retries = 1
  MaxSends = 2
  MaxReloads = 1
  MaxPeerReloads = 1
CHECK_DEADLOCK FALSE
INVARIANTS HandlerStartsOnce PlainAckMeansHandled
PROPERTIES QueuedSettles

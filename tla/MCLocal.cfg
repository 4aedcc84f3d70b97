SPECIFICATION LocalSpec
CONSTANTS
  Records = {1, 2, 3, 4}
  Hidden = {2}
  Limit = 2
  None = None
  Null = Null
  Chunks = {k1, k2}
  Manifest = Manifest
  Fetches = {f1, f2}
  Peers = {s1, s2}
  Nobody = Nobody
  Everyone = Everyone
  Concurrency = 1
  MaxUpsets = 1
  DbConns = {c1, c2, c3}
  Users = {o1}
  Nil = Nil
  MaxRetries = 1
  MaxCalls = 2
  MaxFaults = 1
  Instances = {i1, i2}
  Conns = {c1, c2}
  Calls = {o1, o2}
  Values = {v1}
  Deletion = Deletion
  Reqs = {r1, r2}
  Imports = {i1}
  MaxSign = 2
  Ahead = {}
  MaxAttempts = 2
  Recs = {r1, r2}
  Ops = {o1, o2}
  Write = Write
  Kinds = {k1}
  PerMinute = 2
  Times = {0, 1, 2}
  Limits = {1, 2}
CHECK_DEADLOCK FALSE
INVARIANTS TypesOK ScanComplete EveryWaitEnds LoneFetchSucceeds OneIdentity DeleteUnhindered SettlesIfAlone AggregatesAgree ClearedStaysCleared
PROPERTIES DeletedOnce CallsApplyOnce NeverOlder

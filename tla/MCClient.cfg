SPECIFICATION ClientSpec
CONSTANTS
  near = a
  far = b
  Ends = {a, b}
  None = None
  UserOf <- Users
  MaxPcs <- Connections
  MaxFaults = 1
  Urls = {u1}
  Sockets = {k1, k2, k3}
  Calls = {c1, c2}
  NoSocket = NoSocket
  Retries = 1
  MaxBackoff = 2
  MaxCalls = 4
  MaxFailures = 3
  Servers = {u1, u2}
  Jobs = {j1, j2}
  first = j1
  Probe = Probe
  Target <- Addressees
  MaxUpsets = 1
  Sids = {s1, s2}
  Exposed = {s1}
  Lookups = {l1, l2}
  MaxChanges = 2
  MaxMisses = 1
CHECK_DEADLOCK FALSE
INVARIANTS TypesOK QuietMeansPaired Reachable DownStaysDown KeptUp VerdictSound WaiterNotForgotten

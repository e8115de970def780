CONSTANTS
  Devices = {d1}
  Jobs = {j1, j2}
  Requests = {r1}
  Schedulers = {}
  Workers = {w1, w2}
  SetWorkers = {w1, w2}
  Clients = {c1, c2}
  None = None
  Free = Free
  Orphan = Orphan
  MaxFaults = 1
  MaxStalled = 1
  MaxChanges = 2
  Overrun = FALSE
SPECIFICATION Spec
SYMMETRY Symmetry
INVARIANTS
  MutualExclusion
  DriftsFromOneSnapshot
  OneJobPerRequest
  RewriteNeedsFault
CHECK_DEADLOCK FALSE

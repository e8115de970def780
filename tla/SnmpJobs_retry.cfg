CONSTANTS
  Devices = {d1}
  Jobs = {j1}
  Requests = {r1}
  Schedulers = {}
  Workers = {w1, w2}
  SetWorkers = {w1, w2}
  Clients = {c1}
  None = None
  Free = Free
  Orphan = Orphan
  MaxFaults = 1
  MaxStalled = 1
  MaxChanges = 2
  Overrun = FALSE
SPECIFICATION Spec
INVARIANT
  NoAutomaticRetry
CHECK_DEADLOCK FALSE

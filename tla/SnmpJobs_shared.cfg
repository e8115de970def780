CONSTANTS
  Devices = {d1}
  Jobs = {j1}
  Requests = {r1}
  Schedulers = {d1}
  Workers = {w1, w2}
  SetWorkers = {w1}
  Clients = {c1}
  None = None
  Free = Free
  Orphan = Orphan
  MaxFaults = 1
  MaxStalled = 1
  MaxChanges = 3
  Overrun = TRUE
SPECIFICATION Spec
SYMMETRY SymmetryOfRows
INVARIANTS
  TypeOK
  WriteRequestMirrorsJob
  CompletedWriteWasApplied
  RunningHasHandler
PROPERTY
  OnlyOwnerOrTimeFrees
CHECK_DEADLOCK FALSE

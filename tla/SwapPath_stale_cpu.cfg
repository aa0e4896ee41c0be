SPECIFICATION Spec
CONSTANTS
  CPUs = {c1, c2}
  Threads = {t1, t2}
  Pages = {p1}
  Reqs = {r1, r2}
  Vals = {v1}
  None = None
  MaxSendWr = 1
  WriteSlack = 0
  ReadTarget = 1
  WriteTarget = 1
  DrainBudget = 1
  FaultKinds = {}
  MaxFaults = 0
  MigrateInAlloc = TRUE
  RaWindow = 0
INVARIANT FaultReady
CHECK_DEADLOCK FALSE

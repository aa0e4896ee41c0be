SPECIFICATION Spec
CONSTANTS
  CPUs = {c1, c2}
  Threads = {t1, t2}
  Pages = {p1, p2}
  Reqs = {r1, r2, r3}
  Vals = {v1, v2}
  None = None
  MaxSendWr = 1
  WriteSlack = 0
  ReadTarget = 1
  WriteTarget = 1
  DrainBudget = 1
  FaultKinds = {}
  MaxFaults = 0
  MigrateInAlloc = TRUE
  RaWindow = 1
SYMMETRY Symm
INVARIANTS TypeOK PendingAccounts PendingBounded PostHasRoom DmaExclusive Integrity
PROPERTY ImplementsFarMemory
CHECK_DEADLOCK FALSE

SPECIFICATION Spec
CONSTANTS
  CPUs = {c1}
  Threads = {t1, t2}
  Pages = {p1, p2}
  Reqs = {r1, r2}
  Vals = {v1}
  None = None
  MaxSendWr = 1
  WriteSlack = 0
  ReadTarget = 1
  WriteTarget = 1
  DrainBudget = 1
  FaultKinds = {"completion", "post", "alloc"}
  MaxFaults = 2
  MigrateInAlloc = FALSE
  RaWindow = 1
SYMMETRY Symm
INVARIANTS PostHasRoom DmaExclusive
PROPERTY DrainedIsIdle
CHECK_DEADLOCK FALSE

SPECIFICATION FairSpec
CONSTANTS
  CPUs = {c1}
  Threads = {t1, t2}
  Pages = {p1, p2}
  Reqs = {r1, r2}
  Vals = {v1}
  None = None
  MaxSendWr = 2
  WriteSlack = 1
  ReadTarget = 1
  WriteTarget = 2
  DrainBudget = 2
  FaultKinds = {}
  MaxFaults = 0
  MigrateInAlloc = FALSE
  RaWindow = 1
INVARIANT FaultReady
PROPERTY EventuallyUnlocked

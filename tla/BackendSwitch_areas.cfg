SPECIFICATION Spec
CONSTANTS
  Pages = {p1, p2}
  Areas = {a1, a2}
  SwapPages = 2
  BufPages = 2
  Vals = {v1, v2}
  None = None
  Targets = {"dram", "rdma"}
  FaultKinds = {}
  MaxRuns = 1
INVARIANT StoredIsKept
CHECK_DEADLOCK FALSE

SPECIFICATION Spec
CONSTANTS
  Pages = {p1}
  Areas = {a1}
  SwapPages = 2
  BufPages = 2
  Vals = {v1}
  None = None
  Targets = {"dram", "rdma"}
  FaultKinds = {}
  MaxRuns = 2
INVARIANT Integrity
CHECK_DEADLOCK FALSE

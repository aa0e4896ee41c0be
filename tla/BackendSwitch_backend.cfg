SPECIFICATION Spec
CONSTANTS
  Pages = {p1, p2}
  Areas = {a1}
  SwapPages = 3
  BufPages = 3
  Vals = {v1, v2}
  None = None
  Targets = {"dram", "rdma", "ssd"}
  FaultKinds = {"transfer", "insmod", "vzalloc"}
  MaxRuns = 2
SYMMETRY Symm
INVARIANTS TypeOK CarefulNoCrash StoredIsKept
PROPERTY CarefulFarMemory
CHECK_DEADLOCK FALSE

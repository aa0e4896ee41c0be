SPECIFICATION FairSpec
CONSTANTS
  numcpus = 1
  Procs = {1, 2}
  MaxAttempts = 2
  FaultKinds = {"timeout", "cm", "resource", "server"}
  MaxFaults = 2
INVARIANTS TypeOK ReadyAligned ReadyServed QueueTable NoHandlerAfterUnload FreeOwned LossesOfLoad QueueCtrInRange
PROPERTY InsModEnds
CHECK_DEADLOCK FALSE

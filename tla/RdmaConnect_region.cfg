SPECIFICATION FairSpec
CONSTANTS
  numcpus = 1
  Procs = {2}
  MaxAttempts = 2
  FaultKinds = {"timeout"}
  MaxFaults = 1
PROPERTY RegionArrives
CHECK_DEADLOCK FALSE

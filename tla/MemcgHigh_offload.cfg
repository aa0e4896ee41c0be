SPECIFICATION FairSpec
CONSTANTS
  Tasks = {t1, t2}
  Batch = 1
  MaxOffload = 2
  Highs = {0, 2}
  MaxCharges = 4
INVARIANTS TypeOK OverHighAttended
PROPERTY OverHighEnds
CHECK_DEADLOCK FALSE

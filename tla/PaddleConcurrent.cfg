SPECIFICATION Spec
CONSTANTS
  Procs = {w1, w2}
  SubIds = {s1}
  Prices <- MonthlyPrices
  Length <- MCLength
  Lead = 1
  Tolerance = 1
  CompLength = 1
  MaxClock = 2
  MaxOps = 3
  MaxFaults = 0
  NoSub = NoSub
  NoProc = NoProc
SYMMETRY Symmetry
INVARIANTS TypeOK PendingHasDate PaidPlanHasEnd SweepExclusive SyncedAgrees
PROPERTY CompPreserved
CHECK_DEADLOCK FALSE

SPECIFICATION FairSpec
CONSTANTS
  Procs = {w1}
  SubIds = {s1}
  Prices <- WithYearly
  Length <- MCLength
  Lead = 1
  Tolerance = 1
  CompLength = 1
  MaxClock = 4
  MaxOps = 3
  MaxFaults = 1
  NoSub = NoSub
  NoProc = NoProc
INVARIANT ScheduledDowngradeHeld
PROPERTY DueChangeApplied
CHECK_DEADLOCK FALSE

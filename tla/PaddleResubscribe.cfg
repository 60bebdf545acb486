SPECIFICATION Spec
CONSTANTS
  Procs = {w1}
  SubIds = {s1, s2}
  Prices <- MonthlyPrices
  Length <- MCLength
  Lead = 1
  Tolerance = 1
  CompLength = 1
  MaxClock = 4
  MaxOps = 3
  MaxFaults = 0
  NoSub = NoSub
  NoProc = NoProc
INVARIANT LiveSubscriptionHonoured
CHECK_DEADLOCK FALSE

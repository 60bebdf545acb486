\* Two requests at a time.
CONSTANTS
  Procs = {p1, p2}
  SubIds <- Ids
  Prices <- ThreePrices
  Bought <- BusinessYear
  Customers = {c1, c2}
  NoCustomer = NoCustomer
  MaxOps = 3
  MaxFaults = 1
  MaxEvents = 2
SPECIFICATION Spec
SYMMETRY Symmetry
INVARIANTS SyncedAgrees ScheduleShown
PROPERTIES CompNotCharged CompOutlivesReconcile
CHECK_DEADLOCK FALSE

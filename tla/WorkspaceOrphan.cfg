SPECIFICATION Spec
CONSTANTS
  Accounts = {ann, bob}
  Users = {1, 2, 3, 4}
  Tenants = {t1, t2}
  Invites = {i1}
  Procs = {w1, w2}
  Plans <- MCPlans
  Free = "free"
  Seats <- MCLimit
  OwnLimit <- MCLimit
  JoinLimit <- MCLimit
  MaxOps = 6
  NoAccount = NoAccount
  NoUser = 0
  NoTenant = NoTenant
  NoInvite = NoInvite
SYMMETRY Symmetry
INVARIANT NoOrphanWorkspace
CHECK_DEADLOCK FALSE

\* Two people, two workspaces, three users rows, one request at a time.
CONSTANTS
  People = {op, e1}
  Operator = op
  NoPerson = NoPerson
  Boards = {b1, b2}
  NoBoard = NoBoard
  MaxRows = 3
  AdminProcs = {m1}
  MaxAdminOps = 4
SPECIFICATION AdminSpec
INVARIANT AdminKept
CHECK_DEADLOCK FALSE

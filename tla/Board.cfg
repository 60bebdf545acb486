SPECIFICATION Spec
CONSTANTS
  Procs = {w1, w2}
  Posts = {p1, p2}
  Items = {i1, i2}
  c1 = c1
  c2 = c2
  c3 = c3
  Columns = {c1, c2, c3}
  Statuses <- MCStatuses
  Keys <- MCKeys
  Seed <- MCSeed
  Hide = 12
  Scores = {0, 6, 12}
  MaxOps = 5
  MaxFaults = 1
  NoPost = NoPost
  NoItem = NoItem
  NoColumn = NoColumn
SYMMETRY Symmetry
INVARIANTS TypeOK StageFollows ScoreNeverLost
CHECK_DEADLOCK FALSE

\* Two requests at a time; three sessions, so that two can be open beside a new one.
CONSTANTS
  Procs = {p1, p2}
  Rows = {r1, r2}
  Sids = {s1, s2, s3}
  Links = {k1, k2}
  MaxOps = 4
  MaxFaults = 1
  NoLink = NoLink
SPECIFICATION Spec
SYMMETRY Symmetry
INVARIANTS SingleDevice ResetEndsSessions PasswordShared NewestLinkOnly LinkSingleUse
CHECK_DEADLOCK FALSE

\* Two requests at a time; caps of one and two, a day of two hours; threads of four.
CONSTANTS
  Hashes = {h1, h2}
  NoHash = NoHash
  Guests = {g1, g2}
  VoteProcs = {v1, v2}
  MaxClicks = 4
  MaxComments = 4
  MaxSpam = 1
  Posts = {p1, p2}
  NoPost = NoPost
  TalkProcs = {k1}
  Networks = {n1}
  NoNetwork = NoNetwork
  MaxVoterHour = 1
  MaxTenantHour = 2
  MaxDomainDay = 1
  DayLength = 2
  GuardProcs = {q1, q2}
  Retention = 2
  MaxHours = 3
  MaxWrites = 3
  MaxBlips = 1
  MinAge = 3
  MaxAge = 24
  Ages = {2, 3, 24, 25}
SPECIFICATION Spec
SYMMETRY Symmetry
INVARIANTS RepliesInPlace CapPerWindow MilderIsPublished
PROPERTY VoteAnswerTruthful
CHECK_DEADLOCK FALSE

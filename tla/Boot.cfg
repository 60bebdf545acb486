\* Two workers; three failures, kills or restarts.
CONSTANTS
  Workers = {w1, w2}
  NoWorker = NoWorker
  Scripts <- TwoScripts
  MaxRestarts = 3
  MaxFaults = 3
SPECIFICATION BootSpec
INVARIANTS ServesMigrated StrikesEarned
PROPERTY AllServe
CHECK_DEADLOCK FALSE

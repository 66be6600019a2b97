\* One bootstrap, then up to two recoveries or teardowns of it, two failures.
CONSTANTS
  Runs = {r1, r2, r3}
  LiveRuns = {r1}
  N = 3
  Kust <- KustLast
  None = None
  Foreign = Foreign
  PatchAttempts = 2
  QuietRounds = 1
  OneAtATime = TRUE
  Linger = FALSE
  MaxFaults = 2
  MaxForeign = 0
SPECIFICATION FairSpec
PROPERTIES
  Terminates
  InterruptedIsCleaned
CHECK_DEADLOCK FALSE

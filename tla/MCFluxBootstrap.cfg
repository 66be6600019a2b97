\* Two concurrent executions of the command over one RBAC object and one Kustomization.
CONSTANTS
  Runs = {r1, r2}
  LiveRuns = {r1, r2}
  N = 2
  Kust <- KustLast
  None = None
  Foreign = Foreign
  PatchAttempts = 2
  QuietRounds = 2
  OneAtATime = FALSE
  Linger = TRUE
  MaxFaults = 1
  MaxForeign = 1
SPECIFICATION Spec
SYMMETRY RunSymmetry
INVARIANTS
  TypeOK
  OnlyOwnDeleted
  Reclaimable
  KustomizationsFirst
  VerdictsHold
PROPERTIES
  PostOnlyWhileCreating
CHECK_DEADLOCK FALSE

\* Two failures of any kind, two passes of Flux, one recovery.
CONSTANTS
  None = None
  Order <- FourNames
  Facets = {"cluster", "secrets", "preserved"}
  Kinds = {"read", "answer", "status", "signal", "crash", "commit", "drift",
           "flux", "foreign"}
  Attempts = 2
  MaxFaults = 2
  MaxPasses = 2
  MaxRescues = 1
SPECIFICATION FairSpec
INVARIANTS
  IsolatedWhileRunning
  ReceiptsAreTrue
PROPERTIES
  Terminates
  DeletesInOrder
CHECK_DEADLOCK FALSE

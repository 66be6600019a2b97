\* Two RBAC objects and the Kustomization, two failures, one write by others.
CONSTANTS
  N = 3
  None = None
  Kinds = {"crash", "signal", "read", "answer", "commit"}
  MaxFaults = 2
  MaxForeign = 1
SPECIFICATION FairSpec
INVARIANTS
  TypeOK
  FilesAreTrue
PROPERTIES
  RollbackInOrder
  ReceiptIsFinal
  Settles
CHECK_DEADLOCK FALSE

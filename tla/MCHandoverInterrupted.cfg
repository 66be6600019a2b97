\* One crash, nobody else writes, every request and commit succeeds.
CONSTANTS
  N = 2
  None = None
  Kinds = {"crash"}
  MaxFaults = 1
  MaxForeign = 0
SPECIFICATION Spec
INVARIANT IncompleteIsUnprovable
CHECK_DEADLOCK FALSE

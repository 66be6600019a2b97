SPECIFICATION Spec
CONSTANTS
  CreateOrder <- SecretOrder
  Absent = Absent
  Worlds <- AllWorlds
  MaxOperations = 2
  MaxLaunches = 4
  MaxTroubles = 3
INVARIANTS
  EvidenceIsTrue
  IssuerIsTrue
PROPERTY SecretsAreKept
CHECK_DEADLOCK FALSE

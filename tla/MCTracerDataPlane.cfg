\* Two materialisations and two activations, five processes, two faults of any kind.
SPECIFICATION PlaneSpec
CONSTANTS
  SecretOrder <- MCSecretOrder
  Workloads <- MCWorkloads
  Tenancy <- MCTenancy
  Kustomization = "kustomization"
  MaxOperations = 2
  MaxActivations = 2
  MaxLaunches = 5
  MaxFaults = 2
  Absent = Absent
INVARIANTS LeftIsRecoverable SecretsUnderWorkloads
PROPERTIES DeletesAreLicensed ReceiptsAreTrue
CHECK_DEADLOCK FALSE

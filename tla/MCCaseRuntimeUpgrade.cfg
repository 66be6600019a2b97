\* Two upgrades, to another release and back, a Case event, one fault.
SPECIFICATION Spec
CONSTANTS
  None = None
  Releases = {r1, r2}
  First = r1
  Workers = {w1, w2}
  MaxEvents = 1
  MaxUpgrades = 2
  MaxFaults = 1
INVARIANTS NothingLost UpgradesStand
SYMMETRY Symmetric
CHECK_DEADLOCK FALSE

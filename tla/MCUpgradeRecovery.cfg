\* Two rival plans for one source, no Case event, one fault.
SPECIFICATION FairSpec
CONSTANTS
  None = None
  Releases = {r1, r2, r3}
  First = r1
  Workers = {w1, w2}
  MaxEvents = 0
  MaxUpgrades = 1
  MaxFaults = 1
INVARIANT TypeOK
PROPERTY RootReturns
CHECK_DEADLOCK FALSE

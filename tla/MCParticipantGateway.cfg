\* Two sessions, two wallets, six loads of rival calls.
SPECIFICATION Spec
CONSTANTS
  None = None
  a = a
  b = b
  Wallets = {a, b}
  Sessions = {s1, s2}
  Limits <- MCLimits
  Loads <- MCLoads
INVARIANTS OneEventPerPost NoWaitCycle
PROPERTIES OneAtATime RetriesAreAnswered
SYMMETRY Symmetric
CHECK_DEADLOCK FALSE

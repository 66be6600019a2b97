\* One transport, a promotion or a reset: at most three launches, two lost or
\* failing requests, one drift, and one signal, timeout or wrapper failure.
CONSTANTS
 None=None
 Modes={"promotion","reset"}
 PromotionFacets={"inputs","deployment","backend"}
 ResetFacets={"runtime"}
 MaxFaults=2
 MaxDrift=1
 MaxRuns=3
 MaxLaunches=3
 MaxTroubles=1
SPECIFICATION Spec
INVARIANTS ReceiptsAreTrue LeftIsJournaled ResetWhileQuiet SuccessIsAgreed
PROPERTIES PromotionIsOneChange
CHECK_DEADLOCK FALSE

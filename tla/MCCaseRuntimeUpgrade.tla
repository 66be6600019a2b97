------------------------ MODULE MCCaseRuntimeUpgrade ------------------------
\* Two workers that may run at once.  MCCaseRuntimeUpgrade.cfg: two
\* releases and two upgrades, so that a Case goes to a release and back and
\* the first plan meets its own release again.  MCUpgradeRecovery.cfg:
\* three releases and one upgrade, so that two plans for the same source
\* are rivals.
EXTENDS CaseRuntimeUpgrade, TLC

Symmetric == Permutations(Workers)
=============================================================================

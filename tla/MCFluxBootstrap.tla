-------------------------- MODULE MCFluxBootstrap --------------------------
\* Instances of FluxBootstrap for TLC.
EXTENDS FluxBootstrap, TLC

KustLast == {N}
RunSymmetry == Permutations(Runs)

=============================================================================

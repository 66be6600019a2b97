----------------------------- MODULE MCLiveChain -----------------------------
\* An instance of LiveChain: the two Secrets in the order of their creation.
EXTENDS LiveChain

SecretOrder == <<"config", "runtime">>
=============================================================================

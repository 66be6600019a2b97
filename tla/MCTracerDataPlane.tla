-------------------------- MODULE MCTracerDataPlane --------------------------
\* Two Secrets, one workload, one object of the tenant, the Kustomization.
EXTENDS TracerDataPlane

MCSecretOrder == <<"dataPlane", "webFeed">>
MCWorkloads == <<"deployment">>
MCTenancy == <<"roleBinding">>
=============================================================================

------------------------ MODULE MCGatewayActivation ------------------------
\* An instance of GatewayActivation for TLC.
EXTENDS GatewayActivation

\* The ServiceAccount and the workbench NetworkPolicy, created before the
\* Deployment and deleted with the rest, are left out.
FourNames == <<Isolation, Service, Deployment, Ingress>>

=============================================================================

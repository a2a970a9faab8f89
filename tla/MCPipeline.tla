----------------------------- MODULE MCPipeline -----------------------------
EXTENDS Pipeline, TLC

OnlyKubernetes == {{"k8s"}}

AnyMonitors == {{"k8s"}, {"k8s", "otel"}}

=============================================================================

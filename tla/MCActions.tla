------------------------------ MODULE MCActions ------------------------------
EXTENDS Actions, TLC

Plan(resource, actions) ==
  [resource |-> resource, actions |-> actions, increment |-> 2, percent |-> 25, maxValue |-> 3]

\* A pod, a Deployment, a StatefulSet that is scaled down, and something else with an
\* action that has no handler.
Small ==
  {Plan("Pod", <<"adjustMemory", "restartPod">>),
   Plan("Pod", <<"restartPod", "scaleUp">>),
   Plan("Deployment", <<"scaleUp", "rollbackToPrevious">>),
   [Plan("StatefulSet", <<"scaleUp", "adjustMemory">>) EXCEPT !.increment = -2],
   Plan("Other", <<"notify", "scaleDown">>)}

ByOthers == {[replicas |-> 2, limit |-> 40]}

Symmetry == Permutations(Remediation)

=============================================================================

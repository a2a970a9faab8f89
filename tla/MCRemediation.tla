---------------------------- MODULE MCRemediation ----------------------------
EXTENDS Remediation, TLC

CONSTANTS k1, k2, k3

\* One policy covers k1 and k2; another, which covers k3 too, is paused.
OnePaused == {[paused |-> FALSE, targets |-> {k1, k2}], [paused |-> TRUE, targets |-> {k1, k3}]}

=============================================================================

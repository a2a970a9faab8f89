----------------------------- MODULE MCDetection -----------------------------
EXTENDS Detection, TLC

TwoInOne == [count |-> 2, window |-> 1]

\* A reload may change the threshold, or drop the scenario.
Changing == {TwoInOne, [count |-> 3, window |-> 2]}

=============================================================================

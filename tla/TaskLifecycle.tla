---------------------------- MODULE TaskLifecycle ----------------------------
(***************************************************************************)
(* What the task queue promises, without resource versions, watches,       *)
(* goroutines, clocks or Janitors: the life of a RemediationTask.  A task  *)
(* is claimed once; only that claim starts actions, each at most once; the *)
(* outcome written at the end is that of the claim.  A claim can be lost   *)
(* at any moment, and then nobody takes the task over.                     *)
(***************************************************************************)
EXTENDS Naturals

CONSTANTS Pod, Task, NoPod, ActionCount

VARIABLES
  phase,      \* of each task
  claimedBy,  \* the pod that claimed each task
  held,       \* tasks whose claim is alive
  ran         \* actions started for each task

lvars == <<phase, claimedBy, held, ran>>

Final == {"Completed", "Failed", "Expired"}

Init ==
  /\ phase = [t \in Task |-> "Absent"]
  /\ claimedBy = [t \in Task |-> NoPod]
  /\ held = {}
  /\ ran = [t \in Task |-> 0]

Create(t) ==
  /\ phase[t] = "Absent"
  /\ phase' = [phase EXCEPT ![t] = "Pending"]
  /\ UNCHANGED <<claimedBy, held, ran>>

\* The claimant may never learn that it owns the task.
Claim(t, p) ==
  /\ phase[t] = "Pending"
  /\ phase' = [phase EXCEPT ![t] = "Running"]
  /\ claimedBy' = [claimedBy EXCEPT ![t] = p]
  /\ held' \in {held, held \cup {t}}
  /\ UNCHANGED ran

Perform(t) ==
  /\ t \in held
  /\ ran[t] < ActionCount
  /\ ran' = [ran EXCEPT ![t] = @ + 1]
  /\ UNCHANGED <<phase, claimedBy, held>>

\* The outcome may come after the task was declared Expired.
Finish(t, outcome) ==
  /\ t \in held
  /\ phase[t] \in {"Running", "Expired"}
  /\ outcome = "Completed" => ran[t] = ActionCount
  /\ outcome = "Failed" => ran[t] > 0
  /\ phase' = [phase EXCEPT ![t] = outcome]
  /\ held' = held \ {t}
  /\ UNCHANGED <<claimedBy, ran>>

\* A crash takes all the claims of a pod with it.
Lose(S) ==
  /\ held' = held \ S
  /\ UNCHANGED <<phase, claimedBy, ran>>

Expire(t) ==
  /\ phase[t] = "Running"
  /\ phase' = [phase EXCEPT ![t] = "Expired"]
  /\ UNCHANGED <<claimedBy, held, ran>>

Delete(t) ==
  /\ phase[t] \in Final
  /\ phase' = [phase EXCEPT ![t] = "Deleted"]
  /\ UNCHANGED <<claimedBy, held, ran>>

Next ==
  \/ \E t \in Task : Create(t) \/ Perform(t) \/ Expire(t) \/ Delete(t)
  \/ \E t \in Task, p \in Pod : Claim(t, p)
  \/ \E t \in Task, outcome \in {"Completed", "Failed"} : Finish(t, outcome)
  \/ \E S \in SUBSET held : Lose(S)

Spec == Init /\ [][Next]_lvars

=============================================================================

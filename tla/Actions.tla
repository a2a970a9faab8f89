------------------------------- MODULE Actions -------------------------------
(***************************************************************************)
(* What a remediation does to the cluster: the controller that executes    *)
(* the actions of a detection result itself (standalone) or hands them to  *)
(* a Worker as a RemediationTask (leader), the owner resolver, the action  *)
(* executor and its handlers (internal/remediation, internal/taskqueue,    *)
(* internal/action).  Remediations run side by side, users and controllers *)
(* change the same objects between two calls of a handler, and calls fail, *)
(* conflict, or take effect although their reply is lost.                  *)
(***************************************************************************)
EXTENDS Integers, Sequences, SequencesExt

CONSTANTS
  Remediation,   \* remediations under way at the same time
  Plans,         \* what they may be: [resource, actions, increment, percent, maxValue]
  maxRetries,    \* attempts of AdjustResourceHandler
  MaxInt32,      \* the largest replica count an int32 holds
  DefaultLimit,  \* what applyIncrease takes for a container without a limit
  Unit,          \* a limit is counted in thousandths: Quantity.Value rounds up to units
  NoMax,         \* maxValue is not given
  InitialLimit,  \* the limit of the workloads at first
  Edits,         \* replicas and limits that others set
  MaxFaults,     \* bound: calls that fail, conflict, or whose reply is lost
  MaxEdits       \* bound: changes of the objects by others

\* DaemonSet stands for Job and CronJob too.
workloadKinds == {"Deployment", "StatefulSet", "DaemonSet"}

Kind == workloadKinds \cup {"Pod", "ReplicaSet", "Other"}

\* A result or task without actions is ignored, or refused by the API (MinItems).
ASSUME ActionsAssumption ==
  /\ maxRetries \in Nat \ {0} /\ MaxInt32 \in Nat \ {0} /\ Unit \in Nat \ {0} /\ DefaultLimit \in Nat
  /\ MaxFaults \in Nat /\ MaxEdits \in Nat
  /\ InitialLimit \in Nat /\ Edits \subseteq [replicas : 0..MaxInt32, limit : Nat]
  /\ Plans \subseteq [resource : Kind, actions : Seq(STRING) \ {<<>>},
                      increment : (-MaxInt32 - 1)..MaxInt32,
                      percent : Nat, maxValue : Nat \cup {NoMax}]

VARIABLES
  mode,        \* "standalone" or "leader": is there a task publisher
  dryRun,      \* config Remediation.DryRun
  owner,       \* the kinds the pod and its ReplicaSet are owned by
  pod,         \* the detected pod exists
  workload,    \* the Deployment and the StatefulSet: resourceVersion, replicas, limit
  replicaSets, \* ReplicaSets of the Deployment in the order the API lists them
  job,         \* the remediations
  faults, edits,
  effects      \* history: changes an action of a remediation made to the cluster

avars == <<mode, dryRun, owner, pod, workload, replicaSets, job, faults, edits, effects>>

config == <<mode, dryRun, owner>>

cluster == <<pod, workload, replicaSets>>

-----------------------------------------------------------------------------

Scalable == {"Deployment", "StatefulSet"}

\* The handlers that registerDefaultHandlers registers, with the kinds they accept.
handlers ==
  [scaleUp |-> Scalable, restartPod |-> {"Pod"}, rollbackToPrevious |-> {"Deployment"},
   adjustMemory |-> Scalable, notify |-> Kind]

\* A pod with an owner of an unknown kind is as good as one without.
Owners ==
  {[pod |-> k, rs |-> "none"] : k \in {"none", "StatefulSet", "DaemonSet", "ReplicaSet"}}
    \cup {[pod |-> "ReplicaSet", rs |-> "Deployment"]}

\* What a handler read before it writes.
Seen == [version : Nat, replicas : Nat, limit : Nat, list : Seq([id : Nat, revision : Nat])]

NotSeen == [version |-> 0, replicas |-> 0, limit |-> 0, list |-> <<>>]

Job ==
  [pc : {"new", "published", "exec", "write", "fallback", "done"}, plan : Plans, target : Kind, i : Nat,
   attempt : 0..(maxRetries - 1), seen : Seen, done : Nat,
   status : {"none", "succeeded", "failed", "dryRun"}]

\* attempt counts the conflicts of an adjustment; done counts completed actions.
NewJob(p) ==
  [pc |-> "new", plan |-> p, target |-> p.resource, i |-> 1, attempt |-> 0, seen |-> NotSeen,
   done |-> 0, status |-> "none"]

\* The Deployment has had one or two revisions; an owner matters if a pod is detected.
Init ==
  /\ mode \in {"standalone", "leader"}
  /\ dryRun \in BOOLEAN
  /\ owner \in Owners
  /\ pod = TRUE
  /\ workload = [k \in Scalable |-> [version |-> 0, replicas |-> 1, limit |-> InitialLimit]]
  /\ replicaSets \in {<<[id |-> 1, revision |-> 1]>>,
                      <<[id |-> 1, revision |-> 1], [id |-> 2, revision |-> 2]>>}
  /\ job \in [Remediation -> {NewJob(p) : p \in Plans}]
  /\ owner.pod # "none" => \E r \in Remediation : job[r].plan.resource = "Pod"
  /\ faults = 0
  /\ edits = 0
  /\ effects = [r \in Remediation |-> [i \in 1..Len(job[r].plan.actions) |-> 0]]

-----------------------------------------------------------------------------
(* The owner resolver.                                                     *)

\* Where the references of the pod lead: one level, two by way of a ReplicaSet.
resolvePodOwner ==
  CASE owner.pod \in workloadKinds -> owner.pod
    [] owner.pod = "ReplicaSet" /\ owner.rs = "Deployment" -> "Deployment"
    [] owner.pod = "ReplicaSet" /\ owner.rs # "Deployment" -> "ReplicaSet"
    [] OTHER -> "Pod"

\* Only pods are resolved.
ResolveWorkloadOwner(kind) == IF kind = "Pod" THEN resolvePodOwner ELSE kind

\* Resolving fails when the pod is gone, or when a read fails.
Resolution(kind, ok) ==
  LET readable == kind = "Pod" => pod
  IN /\ ok => readable
     /\ ~ok => kind = "Pod" /\ (readable => faults < MaxFaults)
     /\ faults' = IF ~ok /\ readable THEN faults + 1 ELSE faults

-----------------------------------------------------------------------------
(* The controller and the Worker around Execute.                           *)

Action(r) == job[r].plan.actions[job[r].i]

Stopped(j) == [j EXCEPT !.pc = "done", !.status = "failed"]

\* Mutant: a failed action does not stop the sequence.
Carried(j) ==
  IF j.i = Len(j.plan.actions) THEN Stopped(j)
  ELSE [j EXCEPT !.pc = "exec", !.i = @ + 1, !.attempt = 0, !.seen = NotSeen]

\* Mutant: every error is tried again, not only a conflict.
AlwaysRetried(j) ==
  IF j.attempt + 1 < maxRetries THEN [j EXCEPT !.pc = "exec", !.attempt = @ + 1, !.seen = NotSeen]
  ELSE Stopped(j)

\* Execute returned an error.  A failure stops the sequence, but the controller
\* tries the owner of the detected resource first; the Worker gives up at once.
Failed(j) ==
  IF mode = "standalone" /\ j.target = j.plan.resource
  THEN [j EXCEPT !.pc = "fallback", !.attempt = 0, !.seen = NotSeen]
  ELSE Stopped(j)

\* The next action: the controller starts again from the detected resource, the
\* Worker keeps the target of the task.
Completed(j) ==
  IF j.i = Len(j.plan.actions)
  THEN [j EXCEPT !.pc = "done", !.done = @ + 1, !.status = "succeeded", !.seen = NotSeen]
  ELSE [j EXCEPT !.pc = "exec", !.done = @ + 1, !.i = @ + 1, !.attempt = 0, !.seen = NotSeen,
                 !.target = IF mode = "standalone" THEN j.plan.resource ELSE @]

\* executeAction in a dry run reports every action as if it had been executed.
Started(j) == IF dryRun THEN [j EXCEPT !.pc = "done", !.status = "dryRun"] ELSE [j EXCEPT !.pc = "exec"]

\* A standalone operator goes through the actions itself.
ExecuteActions(r) ==
  /\ mode = "standalone"
  /\ job[r].pc = "new"
  /\ job' = [job EXCEPT ![r] = Started(@)]
  /\ UNCHANGED <<config, cluster, faults, edits, effects>>

\* The leader resolves the owner, if it can, and publishes the task, dry run or not.
PublishTask(r, ok) ==
  /\ mode = "leader"
  /\ job[r].pc = "new"
  /\ Resolution(job[r].target, ok)
  /\ job' = [job EXCEPT ![r].pc = "published",
                        ![r].target = IF ok THEN ResolveWorkloadOwner(@) ELSE @]
  /\ UNCHANGED <<config, cluster, edits, effects>>

PublishFails(r) ==
  /\ mode = "leader"
  /\ job[r].pc = "new"
  /\ faults < MaxFaults
  /\ faults' = faults + 1
  /\ job' = [job EXCEPT ![r] = Stopped(@)]
  /\ UNCHANGED <<config, cluster, edits, effects>>

\* A Worker has claimed the task (TaskQueue says when) and goes through its actions.
ClaimTask(r) ==
  /\ job[r].pc = "published"
  /\ job' = [job EXCEPT ![r].pc = "exec"]
  /\ UNCHANGED <<config, cluster, faults, edits, effects>>

\* executeAction after a failure: once more with the owner, if it is another resource.
RetryWithOwner(r, ok) ==
  LET resolved == ResolveWorkloadOwner(job[r].target)
  IN /\ job[r].pc = "fallback"
     /\ Resolution(job[r].target, ok)
     /\ job' = [job EXCEPT ![r] = IF ok /\ resolved # @.target
                                  THEN [@ EXCEPT !.pc = "exec", !.target = resolved]
                                  ELSE Stopped(@)]
     /\ UNCHANGED <<config, cluster, edits, effects>>

-----------------------------------------------------------------------------
(* The executor and the handlers, one API call at a time.                  *)

\* No handler, or its Validate refuses the kind.
Accepts(r) == Action(r) \in DOMAIN handlers /\ job[r].target \in handlers[Action(r)]

Reject(r) ==
  /\ job[r].pc = "exec"
  /\ ~Accepts(r)
  /\ job' = [job EXCEPT ![r] = Failed(@)]
  /\ UNCHANGED <<config, cluster, faults, edits, effects>>

Runs(r, type) == job[r].pc = "exec" /\ Action(r) = type /\ Accepts(r)

Writes(r, type) == job[r].pc = "write" /\ Action(r) = type

\* A call fails and changes nothing.
CallFails(r) ==
  /\ job[r].pc \in {"exec", "write"}
  /\ Accepts(r) /\ Action(r) # "notify"
  /\ faults < MaxFaults
  /\ faults' = faults + 1
  /\ job' = [job EXCEPT ![r] = Failed(@)]
  /\ UNCHANGED <<config, cluster, edits, effects>>

\* What the handler sees of a call that took effect: success, or an error because
\* the reply was lost.
Replied(r, lost) ==
  /\ lost => faults < MaxFaults
  /\ faults' = IF lost THEN faults + 1 ELSE faults
  /\ job' = [job EXCEPT ![r] = IF lost THEN Failed(@) ELSE Completed(@)]
  /\ effects' = [effects EXCEPT ![r][job[r].i] = @ + 1]

\* NotifyHandler writes a log line.
Notify(r) ==
  /\ Runs(r, "notify")
  /\ job' = [job EXCEPT ![r] = Completed(@)]
  /\ UNCHANGED <<config, cluster, faults, edits, effects>>

\* RestartPodHandler deletes the pod.
RestartPod(r, lost) ==
  /\ Runs(r, "restartPod")
  /\ pod
  /\ pod' = FALSE
  /\ Replied(r, lost)
  /\ UNCHANGED <<config, workload, replicaSets, edits>>

\* The pod is gone; or the object to adjust, which is read as a Deployment, is none.
NotFound(r) ==
  /\ \/ Runs(r, "restartPod") /\ ~pod
     \/ Runs(r, "adjustMemory") /\ job[r].target # "Deployment"
  /\ job' = [job EXCEPT ![r] = Failed(@)]
  /\ UNCHANGED <<config, cluster, faults, edits, effects>>

\* ScaleHandler reads the scale, to write it back with the version it read.
GetScale(r) ==
  /\ Runs(r, "scaleUp")
  /\ job' = [job EXCEPT ![r].pc = "write",
                        ![r].seen = [NotSeen EXCEPT !.version = workload[job[r].target].version,
                                                    !.replicas = workload[job[r].target].replicas]]
  /\ UNCHANGED <<config, cluster, faults, edits, effects>>

Int32(n) == IF n > MaxInt32 THEN n - 2 * (MaxInt32 + 1) ELSE n

\* Mutant: a sum that wraps around is not clamped.
Wrapped(n, increment) == Int32(n + increment)

Scaled(n, increment) == LET sum == Int32(n + increment) IN IF sum < 0 THEN 0 ELSE sum

\* Mutant: the scale is sent without the version it was read at.
SentAnyway(r) == TRUE

SameVersion(r) == workload[job[r].target].version = job[r].seen.version

UpdateScale(r, lost) ==
  /\ Writes(r, "scaleUp")
  /\ SameVersion(r)
  /\ workload' = [workload EXCEPT
       ![job[r].target].version = @ + 1,
       ![job[r].target].replicas = Scaled(job[r].seen.replicas, job[r].plan.increment)]
  /\ Replied(r, lost)
  /\ UNCHANGED <<config, pod, replicaSets, edits>>

\* A conflict is not retried.
ScaleConflict(r) ==
  /\ Writes(r, "scaleUp")
  /\ ~SameVersion(r)
  /\ job' = [job EXCEPT ![r] = Failed(@)]
  /\ UNCHANGED <<config, cluster, faults, edits, effects>>

-----------------------------------------------------------------------------
(* AdjustResourceHandler.                                                  *)

RoundUp(n, d) == (n + d - 1) \div d

\* Mutant: whole units are rounded down.
RoundedDown(current, percent, maxValue) ==
  LET value == current \div Unit IN Unit * (value + (value * percent) \div 100)

\* Limits are thousandths here, and whole units in the computation.
applyIncrease(current, percent, maxValue) ==
  LET value == IF current = 0 THEN DefaultLimit ELSE RoundUp(current, Unit)
      increased == value + RoundUp(value * percent, 100)
  IN Unit * (IF maxValue # NoMax /\ increased > maxValue THEN maxValue ELSE increased)

GetDeployment(r) ==
  /\ Runs(r, "adjustMemory")
  /\ job[r].target = "Deployment"
  /\ job' = [job EXCEPT ![r].pc = "write",
                        ![r].seen = [NotSeen EXCEPT !.version = workload["Deployment"].version,
                                                    !.limit = workload["Deployment"].limit]]
  /\ UNCHANGED <<config, cluster, faults, edits, effects>>

\* The strategic merge patch carries the limits and no version.
PatchLimits(r, lost) ==
  /\ Writes(r, "adjustMemory")
  /\ workload' = [workload EXCEPT
       !["Deployment"].version = @ + 1,
       !["Deployment"].limit = applyIncrease(job[r].seen.limit, job[r].plan.percent, job[r].plan.maxValue)]
  /\ Replied(r, lost)
  /\ UNCHANGED <<config, pod, replicaSets, edits>>

\* Mutant: there is no limit to the attempts.
Unlimited(j) == [j EXCEPT !.pc = "exec", !.seen = NotSeen]

\* After a conflict the Deployment is read again, up to maxRetries attempts.
Retried(j) ==
  IF j.attempt + 1 < maxRetries THEN [j EXCEPT !.pc = "exec", !.attempt = @ + 1, !.seen = NotSeen]
  ELSE Failed(j)

PatchConflict(r) ==
  /\ Writes(r, "adjustMemory")
  /\ job' = [job EXCEPT ![r] = Retried(@)]
  /\ UNCHANGED <<config, cluster, faults, edits, effects>>

-----------------------------------------------------------------------------
(* RollbackHandler.                                                        *)

\* One turn of the loop that looks for the second highest revision.
Turn(acc, rs) ==
  LET top == IF rs.revision > acc.max
             THEN [max |-> rs.revision, second |-> acc.max, prev |-> <<>>] ELSE acc
  IN IF rs.revision = top.second /\ rs.revision > 0 THEN [top EXCEPT !.prev = <<rs>>] ELSE top

\* Mutant: the fallback takes the first ReplicaSet without a look at its revision.
FirstListed(list) == list[1]

\* The ReplicaSet to go back to: the one the loop kept, else the first of the list,
\* or the second if the first is the current one.
PreviousRevision(list) ==
  LET found == FoldLeft(Turn, [max |-> 0, second |-> 0, prev |-> <<>>], list)
  IN IF found.prev # <<>> THEN found.prev[1]
     ELSE IF list[1].revision = found.max THEN list[2] ELSE list[1]

\* Get of the Deployment and List of its ReplicaSets: at least two, or it fails.
ListReplicaSets(r) ==
  /\ Runs(r, "rollbackToPrevious")
  /\ job' = [job EXCEPT ![r] = IF Len(replicaSets) < 2 THEN Failed(@)
                               ELSE [@ EXCEPT !.pc = "write",
                                              !.seen = [NotSeen EXCEPT !.list = replicaSets]]]
  /\ UNCHANGED <<config, cluster, faults, edits, effects>>

Revisions(list) == {list[i].revision : i \in 1..Len(list)}

Newest(list) == CHOOSE n \in Revisions(list) : \A m \in Revisions(list) : m <= n

\* The deployment controller: the ReplicaSet of the template gets the next revision,
\* unless it is the current one already.
Renumbered(id) ==
  [i \in 1..Len(replicaSets) |->
     IF replicaSets[i].id = id /\ replicaSets[i].revision # Newest(replicaSets)
     THEN [id |-> id, revision |-> Newest(replicaSets) + 1] ELSE replicaSets[i]]

\* The merge patch sets the template and carries no version.
PatchTemplate(r, lost) ==
  /\ Writes(r, "rollbackToPrevious")
  /\ workload' = [workload EXCEPT !["Deployment"].version = @ + 1]
  /\ replicaSets' = Renumbered(PreviousRevision(job[r].seen.list).id)
  /\ Replied(r, lost)
  /\ UNCHANGED <<config, pod, edits>>

-----------------------------------------------------------------------------
(* Others change the same objects.                                         *)

Edit ==
  /\ edits < MaxEdits
  /\ edits' = edits + 1
  /\ UNCHANGED <<config, job, faults, effects>>

\* A user or an autoscaler sets the replicas, a user the limit.
EditWorkload(k, replicas, limit) ==
  /\ Edit
  /\ workload' = [workload EXCEPT ![k] = [version |-> @.version + 1, replicas |-> replicas, limit |-> limit]]
  /\ UNCHANGED <<pod, replicaSets>>

\* A rollout adds a ReplicaSet, anywhere in the list.
Rollout(first) ==
  LET rs == [id |-> Len(replicaSets) + 1, revision |-> Newest(replicaSets) + 1]
  IN /\ Edit
     /\ replicaSets' = IF first THEN <<rs>> \o replicaSets ELSE Append(replicaSets, rs)
     /\ workload' = [workload EXCEPT !["Deployment"].version = @ + 1]
     /\ UNCHANGED pod

\* A pod that is deleted comes back under its name if a StatefulSet owns it.
PodChange ==
  /\ Edit
  /\ pod' = (~pod /\ owner.pod = "StatefulSet")
  /\ pod' # pod
  /\ UNCHANGED <<workload, replicaSets>>

-----------------------------------------------------------------------------

Step(r) ==
  \/ ExecuteActions(r) \/ PublishFails(r)
  \/ \E ok \in BOOLEAN : PublishTask(r, ok) \/ RetryWithOwner(r, ok)
  \/ Reject(r) \/ CallFails(r) \/ Notify(r) \/ NotFound(r)
  \/ GetScale(r) \/ ScaleConflict(r) \/ GetDeployment(r) \/ PatchConflict(r) \/ ListReplicaSets(r)
  \/ \E lost \in BOOLEAN :
       RestartPod(r, lost) \/ UpdateScale(r, lost) \/ PatchLimits(r, lost) \/ PatchTemplate(r, lost)

Next ==
  \/ \E r \in Remediation : Step(r) \/ ClaimTask(r)
  \/ \E k \in Scalable : \E e \in Edits : EditWorkload(k, e.replicas, e.limit)
  \/ \E first \in BOOLEAN : Rollout(first)
  \/ PodChange

\* Every goroutine that executes actions goes on: its calls have a deadline.  That a
\* Worker claims the task is not certain.
Spec == Init /\ [][Next]_avars /\ \A r \in Remediation : WF_avars(Step(r))

-----------------------------------------------------------------------------
(* Properties.                                                             *)

\* Type correctness of the cluster's objects and of what the handlers carry.
TypeOK ==
  /\ mode \in {"standalone", "leader"} /\ dryRun \in BOOLEAN /\ owner \in Owners
  /\ pod \in BOOLEAN
  /\ workload \in [Scalable -> [version : Nat, replicas : 0..MaxInt32, limit : Nat]]
  /\ replicaSets \in Seq([id : Nat, revision : Nat])
  /\ job \in [Remediation -> Job] /\ effects \in [Remediation -> Seq(Nat)]
  /\ \A r \in Remediation :
       /\ job[r].i \in 1..Len(job[r].plan.actions) /\ job[r].done \in 0..job[r].i
       /\ Len(effects[r]) = Len(job[r].plan.actions)
  /\ faults \in 0..MaxFaults /\ edits \in 0..MaxEdits

\* An action changes the cluster at most once, although a handler retries after a
\* conflict, the controller retries with the owner, and replies get lost.
EffectAtMostOnce == \A r \in Remediation : \A i \in 1..Len(effects[r]) : effects[r][i] <= 1

\* The outcome is true: an action that counts as completed did change the cluster
\* (a notification does not), and nothing behind a failed action did.
OutcomeIsTrue ==
  \A r \in Remediation : \A i \in 1..Len(job[r].plan.actions) :
    /\ i <= job[r].done /\ job[r].plan.actions[i] # "notify" => effects[r][i] = 1
    /\ i > job[r].done + 1 => effects[r][i] = 0

\* No scaling is lost and none overwrites another's: a scale that succeeds adds its
\* increment to the replicas there are at that moment, whoever changed them since it
\* read them.  A sum below zero, or one that wraps around an int32, leaves none.
ScaleAdds ==
  [][\A r \in Remediation : \A k \in Scalable :
       Writes(r, "scaleUp") /\ job[r].target = k /\ effects'[r] # effects[r] =>
         LET sum == workload[k].replicas + job[r].plan.increment
         IN workload'[k].replicas = IF sum \in 0..MaxInt32 THEN sum ELSE 0]_avars

\* An adjustment does not lower a limit, except down to the cap, or when the limit
\* was changed by others after the handler read it (the patch carries no version).
LimitNotLowered ==
  [][\A r \in Remediation :
       Writes(r, "adjustMemory") /\ effects'[r] # effects[r] =>
         \/ workload'["Deployment"].limit >= workload["Deployment"].limit
         \/ job[r].plan.maxValue # NoMax /\ workload'["Deployment"].limit = Unit * job[r].plan.maxValue
         \/ workload["Deployment"].version # job[r].seen.version]_avars

\* A rollback never goes to the newest revision of the list it works on, and with two
\* ReplicaSets it goes to the other one.  With more it may go to any older one: see
\* RollbackToPrevious.
RollbackGoesBack ==
  \A r \in Remediation :
    Writes(r, "rollbackToPrevious") =>
      PreviousRevision(job[r].seen.list).revision # Newest(job[r].seen.list)

\* Every remediation comes to an end, or waits as a task for a Worker, and one that a
\* Worker has claimed ends: conflicts and fallbacks are limited.
Terminates ==
  \A r \in Remediation :
    /\ <>(job[r].pc \in {"published", "done"})
    /\ job[r].pc \in {"exec", "write", "fallback"} ~> job[r].pc = "done"

-----------------------------------------------------------------------------
(* The inductive invariant.                                                *)

\* How far a remediation is, and what it has done: every earlier action has been
\* completed, no later one begun.  If the current one has changed the cluster, the
\* reply was lost, and nothing can run it again: only the owner of a pod is tried
\* after a failure, and no handler takes an owner where it took the pod.
ProgressTrue(j, e) ==
  LET a == j.plan.actions[j.i]
  IN /\ j.done = IF j.status = "succeeded" THEN j.i ELSE j.i - 1
     /\ j.status # "none" => j.pc = "done"
     /\ \A m \in 1..Len(j.plan.actions) :
          /\ e[m] <= 1
          /\ m <= j.done /\ j.plan.actions[m] # "notify" => e[m] = 1
          /\ m > j.i => e[m] = 0
     /\ e[j.i] # 0 /\ j.status # "succeeded" =>
          /\ j.pc \in {"exec", "fallback", "done"}
          /\ j.pc = "exec" => a = "restartPod" /\ j.target # "Pod"
          /\ j.pc = "fallback" /\ j.target = "Pod" => a = "restartPod"

\* ReplicaSets differ in name and revision, and one of them is the newest.
Numbered(list) ==
  /\ \A i \in 1..Len(list) : list[i].id \in 1..Len(list)
  /\ \A i, j \in 1..Len(list) : i # j => list[i].id # list[j].id /\ list[i].revision # list[j].revision
  /\ \E i \in 1..Len(list) : \A j \in 1..Len(list) : list[j].revision <= list[i].revision

\* The handler of a write accepts the target, and what it read is still so if the
\* version is the same.
SeenTrue(j) ==
  LET a == j.plan.actions[j.i]
  IN j.pc = "write" =>
       /\ a \in DOMAIN handlers /\ j.target \in handlers[a]
       /\ a = "scaleUp" =>
            /\ j.seen.version <= workload[j.target].version
            /\ workload[j.target].version = j.seen.version => workload[j.target].replicas = j.seen.replicas
       /\ a = "adjustMemory" =>
            /\ j.seen.version <= workload["Deployment"].version
            /\ workload["Deployment"].version = j.seen.version => workload["Deployment"].limit = j.seen.limit
       /\ a = "rollbackToPrevious" => Len(j.seen.list) >= 2 /\ Numbered(j.seen.list)

\* Remediations are where their effects say, and know what they read.
IInv ==
  /\ TypeOK
  /\ Numbered(replicaSets)
  /\ \A r \in Remediation : ProgressTrue(job[r], effects[r]) /\ SeenTrue(job[r])

-----------------------------------------------------------------------------
(* What the repository says and the code does not do.                      *)

\* "When any active policy has dry-run enabled, the operator logs actions but does
\* not execute them" (docs/configuration.md:75): not so for the leader, which
\* publishes the task all the same.
DryRunHarmless == dryRun => \A r \in Remediation : \A i \in 1..Len(effects[r]) : effects[r][i] = 0

SecondNewest(list) == Newest(SelectSeq(list, LAMBDA rs : rs.revision # Newest(list)))

\* "Find the previous revision (second highest revision annotation)"
\* (internal/action/handlers.go:260): with distinct revisions the loop never keeps a
\* ReplicaSet, and the fallback takes the first of the list, or the second if the first
\* is the newest.
RollbackToPrevious ==
  \A r \in Remediation :
    Writes(r, "rollbackToPrevious") =>
      PreviousRevision(job[r].seen.list).revision = SecondNewest(job[r].seen.list)

=============================================================================

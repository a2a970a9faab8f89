---------------------------- MODULE ActionsProofs ----------------------------
(***************************************************************************)
(* Remediations, for any number of them, any plans, any kinds of failures  *)
(* and any changes by others.                                              *)
(***************************************************************************)
EXTENDS Actions, FoldLemmas, SequenceTheorems

\* Which kinds the handlers that change the cluster accept.
LEMMA HandlerKinds ==
  ASSUME NEW a, NEW t, a \in DOMAIN handlers, t \in handlers[a]
  PROVE  /\ a \in {"scaleUp", "restartPod", "rollbackToPrevious", "adjustMemory", "notify"}
         /\ a = "scaleUp" \/ a = "adjustMemory" => t \in {"Deployment", "StatefulSet"}
         /\ a = "restartPod" => t = "Pod"
         /\ a = "rollbackToPrevious" => t = "Deployment"
BY DEF handlers, Scalable

\* A plan.
LEMMA PlanType ==
  ASSUME NEW p \in Plans
  PROVE  /\ p.resource \in Kind /\ p.actions \in Seq(STRING) /\ Len(p.actions) \in Nat \ {0}
         /\ p.increment \in (-MaxInt32 - 1)..MaxInt32 /\ p.percent \in Nat /\ p.maxValue \in Nat \cup {NoMax}
<1>1. p \in [resource : Kind, actions : Seq(STRING) \ {<<>>}, increment : (-MaxInt32 - 1)..MaxInt32,
             percent : Nat, maxValue : Nat \cup {NoMax}]
  BY ActionsAssumption
<1>2. p.actions \in Seq(STRING) /\ p.actions # <<>>
  BY <1>1
<1> QED
  BY <1>1, <1>2

LEMMA NotSeenType == NotSeen \in Seen
<1> DEFINE R == [id : Nat, revision : Nat]
<1>1. <<>> \in Seq(R)
  OBVIOUS
<1> QED
  BY <1>1 DEF NotSeen, Seen

-----------------------------------------------------------------------------
(* What becomes of a job.                                                  *)

\* Fields that the error paths leave alone.
Same(j, new) ==
  new.plan = j.plan /\ new.target = j.target /\ new.i = j.i /\ new.done = j.done

LEMMA StoppedFacts ==
  ASSUME NEW j \in Job
  PROVE  Stopped(j) \in Job /\ Same(j, Stopped(j)) /\ Stopped(j).pc = "done" /\ Stopped(j).status = "failed"
BY DEF Stopped, Job, Same

LEMMA FailedFacts ==
  ASSUME NEW j \in Job
  PROVE  /\ Failed(j) \in Job /\ Same(j, Failed(j))
         /\ \/ Failed(j).pc = "fallback" /\ Failed(j).status = j.status
            \/ Failed(j).pc = "done" /\ Failed(j).status = "failed"
<1> DEFINE f == [j EXCEPT !.pc = "fallback", !.attempt = 0, !.seen = NotSeen]
<1>3. 0 \in 0..(maxRetries - 1)
  BY ActionsAssumption
<1>1. f \in Job /\ Same(j, f) /\ f.pc = "fallback" /\ f.status = j.status
  BY <1>3, NotSeenType DEF Job, Same
<1>2. Failed(j) = f \/ Failed(j) = Stopped(j)
  BY DEF Failed
<1> HIDE DEF f
<1> QED
  BY <1>1, <1>2, StoppedFacts

LEMMA CompletedFacts ==
  ASSUME NEW j \in Job, j.i \in 1..Len(j.plan.actions)
  PROVE  LET c == Completed(j)
         IN /\ c \in Job /\ c.plan = j.plan /\ c.done = j.done + 1
            /\ \/ j.i = Len(j.plan.actions) /\ c.pc = "done" /\ c.status = "succeeded" /\ c.i = j.i
               \/ j.i < Len(j.plan.actions) /\ c.pc = "exec" /\ c.status = j.status /\ c.i = j.i + 1
<1> DEFINE more == j.done + 1
           next == j.i + 1
           t == IF mode = "standalone" THEN j.plan.resource ELSE j.target
           a == [j EXCEPT !.pc = "done", !.done = more, !.status = "succeeded", !.seen = NotSeen]
           b == [j EXCEPT !.pc = "exec", !.done = more, !.i = next, !.attempt = 0, !.seen = NotSeen, !.target = t]
<1>1. Completed(j) = IF j.i = Len(j.plan.actions) THEN a ELSE b
  BY DEF Completed
<1>2. j.plan \in Plans /\ more \in Nat /\ next \in Nat /\ 0 \in 0..(maxRetries - 1)
  BY ActionsAssumption DEF Job
<1>3. t \in Kind
  BY <1>2, PlanType DEF Job
<1> HIDE DEF more, next, t
<1>4. a \in Job /\ a.plan = j.plan /\ a.done = more /\ a.pc = "done" /\ a.status = "succeeded" /\ a.i = j.i
  BY <1>2, NotSeenType DEF Job
<1>5. b \in Job /\ b.plan = j.plan /\ b.done = more /\ b.pc = "exec" /\ b.status = j.status /\ b.i = next
  BY <1>2, <1>3, NotSeenType DEF Job
<1>6. j.i # Len(j.plan.actions) => j.i < Len(j.plan.actions)
  BY <1>2, PlanType DEF Job
<1> HIDE DEF a, b
<1> QED
  BY <1>1, <1>4, <1>5, <1>6 DEF more, next

LEMMA RetriedFacts ==
  ASSUME NEW j \in Job
  PROVE  /\ Retried(j) \in Job /\ Same(j, Retried(j))
         /\ \/ Retried(j).pc = "exec" /\ Retried(j).status = j.status
            \/ Retried(j) = Failed(j)
<1> DEFINE more == j.attempt + 1
           f == [j EXCEPT !.pc = "exec", !.attempt = more, !.seen = NotSeen]
<1>1. more < maxRetries => more \in 0..(maxRetries - 1)
  BY ActionsAssumption DEF Job
<1>2. Retried(j) = IF more < maxRetries THEN f ELSE Failed(j)
  BY DEF Retried
<1> HIDE DEF more
<1>3. more < maxRetries => f \in Job /\ Same(j, f) /\ f.pc = "exec" /\ f.status = j.status
  BY <1>1, NotSeenType DEF Job, Same
<1> HIDE DEF f
<1> QED
  BY <1>2, <1>3, FailedFacts

-----------------------------------------------------------------------------
(* Progress.                                                               *)

\* A job in hand and the effects of its actions are typed.
Sized(j, e) ==
  /\ j \in Job /\ e \in Seq(Nat) /\ Len(e) = Len(j.plan.actions)
  /\ j.i \in 1..Len(j.plan.actions) /\ j.done \in 0..j.i

LEMMA SizedFacts ==
  ASSUME NEW j, NEW e, Sized(j, e)
  PROVE  /\ Len(j.plan.actions) \in Nat /\ j.i \in Nat /\ j.done \in Nat
         /\ \A m \in 1..Len(j.plan.actions) : e[m] \in Nat
BY PlanType DEF Sized, Job

\* A step that leaves plan, place and effects alone, and stops or goes on.
LEMMA SameProgress ==
  ASSUME NEW j, NEW e, NEW new, Sized(j, e), ProgressTrue(j, e), new \in Job, j.status = "none",
         new.plan = j.plan, new.i = j.i, new.done = j.done,
         \/ new.pc = "done" /\ new.status \in {"failed", "dryRun"}
         \/ /\ new.status = "none"
            /\ \/ new.pc = "fallback" /\ j.pc \in {"exec", "write"} /\ new.target = j.target
               \/ new.pc \in {"published", "exec", "write"} /\ e[j.i] = 0
               \/ new.pc = "exec" /\ j.pc = "fallback" /\ j.target = "Pod" /\ new.target # "Pod"
  PROVE  ProgressTrue(new, e) /\ Sized(new, e)
<1>1. Sized(new, e)
  BY DEF Sized
<1>2. e[j.i] \in Nat
  BY SizedFacts DEF Sized
<1>3. ProgressTrue(new, e)
  BY <1>2 DEF ProgressTrue
<1> QED
  BY <1>1, <1>3

\* An action is completed that had no effect to make, or has just made it.
LEMMA CompletedProgress ==
  ASSUME NEW j, NEW e, NEW f, Sized(j, e), Sized(j, f), ProgressTrue(j, e), j.status = "none",
         \A m \in 1..Len(j.plan.actions) : m # j.i => f[m] = e[m],
         f[j.i] <= 1, f[j.i] = 1 \/ j.plan.actions[j.i] = "notify"
  PROVE  ProgressTrue(Completed(j), f) /\ Sized(Completed(j), f)
<1> DEFINE c == Completed(j)
           n == Len(j.plan.actions)
<1>1. /\ c \in Job /\ c.plan = j.plan /\ c.done = j.done + 1
      /\ \/ j.i = n /\ c.pc = "done" /\ c.status = "succeeded" /\ c.i = j.i
         \/ j.i < n /\ c.pc = "exec" /\ c.status = j.status /\ c.i = j.i + 1
  BY CompletedFacts DEF Sized
<1>2. /\ n \in Nat /\ j.i \in 1..n /\ j.done = j.i - 1
      /\ \A m \in 1..n : e[m] \in Nat /\ f[m] \in Nat
      /\ \A m \in 1..n : /\ e[m] <= 1
                         /\ m <= j.done /\ j.plan.actions[m] # "notify" => e[m] = 1
                         /\ m > j.i => e[m] = 0
  BY SizedFacts DEF Sized, ProgressTrue
<1> HIDE DEF c
<1>3. c.i \in 1..n /\ c.done \in 0..c.i /\ c.done = IF c.status = "succeeded" THEN c.i ELSE c.i - 1
  BY <1>1, <1>2
<1>4. ASSUME NEW m \in 1..n
      PROVE  /\ f[m] <= 1
             /\ m <= c.done /\ j.plan.actions[m] # "notify" => f[m] = 1
             /\ m > c.i => f[m] = 0
  <2>1. CASE m = j.i
    <3>1. ~(m > c.i)
      BY <1>1, <1>2, <2>1
    <3> QED
      BY <2>1, <3>1
  <2>2. CASE m # j.i
    <3>1. f[m] = e[m] /\ (m <= c.done => m <= j.done) /\ (m > c.i => m > j.i)
      BY <1>1, <1>2, <2>2
    <3> QED
      BY <1>2, <3>1
  <2> QED
    BY <2>1, <2>2
<1>5. ASSUME c.status # "succeeded" PROVE f[c.i] = 0
  <2>1. c.i = j.i + 1 /\ c.i \in 1..n /\ c.i > j.i /\ c.i # j.i
    BY <1>1, <1>2, <1>5
  <2>2. f[c.i] = e[c.i]
    BY <2>1
  <2> QED
    BY <1>2, <2>1, <2>2
<1>6. Sized(c, f)
  BY <1>1, <1>3 DEF Sized
<1>7. ProgressTrue(c, f)
  BY <1>1, <1>3, <1>4, <1>5 DEF ProgressTrue
<1> QED
  BY <1>6, <1>7 DEF c

\* The reply to a call that took effect was lost.
LEMMA LostProgress ==
  ASSUME NEW j, NEW e, NEW f, Sized(j, e), Sized(j, f), ProgressTrue(j, e), j.status = "none",
         \A m \in 1..Len(j.plan.actions) : m # j.i => f[m] = e[m],
         f[j.i] <= 1, j.target = "Pod" => j.plan.actions[j.i] = "restartPod"
  PROVE  ProgressTrue(Failed(j), f) /\ Sized(Failed(j), f)
<1> DEFINE c == Failed(j)
           n == Len(j.plan.actions)
<1>1. /\ c \in Job /\ Same(j, c)
      /\ \/ c.pc = "fallback" /\ c.status = "none"
         \/ c.pc = "done" /\ c.status = "failed"
  BY FailedFacts DEF Sized
<1>2. /\ n \in Nat /\ j.i \in 1..n /\ j.done = j.i - 1
      /\ \A m \in 1..n : e[m] \in Nat /\ f[m] \in Nat
      /\ \A m \in 1..n : /\ e[m] <= 1
                         /\ m <= j.done /\ j.plan.actions[m] # "notify" => e[m] = 1
                         /\ m > j.i => e[m] = 0
  BY SizedFacts DEF Sized, ProgressTrue
<1> HIDE DEF c
<1>4. \A m \in 1..n : /\ f[m] <= 1
                      /\ m <= j.done /\ j.plan.actions[m] # "notify" => f[m] = 1
                      /\ m > j.i => f[m] = 0
  BY <1>2
<1>6. Sized(c, f)
  BY <1>1 DEF Sized, Same
<1>7. ProgressTrue(c, f)
  BY <1>1, <1>2, <1>4 DEF ProgressTrue, Same
<1> QED
  BY <1>6, <1>7 DEF c

-----------------------------------------------------------------------------
(* A step changes one job, and what the others read grows older.           *)

\* A workload that changes gets a new version.
Newer ==
  \A k \in Scalable : workload'[k] = workload[k] \/ workload'[k].version > workload[k].version

LEMMA WorkloadType ==
  ASSUME TypeOK
  PROVE  \A k \in Scalable : /\ workload[k] \in [version : Nat, replicas : 0..MaxInt32, limit : Nat]
                             /\ workload[k].version \in Nat /\ workload[k].limit \in Nat
                             /\ workload[k].replicas \in 0..MaxInt32
BY DEF TypeOK

LEMMA SeenLasts ==
  ASSUME IInv, Newer, NEW j \in Job, SeenTrue(j),
         workload' \in [Scalable -> [version : Nat, replicas : 0..MaxInt32, limit : Nat]]
  PROVE  SeenTrue(j)'
<1> SUFFICES ASSUME j.pc = "write" PROVE SeenTrue(j)'
  BY DEF SeenTrue
<1> DEFINE a == j.plan.actions[j.i]
<1>1. a \in DOMAIN handlers /\ j.target \in handlers[a] /\ "Deployment" \in Scalable
  BY DEF SeenTrue, Scalable
<1>2. a = "scaleUp" => j.target \in Scalable
  BY <1>1, HandlerKinds DEF Scalable
<1>3. \A k \in Scalable : workload'[k].version \in Nat /\ workload[k].version \in Nat
  BY WorkloadType DEF IInv
<1>4. j.seen.version \in Nat
  BY DEF Job, Seen
<1>5. ASSUME a = "scaleUp"
      PROVE  /\ j.seen.version <= workload'[j.target].version
             /\ workload'[j.target].version = j.seen.version => workload'[j.target].replicas = j.seen.replicas
  BY <1>2, <1>3, <1>4, <1>5 DEF SeenTrue, Newer
<1>6. ASSUME a = "adjustMemory"
      PROVE  /\ j.seen.version <= workload'["Deployment"].version
             /\ workload'["Deployment"].version = j.seen.version => workload'["Deployment"].limit = j.seen.limit
  BY <1>1, <1>3, <1>4, <1>6 DEF SeenTrue, Newer
<1> QED
  BY <1>1, <1>5, <1>6 DEF SeenTrue

\* One remediation moves.
LEMMA JobStep ==
  ASSUME IInv, NEW r \in Remediation, NEW j, NEW e, Sized(j, e), ProgressTrue(j, e), SeenTrue(j)',
         job' = [job EXCEPT ![r] = j], effects' = [effects EXCEPT ![r] = e],
         UNCHANGED <<mode, dryRun, owner, edits>>, faults' \in 0..MaxFaults, pod' \in BOOLEAN, Newer,
         workload' \in [Scalable -> [version : Nat, replicas : 0..MaxInt32, limit : Nat]],
         replicaSets' \in Seq([id : Nat, revision : Nat]), Numbered(replicaSets)'
  PROVE  IInv'
<1>1. job'[r] = j /\ effects'[r] = e /\ \A q \in Remediation : q # r => job'[q] = job[q] /\ effects'[q] = effects[q]
  BY DEF IInv, TypeOK
<1>2. TypeOK'
  <2>1. job' \in [Remediation -> Job] /\ effects' \in [Remediation -> Seq(Nat)]
    BY DEF IInv, TypeOK, Sized
  <2>2. \A q \in Remediation : /\ job'[q].i \in 1..Len(job'[q].plan.actions) /\ job'[q].done \in 0..job'[q].i
                               /\ Len(effects'[q]) = Len(job'[q].plan.actions)
    BY <1>1 DEF IInv, TypeOK, Sized
  <2> QED
    BY <2>1, <2>2 DEF IInv, TypeOK
<1>3. ASSUME NEW q \in Remediation
      PROVE  ProgressTrue(job[q], effects[q])' /\ SeenTrue(job[q])'
  <2>1. CASE q = r
    BY <1>1, <2>1 DEF ProgressTrue, SeenTrue
  <2>2. CASE q # r
    <3>1. job[q] \in Job /\ SeenTrue(job[q]) /\ ProgressTrue(job[q], effects[q])
      BY DEF IInv, TypeOK
    <3>2. SeenTrue(job[q])'
      BY <1>1, <2>2, <3>1, SeenLasts, ZenonT(60) DEF SeenTrue
    <3> QED
      BY <1>1, <2>2, <3>1, <3>2 DEF ProgressTrue
  <2> QED
    BY <2>1, <2>2
<1> QED
  BY <1>2, <1>3 DEF IInv

\* A step of the code between two calls that leaves the cluster alone.
LEMMA QuietStep ==
  ASSUME IInv, NEW r \in Remediation, NEW j, Sized(j, effects[r]), ProgressTrue(j, effects[r]), SeenTrue(j),
         job' = [job EXCEPT ![r] = j], faults' \in 0..MaxFaults,
         UNCHANGED <<mode, dryRun, owner, edits, pod, workload, replicaSets, effects>>
  PROVE  IInv'
<1>1. effects' = [effects EXCEPT ![r] = effects[r]] /\ Newer
  BY DEF IInv, TypeOK, Newer
<1>2. /\ pod' \in BOOLEAN /\ replicaSets' \in Seq([id : Nat, revision : Nat]) /\ Numbered(replicaSets)'
      /\ workload' \in [Scalable -> [version : Nat, replicas : 0..MaxInt32, limit : Nat]]
  BY DEF IInv, TypeOK, Numbered
<1>3. ASSUME NEW x \in Job, SeenTrue(x) PROVE SeenTrue(x)'
  BY <1>1, <1>2, <1>3, SeenLasts
<1>4. PICK x \in Job : x = j
  BY DEF Sized
<1>5. PICK e \in Seq(Nat) : e = effects[r]
  BY DEF IInv, TypeOK
<1>6. SeenTrue(x)' /\ Sized(x, e) /\ ProgressTrue(x, e)
  BY <1>3, <1>4, <1>5
<1>7. job' = [job EXCEPT ![r] = x] /\ effects' = [effects EXCEPT ![r] = e]
  BY <1>1, <1>4, <1>5
<1> QED
  BY <1>1, <1>2, <1>6, <1>7, JobStep

\* What is known of the job that takes a step.
LEMMA InHand ==
  ASSUME IInv, NEW r \in Remediation
  PROVE  /\ Sized(job[r], effects[r]) /\ ProgressTrue(job[r], effects[r]) /\ SeenTrue(job[r])
         /\ job[r] \in Job /\ job[r].plan \in Plans
         /\ faults \in 0..MaxFaults /\ edits \in 0..MaxEdits /\ MaxFaults \in Nat /\ MaxEdits \in Nat
         /\ job[r].pc # "done" => job[r].status = "none"
BY ActionsAssumption DEF IInv, TypeOK, Sized, Job, ProgressTrue

\* A remediation stops, or goes to the fallback, without an effect.
LEMMA FailStep ==
  ASSUME IInv, NEW r \in Remediation, NEW j, j = Stopped(job[r]) \/ (j = Failed(job[r]) /\ job[r].pc \in {"exec", "write"}),
         job[r].pc # "done", job' = [job EXCEPT ![r] = j], faults' \in 0..MaxFaults,
         UNCHANGED <<mode, dryRun, owner, edits, pod, workload, replicaSets, effects>>
  PROVE  IInv'
<1>1. /\ Sized(job[r], effects[r]) /\ ProgressTrue(job[r], effects[r]) /\ SeenTrue(job[r])
      /\ job[r] \in Job /\ job[r].status = "none"
  BY InHand
<1>2. j \in Job /\ Same(job[r], j)
  BY <1>1, StoppedFacts, FailedFacts
<1>3. \/ j.pc = "done" /\ j.status = "failed"
      \/ j.pc = "fallback" /\ j.status = "none" /\ job[r].pc \in {"exec", "write"}
  BY <1>1, StoppedFacts, FailedFacts
<1>4. ProgressTrue(j, effects[r]) /\ Sized(j, effects[r])
  BY <1>1, <1>2, <1>3, SameProgress DEF Same
<1>5. SeenTrue(j)
  BY <1>3 DEF SeenTrue
<1> QED
  BY <1>4, <1>5, QuietStep

-----------------------------------------------------------------------------
(* The controller and the Worker.                                          *)

\* The resolver leaves everything but pods alone, and finds another kind for a pod, or none.
LEMMA ResolverFacts ==
  ASSUME TypeOK, NEW kind \in Kind
  PROVE  ResolveWorkloadOwner(kind) \in Kind /\ (ResolveWorkloadOwner(kind) # kind => kind = "Pod")
<1>1. \/ owner.pod \in {"none", "StatefulSet", "DaemonSet", "ReplicaSet"} /\ owner.rs = "none"
      \/ owner.pod = "ReplicaSet" /\ owner.rs = "Deployment"
  BY DEF TypeOK, Owners
<1>2. resolvePodOwner \in Kind
  BY <1>1 DEF resolvePodOwner, Kind, workloadKinds
<1> QED
  BY <1>2 DEF ResolveWorkloadOwner

LEMMA ResolutionFacts ==
  ASSUME NEW kind, NEW ok \in BOOLEAN, Resolution(kind, ok), faults \in 0..MaxFaults, MaxFaults \in Nat
  PROVE  faults' \in 0..MaxFaults
<1>1. faults' = faults \/ (faults < MaxFaults /\ faults' = faults + 1)
  BY DEF Resolution
<1> QED
  BY <1>1

LEMMA ControllerSteps ==
  ASSUME IInv, NEW r \in Remediation,
         \/ ExecuteActions(r) \/ PublishFails(r) \/ ClaimTask(r)
         \/ \E ok \in BOOLEAN : PublishTask(r, ok) \/ RetryWithOwner(r, ok)
  PROVE  IInv'
<1> USE DEF config, cluster
<1>1. /\ Sized(job[r], effects[r]) /\ ProgressTrue(job[r], effects[r]) /\ SeenTrue(job[r])
      /\ job[r] \in Job /\ faults \in 0..MaxFaults /\ MaxFaults \in Nat
      /\ job[r].pc # "done" => job[r].status = "none"
  BY InHand
<1>2. job[r].pc \in {"new", "published"} => effects[r][job[r].i] = 0
  BY <1>1 DEF ProgressTrue
<1>3. CASE ExecuteActions(r)
  <2> DEFINE j == Started(job[r])
  <2>1. /\ j \in Job /\ j.plan = job[r].plan /\ j.i = job[r].i /\ j.done = job[r].done
        /\ \/ j.pc = "done" /\ j.status = "dryRun"
           \/ j.pc = "exec" /\ j.status = job[r].status
    BY <1>1 DEF Started, Job
  <2>2. job' = [job EXCEPT ![r] = j] /\ job[r].pc = "new" /\ faults' = faults
    BY <1>3 DEF ExecuteActions
  <2> HIDE DEF j
  <2>3. ProgressTrue(j, effects[r]) /\ Sized(j, effects[r])
    BY <1>1, <1>2, <2>1, <2>2, SameProgress
  <2>4. SeenTrue(j)
    BY <2>1 DEF SeenTrue
  <2> QED
    BY <1>1, <1>3, <2>2, <2>3, <2>4, QuietStep DEF ExecuteActions
<1>4. CASE PublishFails(r)
  <2>1. faults' \in 0..MaxFaults
    BY <1>1, <1>4 DEF PublishFails
  <2> QED
    BY <1>4, <2>1, FailStep DEF PublishFails
<1>5. ASSUME NEW ok \in BOOLEAN, PublishTask(r, ok) PROVE IInv'
  <2> DEFINE t == IF ok THEN ResolveWorkloadOwner(job[r].target) ELSE job[r].target
             j == [job[r] EXCEPT !.pc = "published", !.target = t]
  <2>1. t \in Kind
    BY <1>1, ResolverFacts DEF Job, IInv
  <2>2. job' = [job EXCEPT ![r] = j] /\ job[r].pc = "new" /\ faults' \in 0..MaxFaults
    <3>1. faults' \in 0..MaxFaults
      BY <1>1, <1>5, ResolutionFacts DEF PublishTask
    <3> QED
      BY <1>5, <3>1 DEF PublishTask
  <2> HIDE DEF t
  <2>3. /\ j \in Job /\ j.plan = job[r].plan /\ j.i = job[r].i /\ j.done = job[r].done
        /\ j.pc = "published" /\ j.status = job[r].status
    BY <1>1, <2>1 DEF Job
  <2> HIDE DEF j
  <2>4. ProgressTrue(j, effects[r]) /\ Sized(j, effects[r])
    BY <1>1, <1>2, <2>2, <2>3, SameProgress
  <2>5. SeenTrue(j)
    BY <2>3 DEF SeenTrue
  <2> QED
    BY <1>1, <1>5, <2>2, <2>4, <2>5, QuietStep DEF PublishTask
<1>6. ASSUME NEW ok \in BOOLEAN, RetryWithOwner(r, ok) PROVE IInv'
  <2> DEFINE t == ResolveWorkloadOwner(job[r].target)
             j == [job[r] EXCEPT !.pc = "exec", !.target = t]
  <2>1. t \in Kind /\ (t # job[r].target => job[r].target = "Pod")
    BY <1>1, ResolverFacts DEF Job, IInv
  <2>2. job[r].pc = "fallback" /\ faults' \in 0..MaxFaults
    BY <1>1, <1>6, ResolutionFacts DEF RetryWithOwner
  <2>3. \/ job' = [job EXCEPT ![r] = Stopped(job[r])]
        \/ t # job[r].target /\ job' = [job EXCEPT ![r] = j]
    BY <1>6 DEF RetryWithOwner
  <2> HIDE DEF t
  <2>4. /\ j \in Job /\ j.plan = job[r].plan /\ j.i = job[r].i /\ j.done = job[r].done
        /\ j.pc = "exec" /\ j.status = job[r].status /\ j.target = t
    BY <1>1, <2>1 DEF Job
  <2> HIDE DEF j
  <2>5. CASE t # job[r].target /\ job' = [job EXCEPT ![r] = j]
    <3>1. ProgressTrue(j, effects[r]) /\ Sized(j, effects[r])
      BY <1>1, <2>1, <2>2, <2>4, <2>5, SameProgress
    <3>2. SeenTrue(j)
      BY <2>4 DEF SeenTrue
    <3> QED
      BY <1>1, <1>6, <2>2, <2>5, <3>1, <3>2, QuietStep DEF RetryWithOwner
  <2>6. CASE job' = [job EXCEPT ![r] = Stopped(job[r])]
    BY <1>6, <2>2, <2>6, FailStep, ZenonT(60) DEF RetryWithOwner
  <2> QED
    BY <2>3, <2>5, <2>6
<1>7. CASE ClaimTask(r)
  <2> DEFINE j == [job[r] EXCEPT !.pc = "exec"]
  <2>1. job' = [job EXCEPT ![r] = j] /\ job[r].pc = "published" /\ faults' = faults
    BY <1>7 DEF ClaimTask
  <2>2. /\ j \in Job /\ j.plan = job[r].plan /\ j.i = job[r].i /\ j.done = job[r].done
        /\ j.pc = "exec" /\ j.status = job[r].status
    BY <1>1 DEF Job
  <2> HIDE DEF j
  <2>3. ProgressTrue(j, effects[r]) /\ Sized(j, effects[r])
    BY <1>1, <1>2, <2>1, <2>2, SameProgress
  <2>4. SeenTrue(j)
    BY <2>2 DEF SeenTrue
  <2> QED
    BY <1>1, <1>7, <2>1, <2>3, <2>4, QuietStep DEF ClaimTask
<1> QED
  BY <1>3, <1>4, <1>5, <1>6, <1>7

-----------------------------------------------------------------------------
(* The handlers.                                                           *)

\* Calls that fail and targets that are refused.
LEMMA FailingSteps ==
  ASSUME IInv, NEW r \in Remediation, Reject(r) \/ CallFails(r) \/ NotFound(r) \/ ScaleConflict(r)
  PROVE  IInv'
<1> USE DEF config, cluster
<1>1. faults \in 0..MaxFaults /\ MaxFaults \in Nat
  BY InHand
<1>2. /\ job' = [job EXCEPT ![r] = Failed(job[r])] /\ job[r].pc \in {"exec", "write"}
      /\ UNCHANGED <<mode, dryRun, owner, edits, pod, workload, replicaSets, effects>>
      /\ faults' = faults \/ (faults < MaxFaults /\ faults' = faults + 1)
  BY DEF Reject, CallFails, NotFound, ScaleConflict, Runs, Writes
<1>3. faults' \in 0..MaxFaults
  BY <1>1, <1>2
<1> QED
  BY <1>2, <1>3, FailStep

\* In exec an accepted action has had no effect, in write none has.
LEMMA NoEffectYet ==
  ASSUME IInv, NEW r \in Remediation, (job[r].pc = "exec" /\ Accepts(r)) \/ job[r].pc = "write"
  PROVE  effects[r][job[r].i] = 0
<1>1. ProgressTrue(job[r], effects[r]) /\ (job[r].pc # "done" => job[r].status = "none")
  BY InHand
<1>2. CASE job[r].pc = "write"
  BY <1>1, <1>2 DEF ProgressTrue
<1>3. CASE job[r].pc = "exec" /\ Accepts(r)
  <2>1. Action(r) = "restartPod" => job[r].target = "Pod"
    BY <1>3, HandlerKinds DEF Accepts
  <2> QED
    BY <1>1, <1>3, <2>1 DEF ProgressTrue, Action
<1> QED
  BY <1>2, <1>3

LEMMA NotifyStep ==
  ASSUME IInv, NEW r \in Remediation, Notify(r)
  PROVE  IInv'
<1> DEFINE j == Completed(job[r])
<1>1. /\ Sized(job[r], effects[r]) /\ ProgressTrue(job[r], effects[r])
      /\ faults \in 0..MaxFaults /\ (job[r].pc # "done" => job[r].status = "none")
  BY InHand
<1>2. /\ job[r].pc = "exec" /\ job[r].plan.actions[job[r].i] = "notify" /\ Accepts(r)
      /\ job' = [job EXCEPT ![r] = j]
      /\ UNCHANGED <<mode, dryRun, owner, edits, pod, workload, replicaSets, effects, faults>>
  BY DEF Notify, Runs, Action, config, cluster
<1>3. effects[r][job[r].i] = 0
  BY <1>2, NoEffectYet
<1>4. ProgressTrue(j, effects[r]) /\ Sized(j, effects[r])
  BY <1>1, <1>2, <1>3, CompletedProgress
<1>5. j.pc # "write"
  BY <1>1, CompletedFacts DEF Sized
<1>6. SeenTrue(j)
  BY <1>5 DEF SeenTrue
<1> HIDE DEF j
<1> QED
  BY <1>1, <1>2, <1>4, <1>6, QuietStep

\* A handler has read what it works on.
LEMMA ReadStep ==
  ASSUME IInv, NEW r \in Remediation, NEW seen \in Seen, job[r].pc = "exec", Accepts(r),
         job' = [job EXCEPT ![r] = [job[r] EXCEPT !.pc = "write", !.seen = seen]],
         UNCHANGED <<mode, dryRun, owner, edits, pod, workload, replicaSets, effects, faults>>,
         Action(r) = "scaleUp" =>
           seen.version = workload[job[r].target].version /\ seen.replicas = workload[job[r].target].replicas,
         Action(r) = "adjustMemory" =>
           seen.version = workload["Deployment"].version /\ seen.limit = workload["Deployment"].limit,
         Action(r) = "rollbackToPrevious" => Len(seen.list) >= 2 /\ Numbered(seen.list)
  PROVE  IInv'
<1> DEFINE j == [job[r] EXCEPT !.pc = "write", !.seen = seen]
<1>1. /\ Sized(job[r], effects[r]) /\ ProgressTrue(job[r], effects[r]) /\ job[r] \in Job
      /\ faults \in 0..MaxFaults /\ (job[r].pc # "done" => job[r].status = "none")
  BY InHand
<1>2. /\ j \in Job /\ j.plan = job[r].plan /\ j.i = job[r].i /\ j.done = job[r].done /\ j.target = job[r].target
      /\ j.pc = "write" /\ j.status = job[r].status /\ j.seen = seen
  BY <1>1 DEF Job
<1>3. job' = [job EXCEPT ![r] = j]
  OBVIOUS
<1> HIDE DEF j
<1>4. effects[r][job[r].i] = 0
  BY NoEffectYet
<1>5. ProgressTrue(j, effects[r]) /\ Sized(j, effects[r])
  BY <1>1, <1>2, <1>4, SameProgress
<1>6. j.plan.actions[j.i] = Action(r)
  BY <1>2 DEF Action
<1>7. SeenTrue(j)
  <2>1. Action(r) \in DOMAIN handlers /\ job[r].target \in handlers[Action(r)]
    BY DEF Accepts
  <2>2. /\ seen.version \in Nat
        /\ Action(r) = "scaleUp" => seen.version <= workload[job[r].target].version
        /\ Action(r) = "adjustMemory" => seen.version <= workload["Deployment"].version
    <3>1. seen.version \in Nat
      BY DEF Seen
    <3> QED
      BY <3>1
  <2> QED
    BY <1>2, <1>6, <2>1, <2>2 DEF SeenTrue
<1> QED
  BY <1>1, <1>3, <1>5, <1>7, QuietStep

LEMMA ReadingSteps ==
  ASSUME IInv, NEW r \in Remediation, GetScale(r) \/ GetDeployment(r) \/ ListReplicaSets(r)
  PROVE  IInv'
<1> USE DEF config, cluster, Runs
<1>1. job[r] \in Job /\ TypeOK /\ faults \in 0..MaxFaults
  BY InHand DEF IInv
<1>2. \A k \in Scalable : workload[k].version \in Nat /\ workload[k].replicas \in Nat /\ workload[k].limit \in Nat
  BY <1>1, WorkloadType, ActionsAssumption
<1>3. CASE GetScale(r)
  <2> DEFINE w == workload[job[r].target]
             seen == [NotSeen EXCEPT !.version = w.version, !.replicas = w.replicas]
  <2>1. job[r].target \in Scalable
    BY <1>3, HandlerKinds DEF GetScale, Accepts, Scalable
  <2>2. w.version \in Nat /\ w.replicas \in Nat
    BY <1>2, <2>1
  <2>3. job' = [job EXCEPT ![r] = [job[r] EXCEPT !.pc = "write", !.seen = seen]]
    BY <1>3 DEF GetScale
  <2> HIDE DEF w
  <2>4. seen \in Seen /\ seen.version = w.version /\ seen.replicas = w.replicas
    BY <2>2, NotSeenType DEF Seen
  <2> HIDE DEF seen
  <2>5. Action(r) = "scaleUp"
    BY <1>3 DEF GetScale
  <2> QED
    BY <1>3, <2>3, <2>4, <2>5, ReadStep DEF GetScale, w
<1>4. CASE GetDeployment(r)
  <2> DEFINE w == workload["Deployment"]
             seen == [NotSeen EXCEPT !.version = w.version, !.limit = w.limit]
  <2>2. w.version \in Nat /\ w.limit \in Nat
    BY <1>2 DEF Scalable
  <2>3. job' = [job EXCEPT ![r] = [job[r] EXCEPT !.pc = "write", !.seen = seen]]
    BY <1>4 DEF GetDeployment
  <2> HIDE DEF w
  <2>4. seen \in Seen /\ seen.version = w.version /\ seen.limit = w.limit
    BY <2>2, NotSeenType DEF Seen
  <2> HIDE DEF seen
  <2>5. Action(r) = "adjustMemory"
    BY <1>4 DEF GetDeployment
  <2> QED
    BY <1>4, <2>3, <2>4, <2>5, ReadStep DEF GetDeployment, w
<1>5. CASE ListReplicaSets(r)
  <2> DEFINE seen == [NotSeen EXCEPT !.list = replicaSets]
  <2>1. /\ job[r].pc = "exec" /\ Accepts(r) /\ Action(r) = "rollbackToPrevious"
        /\ UNCHANGED <<mode, dryRun, owner, edits, pod, workload, replicaSets, effects, faults>>
        /\ \/ job' = [job EXCEPT ![r] = Failed(job[r])]
           \/ /\ ~(Len(replicaSets) < 2)
              /\ job' = [job EXCEPT ![r] = [job[r] EXCEPT !.pc = "write", !.seen = seen]]
    BY <1>5 DEF ListReplicaSets
  <2>2. seen \in Seen /\ seen.list = replicaSets
    BY <1>1, NotSeenType DEF Seen, TypeOK
  <2>3. Len(replicaSets) \in Nat /\ Numbered(replicaSets)
    BY <1>1 DEF TypeOK, IInv
  <2> HIDE DEF seen
  <2>4. CASE job' = [job EXCEPT ![r] = Failed(job[r])]
    BY <1>1, <2>1, <2>4, FailStep
  <2>5. CASE ~(Len(replicaSets) < 2) /\ job' = [job EXCEPT ![r] = [job[r] EXCEPT !.pc = "write", !.seen = seen]]
    <3>1. Len(seen.list) >= 2 /\ Numbered(seen.list)
      BY <2>2, <2>3, <2>5
    <3> QED
      BY <2>1, <2>2, <2>5, <3>1, ReadStep
  <2> QED
    BY <2>1, <2>4, <2>5
<1> QED
  BY <1>3, <1>4, <1>5

\* After a conflict.
LEMMA ConflictStep ==
  ASSUME IInv, NEW r \in Remediation, PatchConflict(r)
  PROVE  IInv'
<1> DEFINE j == Retried(job[r])
<1>1. /\ Sized(job[r], effects[r]) /\ ProgressTrue(job[r], effects[r]) /\ job[r] \in Job
      /\ faults \in 0..MaxFaults /\ (job[r].pc # "done" => job[r].status = "none")
  BY InHand
<1>2. /\ job[r].pc = "write" /\ job' = [job EXCEPT ![r] = j]
      /\ UNCHANGED <<mode, dryRun, owner, edits, pod, workload, replicaSets, effects, faults>>
  BY DEF PatchConflict, Writes, config, cluster
<1>3. /\ j \in Job /\ Same(job[r], j)
      /\ (j.pc = "exec" /\ j.status = job[r].status) \/ j = Failed(job[r])
  BY <1>1, RetriedFacts
<1> HIDE DEF j
<1>4. CASE j.pc = "exec" /\ j.status = job[r].status
  <2>1. effects[r][job[r].i] = 0
    BY <1>2, NoEffectYet
  <2>2. ProgressTrue(j, effects[r]) /\ Sized(j, effects[r])
    BY <1>1, <1>2, <1>3, <1>4, <2>1, SameProgress DEF Same
  <2>3. SeenTrue(j)
    BY <1>4 DEF SeenTrue
  <2> QED
    BY <1>1, <1>2, <2>2, <2>3, QuietStep
<1>5. CASE j = Failed(job[r])
  BY <1>1, <1>2, <1>5, FailStep
<1> QED
  BY <1>3, <1>4, <1>5

-----------------------------------------------------------------------------
(* Calls that take effect.                                                 *)

LEMMA EffectStep ==
  ASSUME IInv, NEW r \in Remediation, NEW lost \in BOOLEAN, Replied(r, lost),
         (job[r].pc = "exec" /\ Accepts(r)) \/ job[r].pc = "write",
         job[r].target = "Pod" => Action(r) = "restartPod",
         UNCHANGED <<mode, dryRun, owner, edits>>, pod' \in BOOLEAN, Newer,
         workload' \in [Scalable -> [version : Nat, replicas : 0..MaxInt32, limit : Nat]],
         replicaSets' \in Seq([id : Nat, revision : Nat]), Numbered(replicaSets)'
  PROVE  IInv'
<1>1. /\ Sized(job[r], effects[r]) /\ ProgressTrue(job[r], effects[r]) /\ job[r] \in Job
      /\ faults \in 0..MaxFaults /\ MaxFaults \in Nat /\ job[r].status = "none"
  BY InHand
<1>2. effects[r][job[r].i] = 0
  BY NoEffectYet
<1>3. PICK f \in Seq(Nat) : f = [effects[r] EXCEPT ![job[r].i] = 1]
  <2> DEFINE e == effects[r]
             n == Len(e)
             g == [e EXCEPT ![job[r].i] = 1]
  <2>0. e \in Seq(Nat)
    BY <1>1 DEF Sized
  <2> HIDE DEF e
  <2>1. n \in Nat /\ DOMAIN e = 1..n /\ \A m \in 1..n : e[m] \in Nat
    BY <2>0
  <2> HIDE DEF n
  <2>2. g \in [1..n -> Nat]
    BY <2>1
  <2> HIDE DEF g
  <2>3. g \in Seq(Nat)
    BY <2>1, <2>2, SeqDef
  <2> QED
    BY <2>3 DEF e, g
<1>4. /\ effects' = [effects EXCEPT ![r] = f] /\ Sized(job[r], f) /\ f[job[r].i] = 1
      /\ \A m \in 1..Len(job[r].plan.actions) : m # job[r].i => f[m] = effects[r][m]
  <2>1. effects' = [effects EXCEPT ![r] = f]
    BY <1>2, <1>3 DEF Replied
  <2>2. /\ DOMAIN effects[r] = 1..Len(effects[r]) /\ job[r].i \in 1..Len(effects[r])
        /\ Len(effects[r]) = Len(job[r].plan.actions)
    BY <1>1 DEF Sized
  <2>3. /\ DOMAIN f = 1..Len(effects[r]) /\ Len(effects[r]) \in Nat /\ f[job[r].i] = 1
        /\ \A m \in 1..Len(effects[r]) : m # job[r].i => f[m] = effects[r][m]
    BY <1>1, <1>3, <2>2, SMTT(30) DEF Sized
  <2>4. Len(f) = Len(effects[r])
    BY <2>3
  <2> QED
    BY <1>1, <2>1, <2>2, <2>3, <2>4 DEF Sized
<1>9. f[job[r].i] <= 1
  BY <1>4
<1>5. faults' \in 0..MaxFaults
  BY <1>1 DEF Replied
<1>6. \/ job' = [job EXCEPT ![r] = Failed(job[r])]
      \/ job' = [job EXCEPT ![r] = Completed(job[r])]
  BY DEF Replied
<1>7. CASE job' = [job EXCEPT ![r] = Failed(job[r])]
  <2>1. ProgressTrue(Failed(job[r]), f) /\ Sized(Failed(job[r]), f)
    BY <1>1, <1>4, <1>9, LostProgress DEF Action
  <2>2. PICK j \in Job : j = Failed(job[r]) /\ j.pc # "write"
    BY <1>1, FailedFacts
  <2>3. SeenTrue(j)'
    BY <2>2 DEF SeenTrue
  <2> QED
    BY <1>4, <1>5, <1>7, <2>1, <2>2, <2>3, JobStep
<1>8. CASE job' = [job EXCEPT ![r] = Completed(job[r])]
  <2>1. ProgressTrue(Completed(job[r]), f) /\ Sized(Completed(job[r]), f)
    BY <1>1, <1>4, <1>9, CompletedProgress
  <2>2. PICK j \in Job : j = Completed(job[r]) /\ j.pc # "write"
    BY <1>1, CompletedFacts DEF Sized
  <2>3. SeenTrue(j)'
    BY <2>2 DEF SeenTrue
  <2> QED
    BY <1>4, <1>5, <1>8, <2>1, <2>2, <2>3, JobStep
<1> QED
  BY <1>6, <1>7, <1>8

LEMMA RestartPodStep ==
  ASSUME IInv, NEW r \in Remediation, NEW lost \in BOOLEAN, RestartPod(r, lost)
  PROVE  IInv'
<1>1. Newer /\ Numbered(replicaSets)'
  BY ZenonT(60) DEF RestartPod, Newer, IInv, Numbered
<1> QED
  BY <1>1, EffectStep DEF RestartPod, config, Runs, IInv, TypeOK

\* A sum that does not fit becomes negative, and is clamped.
LEMMA ScaledFacts ==
  ASSUME NEW n \in 0..MaxInt32, NEW increment \in (-MaxInt32 - 1)..MaxInt32
  PROVE  /\ Scaled(n, increment) \in 0..MaxInt32
         /\ Scaled(n, increment) = IF n + increment \in 0..MaxInt32 THEN n + increment ELSE 0
BY ActionsAssumption DEF Scaled, Int32

\* The cluster after a write to one workload.
LEMMA WorkloadWrite ==
  ASSUME TypeOK, NEW k \in Scalable, NEW w \in [version : Nat, replicas : 0..MaxInt32, limit : Nat],
         w.version > workload[k].version, workload' = [workload EXCEPT ![k] = w]
  PROVE  Newer /\ workload' \in [Scalable -> [version : Nat, replicas : 0..MaxInt32, limit : Nat]]
BY DEF TypeOK, Newer

\* What the handler of a write may do to which target.
LEMMA WriteTarget ==
  ASSUME IInv, NEW r \in Remediation, job[r].pc = "write"
  PROVE  /\ Action(r) = "scaleUp" => job[r].target \in Scalable
         /\ Action(r) \in {"scaleUp", "adjustMemory", "rollbackToPrevious"} => job[r].target # "Pod"
<1>1. Action(r) \in DOMAIN handlers /\ job[r].target \in handlers[Action(r)]
  BY InHand DEF SeenTrue, Action
<1> QED
  BY <1>1, HandlerKinds DEF Scalable

LEMMA UpdateScaleStep ==
  ASSUME IInv, NEW r \in Remediation, NEW lost \in BOOLEAN, UpdateScale(r, lost)
  PROVE  IInv'
<1> DEFINE k == job[r].target
           n == Scaled(job[r].seen.replicas, job[r].plan.increment)
           v == workload[k].version + 1
           w == [workload[k] EXCEPT !.version = v, !.replicas = n]
<1>1. job[r].pc = "write" /\ Action(r) = "scaleUp" /\ job[r].target \in Scalable /\ job[r].target # "Pod"
  BY WriteTarget DEF UpdateScale, Writes
<1>2. workload[k] \in [version : Nat, replicas : 0..MaxInt32, limit : Nat] /\ v \in Nat /\ v > workload[k].version
  BY <1>1, WorkloadType DEF IInv
<1>3. n \in 0..MaxInt32
  <2>1. SeenTrue(job[r]) /\ job[r].plan \in Plans
    BY InHand
  <2>2. job[r].seen.replicas = workload[k].replicas
    BY <1>1, <2>1 DEF SeenTrue, Action, UpdateScale, SameVersion
  <2> QED
    BY <1>2, <2>1, <2>2, PlanType, ScaledFacts
<1>4. workload' = [workload EXCEPT ![k] = w]
  BY DEF UpdateScale
<1> HIDE DEF n, v, k
<1>5. w \in [version : Nat, replicas : 0..MaxInt32, limit : Nat] /\ w.version = v
  BY <1>2, <1>3
<1> HIDE DEF w
<1>6. Newer /\ workload' \in [Scalable -> [version : Nat, replicas : 0..MaxInt32, limit : Nat]]
  BY <1>1, <1>2, <1>4, <1>5, WorkloadWrite DEF k, IInv
<1>7. Numbered(replicaSets)'
  BY DEF IInv, Numbered, UpdateScale
<1> QED
  BY <1>1, <1>6, <1>7, EffectStep DEF UpdateScale, config, IInv, TypeOK

-----------------------------------------------------------------------------
(* AdjustResourceHandler.                                                  *)

\* Rounding up does not lose anything.
LEMMA RoundUpFacts ==
  ASSUME NEW n \in Nat, NEW d \in Nat \ {0}
  PROVE  RoundUp(n, d) \in Nat /\ d * RoundUp(n, d) >= n
<1> DEFINE m == n + d - 1
           q == m \div d
           x == m % d
<1>1. m \in Nat
  OBVIOUS
<1> HIDE DEF m
<1>2. q \in Int /\ x \in 0..(d - 1) /\ m = d * q + x
  BY <1>1
<1> HIDE DEF q, x
<1>3. d * q >= n
  BY <1>2 DEF m
<1>4. q >= 0
  <2> SUFFICES ASSUME q <= -1 PROVE FALSE
    BY <1>2
  <2>1. d * q <= d * (-1) /\ d * (-1) = -d /\ d * q \in Int
    BY <1>2
  <2> DEFINE y == d * q
  <2>2. y \in Int /\ y <= -d /\ y >= n
    BY <1>3, <2>1
  <2> HIDE DEF y
  <2> QED
    BY <2>2
<1> QED
  BY <1>2, <1>3, <1>4 DEF RoundUp, q, m

LEMMA TimesMonotone ==
  ASSUME NEW a \in Nat, NEW b \in Nat, NEW c \in Nat
  PROVE  a * b \in Nat /\ a * (b + c) >= a * b
<1>1. a * b \in Nat /\ a * c \in Nat
  OBVIOUS
<1>2. a * (b + c) = a * b + a * c
  OBVIOUS
<1> QED
  BY <1>1, <1>2

\* The computed limit is not below the current one, except for the cap.
LEMMA IncreaseFacts ==
  ASSUME NEW current \in Nat, NEW percent \in Nat, NEW maxValue \in Nat \cup {NoMax}
  PROVE  LET limit == applyIncrease(current, percent, maxValue)
         IN /\ limit \in Nat
            /\ limit >= current \/ (maxValue # NoMax /\ limit = Unit * maxValue)
<1> DEFINE value == IF current = 0 THEN DefaultLimit ELSE RoundUp(current, Unit)
           more == RoundUp(value * percent, 100)
           limit == applyIncrease(current, percent, maxValue)
<1>1. Unit \in Nat \ {0} /\ DefaultLimit \in Nat
  BY ActionsAssumption
<1>2. value \in Nat /\ Unit * value >= current
  <2>1. CASE current = 0
    <3>1. Unit * DefaultLimit \in Nat
      BY <1>1, TimesMonotone
    <3> QED
      BY <1>1, <2>1, <3>1
  <2>2. CASE current # 0
    BY <1>1, <2>2, RoundUpFacts
  <2> QED
    BY <2>1, <2>2
<1> HIDE DEF value
<1>3. more \in Nat
  <2>1. value * percent \in Nat
    BY <1>2, TimesMonotone
  <2> QED
    BY <2>1, RoundUpFacts
<1> HIDE DEF more
<1>4. /\ value + more \in Nat /\ Unit * (value + more) \in Nat
      /\ Unit * (value + more) >= current /\ Unit * value \in Nat
  <2>1. value + more \in Nat
    BY <1>2, <1>3
  <2>2. Unit * (value + more) \in Nat /\ Unit * value \in Nat /\ Unit * (value + more) >= Unit * value
    BY <1>1, <1>2, <1>3, <2>1, TimesMonotone
  <2> DEFINE a == Unit * (value + more)
             b == Unit * value
  <2>3. a \in Nat /\ b \in Nat /\ a >= b /\ b >= current
    BY <1>2, <2>2
  <2> HIDE DEF a, b
  <2>4. a >= current
    BY <2>3
  <2> QED
    BY <2>1, <2>2, <2>4 DEF a
<1>5. limit = Unit * (IF maxValue # NoMax /\ value + more > maxValue THEN maxValue ELSE value + more)
  BY DEF applyIncrease, value, more
<1> HIDE DEF limit
<1>6. CASE maxValue # NoMax /\ value + more > maxValue
  <2>1. maxValue \in Nat /\ limit = Unit * maxValue
    BY <1>5, <1>6
  <2>2. Unit * maxValue \in Nat
    BY <1>1, <2>1, TimesMonotone
  <2> QED
    BY <1>6, <2>1, <2>2 DEF limit
<1>7. CASE ~(maxValue # NoMax /\ value + more > maxValue)
  <2>1. limit = Unit * (value + more)
    BY <1>5, <1>7
  <2> QED
    BY <1>4, <2>1 DEF limit
<1> QED
  BY <1>6, <1>7

LEMMA PatchLimitsStep ==
  ASSUME IInv, NEW r \in Remediation, NEW lost \in BOOLEAN, PatchLimits(r, lost)
  PROVE  IInv'
<1> DEFINE k == "Deployment"
           n == applyIncrease(job[r].seen.limit, job[r].plan.percent, job[r].plan.maxValue)
           v == workload[k].version + 1
           w == [workload[k] EXCEPT !.version = v, !.limit = n]
<1>1. job[r].pc = "write" /\ Action(r) = "adjustMemory" /\ k \in Scalable /\ job[r].target # "Pod"
  BY WriteTarget DEF PatchLimits, Writes, Scalable
<1>2. workload[k] \in [version : Nat, replicas : 0..MaxInt32, limit : Nat] /\ v \in Nat /\ v > workload[k].version
  BY <1>1, WorkloadType DEF IInv
<1>3. n \in Nat
  <2>1. job[r].seen.limit \in Nat /\ job[r].plan \in Plans
    BY InHand DEF Job, Seen
  <2> QED
    BY <2>1, PlanType, IncreaseFacts
<1>4. workload' = [workload EXCEPT ![k] = w]
  BY DEF PatchLimits
<1> HIDE DEF n, v, k
<1>5. w \in [version : Nat, replicas : 0..MaxInt32, limit : Nat] /\ w.version = v
  BY <1>2, <1>3
<1> HIDE DEF w
<1>6. Newer /\ workload' \in [Scalable -> [version : Nat, replicas : 0..MaxInt32, limit : Nat]]
  BY <1>1, <1>2, <1>4, <1>5, WorkloadWrite DEF IInv
<1>7. Numbered(replicaSets)'
  BY DEF IInv, Numbered, PatchLimits
<1> QED
  BY <1>1, <1>6, <1>7, EffectStep DEF PatchLimits, config, IInv, TypeOK

-----------------------------------------------------------------------------
(* Revisions.                                                              *)

\* The newest of numbered ReplicaSets.
LEMMA NewestFacts ==
  ASSUME NEW list \in Seq([id : Nat, revision : Nat]), Numbered(list)
  PROVE  /\ Newest(list) \in Nat
         /\ \A i \in 1..Len(list) : list[i].revision \in Nat /\ list[i].id \in Nat
         /\ \A i \in 1..Len(list) : list[i].revision <= Newest(list)
         /\ \E i \in 1..Len(list) : list[i].revision = Newest(list)
<1> DEFINE RS == [id : Nat, revision : Nat]
<1>1. \A i \in 1..Len(list) : list[i] \in RS
  <2> HIDE DEF RS
  <2>1. list \in Seq(RS)
    BY DEF RS
  <2> QED
    BY <2>1
<1>2. \A i \in 1..Len(list) : list[i].revision \in Nat /\ list[i].id \in Nat
  BY <1>1
<1>3. PICK i \in 1..Len(list) : \A j \in 1..Len(list) : list[j].revision <= list[i].revision
  BY DEF Numbered
<1>4. list[i].revision \in Revisions(list) /\ \A m \in Revisions(list) : m <= list[i].revision
  BY <1>3 DEF Revisions
<1>5. Newest(list) \in Revisions(list) /\ \A m \in Revisions(list) : m <= Newest(list)
  BY <1>4 DEF Newest
<1> QED
  BY <1>2, <1>5 DEF Revisions

\* The deployment controller gives the chosen ReplicaSet the next revision.
LEMMA RenumberedFacts ==
  ASSUME IInv, NEW id \in Nat, replicaSets' = Renumbered(id)
  PROVE  replicaSets' \in Seq([id : Nat, revision : Nat]) /\ Numbered(replicaSets)'
<1> DEFINE RS == [id : Nat, revision : Nat]
           n == Len(replicaSets)
           top == Newest(replicaSets)
<1>1. /\ replicaSets \in Seq(RS) /\ Numbered(replicaSets) /\ n \in Nat /\ top \in Nat
      /\ \A i \in 1..n : replicaSets[i].revision \in Nat /\ replicaSets[i].id \in Nat
      /\ \A i \in 1..n : replicaSets[i].revision <= top
      /\ \E i \in 1..n : replicaSets[i].revision = top
  BY NewestFacts DEF IInv, TypeOK
<1>2. replicaSets' = [i \in 1..n |->
        IF replicaSets[i].id = id /\ replicaSets[i].revision # top
        THEN [id |-> id, revision |-> top + 1] ELSE replicaSets[i]]
  BY DEF Renumbered
<1> HIDE DEF n, top
<1>3. ASSUME NEW i \in 1..n
      PROVE  /\ replicaSets'[i] \in RS /\ replicaSets'[i].id = replicaSets[i].id
             /\ replicaSets'[i].revision = IF replicaSets[i].id = id /\ replicaSets[i].revision # top
                                           THEN top + 1 ELSE replicaSets[i].revision
  <2>1. replicaSets[i] \in RS
    <3> HIDE DEF RS
    <3> QED
      BY <1>1 DEF n
  <2>2. top + 1 \in Nat
    BY <1>1
  <2> QED
    BY <1>2, <2>1, <2>2
<1>4. replicaSets' \in [1..n -> RS]
  <2> HIDE DEF RS
  <2> QED
    BY <1>2, <1>3
<1>5. replicaSets' \in Seq(RS) /\ Len(replicaSets') = n
  <2> HIDE DEF RS
  <2>1. replicaSets' \in Seq(RS)
    BY <1>1, <1>4, SeqDef
  <2> QED
    BY <1>1, <1>4, <2>1
<1> HIDE DEF RS
<1>6. \A i \in 1..n : replicaSets'[i].id \in 1..n
  BY <1>1, <1>3 DEF Numbered, n
<1>7. ASSUME NEW i \in 1..n, NEW j \in 1..n, i # j
      PROVE  replicaSets'[i].id # replicaSets'[j].id /\ replicaSets'[i].revision # replicaSets'[j].revision
  <2>1. replicaSets[i].id # replicaSets[j].id /\ replicaSets[i].revision # replicaSets[j].revision
    BY <1>1, <1>7 DEF Numbered, n
  <2> QED
    BY <1>1, <1>3, <2>1, SMTT(30)
<1>8. \E i \in 1..n : \A j \in 1..n : replicaSets'[j].revision <= replicaSets'[i].revision
  <2>1. \A j \in 1..n : replicaSets'[j].revision <= top + 1
    BY <1>1, <1>3
  <2>2. CASE \E i \in 1..n : replicaSets[i].id = id /\ replicaSets[i].revision # top
    BY <1>3, <2>1, <2>2
  <2>3. CASE ~ \E i \in 1..n : replicaSets[i].id = id /\ replicaSets[i].revision # top
    <3>1. \A j \in 1..n : replicaSets'[j].revision = replicaSets[j].revision
      BY <1>3, <2>3
    <3>2. PICK i \in 1..n : replicaSets[i].revision = top
      BY <1>1
    <3>3. \A j \in 1..n : replicaSets'[j].revision <= replicaSets'[i].revision
      BY <1>1, <3>1, <3>2
    <3> QED
      BY <3>3
  <2> QED
    BY <2>2, <2>3
<1> QED
  BY <1>5, <1>6, <1>7, <1>8 DEF Numbered, RS

\* A rollout adds a ReplicaSet with a new name and the next revision.
LEMMA RolloutFacts ==
  ASSUME IInv, NEW first \in BOOLEAN, Rollout(first)
  PROVE  replicaSets' \in Seq([id : Nat, revision : Nat]) /\ Numbered(replicaSets)'
<1> DEFINE RS == [id : Nat, revision : Nat]
           n == Len(replicaSets)
           top == Newest(replicaSets)
           rs == [id |-> n + 1, revision |-> top + 1]
<1>1. /\ replicaSets \in Seq(RS) /\ Numbered(replicaSets) /\ n \in Nat /\ top \in Nat
      /\ \A i \in 1..n : replicaSets[i].revision \in Nat /\ replicaSets[i].id \in Nat
      /\ \A i \in 1..n : replicaSets[i].revision <= top
  BY NewestFacts DEF IInv, TypeOK
<1>2. replicaSets' = <<rs>> \o replicaSets \/ replicaSets' = Append(replicaSets, rs)
  BY DEF Rollout
<1>3. rs \in RS /\ rs.id = n + 1 /\ rs.revision = top + 1
  BY <1>1
<1> HIDE DEF rs, RS
\* Where the old ones are, and the new one.
<1>4. \E p \in 1..(n + 1) :
        /\ replicaSets' \in Seq(RS) /\ Len(replicaSets') = n + 1 /\ replicaSets'[p] = rs
        /\ \A i \in 1..(n + 1) : i # p => replicaSets'[i] = replicaSets[IF i < p THEN i ELSE i - 1]
  <2>1. CASE replicaSets' = <<rs>> \o replicaSets
    <3>1. <<rs>> \in Seq(RS) /\ Len(<<rs>>) = 1 /\ <<rs>>[1] = rs
      BY <1>3
    <3>2. /\ replicaSets' \in Seq(RS) /\ Len(replicaSets') = n + 1 /\ replicaSets'[1] = rs
          /\ \A i \in 1..(n + 1) : i # 1 => replicaSets'[i] = replicaSets[i - 1]
      BY <1>1, <2>1, <3>1, ConcatProperties
    <3> QED
      BY <1>1, <3>2
  <2>2. CASE replicaSets' = Append(replicaSets, rs)
    <3>1. /\ replicaSets' \in Seq(RS) /\ Len(replicaSets') = n + 1 /\ replicaSets'[n + 1] = rs
          /\ \A i \in 1..n : replicaSets'[i] = replicaSets[i]
      BY <1>1, <1>3, <2>2
    <3> QED
      BY <1>1, <3>1
  <2> QED
    BY <1>2, <2>1, <2>2
<1>5. PICK p \in 1..(n + 1) :
        /\ replicaSets' \in Seq(RS) /\ Len(replicaSets') = n + 1 /\ replicaSets'[p] = rs
        /\ \A i \in 1..(n + 1) : i # p => replicaSets'[i] = replicaSets[IF i < p THEN i ELSE i - 1]
  BY <1>4
<1>6. /\ \A i \in 1..n : replicaSets[i].id \in 1..n
      /\ \A i, j \in 1..n : i # j => /\ replicaSets[i].id # replicaSets[j].id
                                     /\ replicaSets[i].revision # replicaSets[j].revision
  BY <1>1 DEF Numbered
<1> DEFINE old(i) == IF i < p THEN i ELSE i - 1
<1> HIDE DEF n, top
<1>7. \A i \in 1..(n + 1) : i # p => old(i) \in 1..n /\ replicaSets'[i] = replicaSets[old(i)]
  BY <1>1, <1>5
<1>8. \A i, j \in 1..(n + 1) : i # j /\ i # p /\ j # p => old(i) # old(j)
  BY <1>1
<1> HIDE DEF old
<1>9. \A i \in 1..(n + 1) : replicaSets'[i].id \in 1..(n + 1)
  BY <1>1, <1>3, <1>5, <1>6, <1>7
<1>12. ASSUME NEW i \in 1..(n + 1), i # p
       PROVE  /\ replicaSets'[i].id # replicaSets'[p].id /\ replicaSets'[i].revision # replicaSets'[p].revision
              /\ replicaSets'[i].revision <= replicaSets'[p].revision
  <2>1. old(i) \in 1..n /\ replicaSets'[i] = replicaSets[old(i)]
    BY <1>7, <1>12
  <2>2. /\ replicaSets'[i].id \in 1..n /\ replicaSets'[i].revision \in Nat /\ replicaSets'[i].revision <= top
        /\ replicaSets'[p].id = n + 1 /\ replicaSets'[p].revision = top + 1
    BY <1>1, <1>3, <1>5, <1>6, <2>1
  <2> QED
    BY <1>1, <2>2
<1>10. ASSUME NEW i \in 1..(n + 1), NEW j \in 1..(n + 1), i # j
       PROVE  replicaSets'[i].id # replicaSets'[j].id /\ replicaSets'[i].revision # replicaSets'[j].revision
  <2>1. CASE i # p /\ j # p
    BY <1>6, <1>7, <1>8, <1>10, <2>1
  <2>2. CASE i = p
    BY <1>10, <1>12, <2>2
  <2>3. CASE j = p
    BY <1>10, <1>12, <2>3
  <2> QED
    BY <2>1, <2>2, <2>3
<1>11. \A j \in 1..(n + 1) : replicaSets'[j].revision <= replicaSets'[p].revision
  <2>1. replicaSets'[p].revision <= replicaSets'[p].revision
    BY <1>1, <1>3, <1>5
  <2> QED
    BY <1>12, <2>1
<1> QED
  BY <1>5, <1>9, <1>10, <1>11 DEF Numbered, RS

\* The ReplicaSet that RollbackHandler takes from the list is not the newest.
LEMMA PreviousFacts ==
  ASSUME NEW list \in Seq([id : Nat, revision : Nat]), Numbered(list), Len(list) >= 2
  PROVE  /\ PreviousRevision(list).id \in Nat
         /\ PreviousRevision(list).revision # Newest(list)
<1> DEFINE RS == [id : Nat, revision : Nat]
           n == Len(list)
           base == [max |-> 0, second |-> 0, prev |-> <<>>]
           V == [max : Nat, second : Nat, prev : {<<>>} \cup {<<rs>> : rs \in RS}]
           Is(g) == g = [s \in SUBSET (1..n) |-> IF s = {} THEN base ELSE Turn(g[s \ {Max(s)}], list[Max(s)])]
           G == CHOOSE g : Is(g)
<1>1. n \in Nat /\ DOMAIN list = 1..n /\ \A i \in 1..n : list[i] \in RS
  <2> HIDE DEF RS
  <2>1. list \in Seq(RS)
    BY DEF RS
  <2> QED
    BY <2>1
<1>2. base \in V
  OBVIOUS
<1>3. ASSUME NEW v \in V, NEW rs \in RS PROVE Turn(v, rs) \in V
  BY DEF Turn
<1>4. FoldLeft(Turn, base, list) = G[1..n]
  BY <1>1 DEF FoldLeft, MapThenFoldSet
<1>5. \E g : Is(g)
  <2> DEFINE h == [p \in (1..n) \X V |-> Turn(p[2], list[p[1]])]
  <2>1. h \in [(1..n) \X V -> V]
    <3> HIDE DEF V, RS, n
    <3> QED
      BY <1>1, <1>3
  <2> HIDE DEF V, RS, base
  <2>2. PICK g \in [SUBSET (1..n) -> V] : FoldsIndices(g, n, base, h)
    <3>1. n \in Nat
      BY <1>1
    <3> HIDE DEF h, n
    <3> QED
      BY <1>2, <2>1, <3>1, IndexFold
  <2>3. ASSUME NEW s \in SUBSET (1..n), s # {}
        PROVE  h[<<Max(s), g[s \ {Max(s)}]>>] = Turn(g[s \ {Max(s)}], list[Max(s)])
    <3>1. Max(s) \in 1..n /\ s \ {Max(s)} \in SUBSET (1..n)
      BY <1>1, <2>3, MaxIndex
    <3>2. g[s \ {Max(s)}] \in V
      BY <2>2, <3>1
    <3> QED
      BY <3>1, <3>2
  <2>4. ASSUME NEW s \in SUBSET (1..n)
        PROVE  g[s] = IF s = {} THEN base ELSE Turn(g[s \ {Max(s)}], list[Max(s)])
    BY <2>2, <2>3 DEF FoldsIndices
  <2>5. Is(g)
    BY <2>2, <2>4
  <2> QED
    BY <2>5
<1>6. Is(G)
  BY <1>5
<1> HIDE DEF G
<1>7. /\ G[1..0] = base
      /\ \A i \in 1..n : G[1..i] = Turn(G[1..(i - 1)], list[i])
  <2>1. 1..0 = {} /\ G[{}] = base
    BY <1>6
  <2>2. ASSUME NEW i \in 1..n PROVE G[1..i] = Turn(G[1..(i - 1)], list[i])
    <3>1. 1..i \in SUBSET (1..n) /\ 1..i # {} /\ Max(1..i) = i /\ (1..i) \ {i} = 1..(i - 1)
      BY <1>1, MaxOfFirst
    <3>2. G[1..i] = Turn(G[(1..i) \ {Max(1..i)}], list[Max(1..i)])
      BY <1>6, <3>1
    <3> QED
      BY <3>1, <3>2
  <2> QED
    BY <2>1, <2>2
<1> HIDE DEF Is
\* The loop keeps the highest revision so far, and never a previous one: a revision it has
\* taken for the second highest does not come again.
<1> DEFINE Loop(i, v) ==
             /\ v \in V /\ v.prev = <<>>
             /\ \A m \in 1..i : list[m].revision <= v.max
             /\ (v.max = 0 /\ i = 0) \/ \E m \in 1..i : v.max = list[m].revision
             /\ v.second = 0 \/ \E m \in 1..i : v.second = list[m].revision
           T == {i \in 0..n : Loop(i, G[1..i])}
<1>8. 0 \in T
  BY <1>1, <1>2, <1>7
<1>9. ASSUME NEW i \in 0..(n - 1), i \in T PROVE i + 1 \in T
  <2> DEFINE v == G[1..i]
             rs == list[i + 1]
             w == Turn(v, rs)
  <2>1. G[1..(i + 1)] = w
    BY <1>1, <1>7
  <2>2. Loop(i, v)
    BY <1>9
  <2>3. i \in Nat /\ i + 1 \in 1..n /\ 1..i \subseteq 1..n /\ 1..(i + 1) = (1..i) \cup {i + 1}
    BY <1>1, SMTT(30)
  <2>4. rs \in RS /\ rs.revision \in Nat /\ v \in V /\ v.max \in Nat /\ v.second \in Nat
    BY <1>1, <2>2, <2>3
  <2>5. ASSUME NEW m \in 1..i PROVE list[m].revision # rs.revision /\ list[m].revision \in Nat
    <3>1. m \in 1..n /\ m # i + 1 /\ list[m] \in RS
      BY <1>1, <2>3
    <3> QED
      BY <2>3, <3>1 DEF Numbered
  <2>6. w \in V
    BY <1>3, <2>4
  <2>7. CASE rs.revision > v.max
    <3>1. w = [max |-> rs.revision, second |-> v.max, prev |-> <<>>]
      BY <2>4, <2>7, SMTT(30) DEF Turn
    <3>2. w.max = rs.revision /\ w.second = v.max /\ w.prev = <<>>
      BY <3>1
    <3> HIDE DEF v, w, V, RS, rs, n
    <3>3. \A m \in 1..(i + 1) : list[m].revision <= w.max
      <4>1. \A m \in 1..i : list[m].revision <= v.max
        BY <2>2
      <4>2. \A m \in 1..i : list[m].revision <= rs.revision
        BY <2>4, <2>5, <2>7, <4>1, SMTT(30)
      <4>3. rs.revision <= rs.revision
        BY <2>4
      <4> QED
        BY <2>3, <3>2, <4>2, <4>3 DEF rs
    <3>4. w.second = 0 \/ \E m \in 1..(i + 1) : w.second = list[m].revision
      BY <2>2, <2>3, <3>2
    <3>5. \E m \in 1..(i + 1) : w.max = list[m].revision
      BY <2>3, <3>2 DEF rs
    <3>6. Loop(i + 1, w)
      BY <2>6, <3>2, <3>3, <3>4, <3>5
    <3> QED
      BY <1>1, <2>1, <2>3, <3>6, SMTT(30) DEF w, v
  <2>8. CASE ~(rs.revision > v.max)
    <3>1. ~(rs.revision = v.second /\ rs.revision > 0)
      BY <2>2, <2>4, <2>5, SMTT(30)
    <3>2. w = v
      BY <2>8, <3>1 DEF Turn
    <3> HIDE DEF v, w, V, RS, rs, n
    <3>3. \A m \in 1..(i + 1) : list[m].revision <= w.max
      <4>1. \A m \in 1..i : list[m].revision <= v.max
        BY <2>2
      <4>2. rs.revision <= v.max
        BY <2>4, <2>8
      <4> QED
        BY <2>3, <3>2, <4>1, <4>2 DEF rs
    <3>4. w.second = 0 \/ \E m \in 1..(i + 1) : w.second = list[m].revision
      BY <2>2, <2>3, <3>2
    <3>5. \E m \in 1..(i + 1) : w.max = list[m].revision
      <4>1. CASE i = 0 /\ v.max = 0
        BY <2>3, <2>4, <2>8, <3>2, <4>1 DEF rs
      <4>2. CASE \E m \in 1..i : v.max = list[m].revision
        BY <2>3, <3>2, <4>2
      <4> QED
        BY <2>2, <4>1, <4>2
    <3>6. Loop(i + 1, w)
      BY <2>2, <2>6, <3>2, <3>3, <3>4, <3>5
    <3> QED
      BY <1>1, <2>1, <2>3, <3>6, SMTT(30) DEF w, v
  <2> QED
    BY <2>7, <2>8
<1>10. Loop(n, G[1..n])
  <2>1. n \in Nat
    BY <1>1
  <2> HIDE DEF T, n
  <2>2. \A i \in 0..(n - 1) : i \in T => i + 1 \in T
    BY <1>9
  <2>3. \A i \in 0..n : i \in T
    BY <1>8, <2>1, <2>2, BoundedInduction
  <2>4. n \in T
    BY <2>1, <2>3
  <2> QED
    BY <2>4 DEF T
<1> DEFINE found == G[1..n]
<1>11. PreviousRevision(list) = IF list[1].revision = found.max THEN list[2] ELSE list[1]
  BY <1>4, <1>10 DEF PreviousRevision
<1>12. found.max = Newest(list)
  <2>1. /\ \A i \in 1..n : list[i].revision <= Newest(list) /\ list[i].revision \in Nat
        /\ \E i \in 1..n : list[i].revision = Newest(list)
    BY NewestFacts
  <2>2. n # 0
    BY <1>1
  <2> HIDE DEF n, V
  <2>3. /\ \A m \in 1..n : list[m].revision <= found.max
        /\ \E m \in 1..n : found.max = list[m].revision
    BY <1>10, <2>2
  <2> HIDE DEF found
  <2>4. PICK i \in 1..n : list[i].revision = Newest(list)
    BY <2>1
  <2>5. PICK m \in 1..n : list[m].revision = found.max
    BY <2>3
  <2>6. list[i].revision <= list[m].revision /\ list[m].revision <= list[i].revision
    BY <2>1, <2>3, <2>4, <2>5
  <2>7. list[i].revision \in Nat /\ list[m].revision \in Nat
    BY <2>1
  <2> QED
    BY <2>4, <2>5, <2>6, <2>7
<1>13. 1 \in 1..n /\ 2 \in 1..n /\ list[1].revision # list[2].revision /\ list[1].id \in Nat /\ list[2].id \in Nat
  <2>1. 1 \in 1..n /\ 2 \in 1..n
    BY <1>1
  <2>2. list[1] \in RS /\ list[2] \in RS
    BY <1>1, <2>1
  <2>3. list[1].id \in Nat /\ list[2].id \in Nat
    BY <2>2
  <2>4. list[1].revision # list[2].revision
    BY <2>1 DEF Numbered
  <2> QED
    BY <2>1, <2>3, <2>4
<1> HIDE DEF found
<1> QED
  BY <1>11, <1>12, <1>13

LEMMA PatchTemplateStep ==
  ASSUME IInv, NEW r \in Remediation, NEW lost \in BOOLEAN, PatchTemplate(r, lost)
  PROVE  IInv'
<1> DEFINE k == "Deployment"
           v == workload[k].version + 1
           w == [workload[k] EXCEPT !.version = v]
           id == PreviousRevision(job[r].seen.list).id
<1>1. job[r].pc = "write" /\ Action(r) = "rollbackToPrevious" /\ k \in Scalable /\ job[r].target # "Pod"
  BY WriteTarget DEF PatchTemplate, Writes, Scalable
<1>2. workload[k] \in [version : Nat, replicas : 0..MaxInt32, limit : Nat] /\ v \in Nat /\ v > workload[k].version
  BY <1>1, WorkloadType DEF IInv
<1>3. workload' = [workload EXCEPT ![k] = w] /\ replicaSets' = Renumbered(id)
  BY DEF PatchTemplate
<1>4. id \in Nat
  <2>1. Len(job[r].seen.list) >= 2 /\ Numbered(job[r].seen.list)
    BY <1>1, InHand DEF SeenTrue, Action
  <2>2. job[r].seen.list \in Seq([id : Nat, revision : Nat])
    BY InHand DEF Job, Seen
  <2> QED
    BY <2>1, <2>2, PreviousFacts
<1> HIDE DEF v, k, id
<1>5. w \in [version : Nat, replicas : 0..MaxInt32, limit : Nat] /\ w.version = v
  BY <1>2
<1> HIDE DEF w
<1>6. Newer /\ workload' \in [Scalable -> [version : Nat, replicas : 0..MaxInt32, limit : Nat]]
  BY <1>1, <1>2, <1>3, <1>5, WorkloadWrite DEF IInv
<1>7. replicaSets' \in Seq([id : Nat, revision : Nat]) /\ Numbered(replicaSets)'
  BY <1>3, <1>4, RenumberedFacts
<1> QED
  BY <1>1, <1>6, <1>7, EffectStep DEF PatchTemplate, config, IInv, TypeOK

-----------------------------------------------------------------------------
(* Others.                                                                 *)

\* A step of others changes objects, and what remediations read grows older.
LEMMA OthersStep ==
  ASSUME IInv, UNCHANGED <<mode, dryRun, owner, job, faults, effects>>, edits' \in 0..MaxEdits,
         pod' \in BOOLEAN, Newer,
         workload' \in [Scalable -> [version : Nat, replicas : 0..MaxInt32, limit : Nat]],
         replicaSets' \in Seq([id : Nat, revision : Nat]), Numbered(replicaSets)'
  PROVE  IInv'
<1>1. TypeOK'
  BY DEF IInv, TypeOK
<1>2. ASSUME NEW r \in Remediation PROVE ProgressTrue(job[r], effects[r])' /\ SeenTrue(job[r])'
  <2>1. job[r] \in Job /\ SeenTrue(job[r]) /\ ProgressTrue(job[r], effects[r])
    BY DEF IInv, TypeOK
  <2>2. SeenTrue(job[r])'
    BY <2>1, SeenLasts DEF SeenTrue
  <2> QED
    BY <2>1, <2>2 DEF ProgressTrue
<1> QED
  BY <1>1, <1>2 DEF IInv

LEMMA EditSteps ==
  ASSUME IInv,
         \/ \E k \in Scalable : \E e \in Edits : EditWorkload(k, e.replicas, e.limit)
         \/ \E first \in BOOLEAN : Rollout(first)
         \/ PodChange
  PROVE  IInv'
<1> USE DEF config
<1>1. Edit => edits' \in 0..MaxEdits /\ UNCHANGED <<mode, dryRun, owner, job, faults, effects>>
  BY ActionsAssumption DEF Edit, IInv, TypeOK
<1>2. /\ pod \in BOOLEAN /\ workload \in [Scalable -> [version : Nat, replicas : 0..MaxInt32, limit : Nat]]
      /\ replicaSets \in Seq([id : Nat, revision : Nat]) /\ Numbered(replicaSets)
  BY DEF IInv, TypeOK
<1>3. UNCHANGED replicaSets => replicaSets' \in Seq([id : Nat, revision : Nat]) /\ Numbered(replicaSets)'
  BY <1>2 DEF Numbered
<1>4. ASSUME NEW k \in Scalable, NEW e \in Edits, EditWorkload(k, e.replicas, e.limit) PROVE IInv'
  <2> DEFINE v == workload[k].version + 1
             w == [version |-> v, replicas |-> e.replicas, limit |-> e.limit]
  <2>1. v \in Nat /\ v > workload[k].version /\ e.replicas \in 0..MaxInt32 /\ e.limit \in Nat
    BY WorkloadType, ActionsAssumption DEF IInv
  <2>2. workload' = [workload EXCEPT ![k] = w]
    BY <1>4 DEF EditWorkload
  <2> HIDE DEF v
  <2>3. w \in [version : Nat, replicas : 0..MaxInt32, limit : Nat] /\ w.version = v
    BY <2>1
  <2> HIDE DEF w
  <2>4. Newer /\ workload' \in [Scalable -> [version : Nat, replicas : 0..MaxInt32, limit : Nat]]
    BY <2>1, <2>2, <2>3, WorkloadWrite DEF IInv
  <2> QED
    BY <1>1, <1>2, <1>3, <1>4, <2>4, OthersStep DEF EditWorkload
<1>5. ASSUME NEW first \in BOOLEAN, Rollout(first) PROVE IInv'
  <2> DEFINE v == workload["Deployment"].version + 1
             w == [workload["Deployment"] EXCEPT !.version = v]
  <2>1. "Deployment" \in Scalable
    BY DEF Scalable
  <2>2. v \in Nat /\ v > workload["Deployment"].version
    BY <2>1, WorkloadType DEF IInv
  <2>3. workload' = [workload EXCEPT !["Deployment"] = w]
    BY <1>5 DEF Rollout
  <2> HIDE DEF v
  <2>4. w \in [version : Nat, replicas : 0..MaxInt32, limit : Nat] /\ w.version = v
    BY <1>2, <2>1, <2>2
  <2> HIDE DEF w
  <2>5. Newer /\ workload' \in [Scalable -> [version : Nat, replicas : 0..MaxInt32, limit : Nat]]
    BY <2>1, <2>2, <2>3, <2>4, WorkloadWrite DEF IInv
  <2>6. replicaSets' \in Seq([id : Nat, revision : Nat]) /\ Numbered(replicaSets)'
    BY <1>5, RolloutFacts
  <2> QED
    BY <1>1, <1>2, <1>5, <2>5, <2>6, OthersStep DEF Rollout
<1>6. CASE PodChange
  <2>1. Newer /\ pod' \in BOOLEAN
    BY <1>6 DEF PodChange, Newer
  <2> QED
    BY <1>1, <1>2, <1>3, <1>6, <2>1, OthersStep DEF PodChange
<1> QED
  BY <1>4, <1>5, <1>6

-----------------------------------------------------------------------------
(* The invariant.                                                          *)

\* A remediation that has not begun has changed nothing.
LEMMA NewJobFacts ==
  ASSUME NEW p \in Plans, NEW e, e = [i \in 1..Len(p.actions) |-> 0]
  PROVE  /\ NewJob(p) \in Job /\ NewJob(p).i \in 1..Len(p.actions) /\ NewJob(p).done \in 0..NewJob(p).i
         /\ e \in Seq(Nat) /\ Len(e) = Len(p.actions)
         /\ ProgressTrue(NewJob(p), e) /\ SeenTrue(NewJob(p))
<1> DEFINE j == NewJob(p)
<1>1. /\ j.pc = "new" /\ j.plan = p /\ j.target = p.resource /\ j.i = 1 /\ j.attempt = 0
      /\ j.seen = NotSeen /\ j.done = 0 /\ j.status = "none"
  BY DEF NewJob
<1>2. Len(p.actions) \in Nat \ {0} /\ p.resource \in Kind
  BY PlanType
<1>3. j \in Job
  <2>1. 0 \in 0..(maxRetries - 1)
    BY ActionsAssumption
  <2> HIDE DEF Seen, NotSeen
  <2> QED
    BY <1>2, <2>1, NotSeenType DEF NewJob, Job
<1>4. e \in Seq(Nat) /\ Len(e) = Len(p.actions)
  <2> DEFINE n == Len(p.actions)
  <2>1. n \in Nat /\ e = [i \in 1..n |-> 0]
    BY <1>2
  <2> HIDE DEF n
  <2> QED
    BY <2>1 DEF n
<1>5. \A m \in 1..Len(p.actions) : e[m] = 0
  OBVIOUS
<1> HIDE DEF j
<1>6. ProgressTrue(j, e) /\ SeenTrue(j)
  BY <1>1, <1>2, <1>5 DEF ProgressTrue, SeenTrue
<1> QED
  BY <1>1, <1>2, <1>3, <1>4, <1>6 DEF j

\* The first revisions are numbered.
LEMMA FirstRevisions ==
  ASSUME NEW list, list \in {<<[id |-> 1, revision |-> 1]>>,
                             <<[id |-> 1, revision |-> 1], [id |-> 2, revision |-> 2]>>}
  PROVE  list \in Seq([id : Nat, revision : Nat]) /\ Numbered(list)
<1> DEFINE RS == [id : Nat, revision : Nat]
<1>1. PICK a \in RS, b \in RS : a = [id |-> 1, revision |-> 1] /\ b = [id |-> 2, revision |-> 2]
  OBVIOUS
<1>2. a.id = 1 /\ a.revision = 1 /\ b.id = 2 /\ b.revision = 2
  BY <1>1
<1>3. list = <<a>> \/ list = <<a, b>>
  BY <1>1
<1>4. list \in Seq(RS)
  <2>1. a \in RS /\ b \in RS
    OBVIOUS
  <2> HIDE DEF RS
  <2>2. <<a>> \in Seq(RS) /\ <<a, b>> \in Seq(RS)
    BY <2>1
  <2> QED
    BY <1>3, <2>2
<1>5. Numbered(list)
  <2>1. CASE list = <<a>>
    <3>1. Len(list) = 1 /\ list[1] = a
      BY <2>1
    <3> QED
      BY <1>2, <3>1 DEF Numbered
  <2>2. CASE list = <<a, b>>
    <3>1. Len(list) = 2 /\ list[1] = a /\ list[2] = b
      BY <2>2
    <3>2. \A i \in 1..Len(list) : i = 1 \/ i = 2
      BY <3>1
    <3>3. 1 \in 1..Len(list) /\ 2 \in 1..Len(list)
      BY <3>1
    <3>4. \A j \in 1..Len(list) : list[j].revision <= list[2].revision
      BY <1>2, <3>1, <3>2
    <3> QED
      BY <1>2, <3>1, <3>2, <3>3, <3>4 DEF Numbered
  <2> QED
    BY <1>3, <2>1, <2>2
<1> QED
  BY <1>4, <1>5

LEMMA InitIInv == Init => IInv
<1> SUFFICES ASSUME Init PROVE IInv
  OBVIOUS
<1>1. workload \in [Scalable -> [version : Nat, replicas : 0..MaxInt32, limit : Nat]]
  BY ActionsAssumption DEF Init
<1>2. replicaSets \in Seq([id : Nat, revision : Nat]) /\ Numbered(replicaSets)
  BY FirstRevisions DEF Init
<1>3. faults \in 0..MaxFaults /\ edits \in 0..MaxEdits
  BY ActionsAssumption DEF Init
<1>4. ASSUME NEW r \in Remediation
      PROVE  /\ job[r] \in Job /\ job[r].i \in 1..Len(job[r].plan.actions) /\ job[r].done \in 0..job[r].i
             /\ effects[r] \in Seq(Nat) /\ Len(effects[r]) = Len(job[r].plan.actions)
             /\ ProgressTrue(job[r], effects[r]) /\ SeenTrue(job[r])
  <2>1. PICK p \in Plans : job[r] = NewJob(p)
    BY DEF Init
  <2>2. job[r].plan = p
    BY <2>1 DEF NewJob
  <2>3. effects[r] = [i \in 1..Len(p.actions) |-> 0]
    BY <2>2 DEF Init
  <2> QED
    BY <2>1, <2>2, <2>3, NewJobFacts
<1>5. job \in [Remediation -> Job] /\ effects \in [Remediation -> Seq(Nat)]
  <2>1. DOMAIN job = Remediation /\ job = [r \in Remediation |-> job[r]]
    BY DEF Init
  <2>2. effects = [r \in Remediation |-> [i \in 1..Len(job[r].plan.actions) |-> 0]]
    BY DEF Init
  <2> QED
    BY <1>4, <2>1, <2>2
<1>6. TypeOK
  BY <1>1, <1>2, <1>3, <1>4, <1>5 DEF TypeOK, Init
<1> QED
  BY <1>2, <1>4, <1>6 DEF IInv

\* Every step keeps the invariant.
LEMMA NextIInv == IInv /\ [Next]_avars => IInv'
<1> SUFFICES ASSUME IInv, [Next]_avars PROVE IInv'
  OBVIOUS
<1>1. ASSUME NEW r \in Remediation, Step(r) \/ ClaimTask(r) PROVE IInv'
  <2>1. CASE Notify(r) \/ PatchConflict(r)
    BY <2>1, NotifyStep, ConflictStep
  <2>2. CASE Reject(r) \/ CallFails(r) \/ NotFound(r) \/ ScaleConflict(r)
    BY <2>2, FailingSteps
  <2>3. CASE GetScale(r) \/ GetDeployment(r) \/ ListReplicaSets(r)
    BY <2>3, ReadingSteps
  <2>4. CASE \E lost \in BOOLEAN :
               RestartPod(r, lost) \/ UpdateScale(r, lost) \/ PatchLimits(r, lost) \/ PatchTemplate(r, lost)
    BY <2>4, RestartPodStep, UpdateScaleStep, PatchLimitsStep, PatchTemplateStep
  <2>5. CASE \/ ExecuteActions(r) \/ PublishFails(r) \/ ClaimTask(r)
             \/ \E ok \in BOOLEAN : PublishTask(r, ok) \/ RetryWithOwner(r, ok)
    BY <2>5, ControllerSteps
  <2> QED
    BY <1>1, <2>1, <2>2, <2>3, <2>4, <2>5 DEF Step
<1>2. CASE Next
  BY <1>1, <1>2, EditSteps DEF Next
<1>3. CASE UNCHANGED avars
  <2>1. UNCHANGED <<mode, dryRun, owner, pod, workload, replicaSets, job, faults, edits, effects>>
    BY <1>3 DEF avars
  <2>2. TypeOK' /\ Numbered(replicaSets)'
    BY <2>1 DEF IInv, TypeOK, Numbered
  <2>3. ASSUME NEW r \in Remediation PROVE ProgressTrue(job[r], effects[r])' /\ SeenTrue(job[r])'
    <3>1. ProgressTrue(job[r], effects[r]) /\ SeenTrue(job[r])
      BY DEF IInv
    <3> QED
      BY <2>1, <3>1, SMTT(30) DEF ProgressTrue, SeenTrue, Numbered
  <2> QED
    BY <2>2, <2>3 DEF IInv
<1> QED
  BY <1>2, <1>3

\* Remediations are where their effects say, and know what they read.
THEOREM Invariance == Spec => []IInv
BY InitIInv, NextIInv, PTL DEF Spec

\* Type correctness of the cluster's objects and of what the handlers carry.
THEOREM TypeCorrect == Spec => []TypeOK
BY Invariance, PTL DEF IInv

\* An action changes the cluster at most once, with any retries and lost replies.
THEOREM AtMostOnce == Spec => []EffectAtMostOnce
<1>1. IInv => EffectAtMostOnce
  BY DEF IInv, TypeOK, ProgressTrue, EffectAtMostOnce
<1> QED
  BY <1>1, Invariance, PTL

\* A completed action did change the cluster, and nothing behind a failed one did.
THEOREM TrueOutcome == Spec => []OutcomeIsTrue
<1>1. IInv => OutcomeIsTrue
  <2> SUFFICES ASSUME IInv, NEW r \in Remediation, NEW i \in 1..Len(job[r].plan.actions)
               PROVE  /\ i <= job[r].done /\ job[r].plan.actions[i] # "notify" => effects[r][i] = 1
                      /\ i > job[r].done + 1 => effects[r][i] = 0
    BY DEF OutcomeIsTrue
  <2>1. ProgressTrue(job[r], effects[r]) /\ job[r].i \in Nat /\ job[r].done \in Nat
    BY DEF IInv, TypeOK, Job
  <2> QED
    BY <2>1 DEF ProgressTrue
<1> QED
  BY <1>1, Invariance, PTL

\* A rollback never goes to the newest revision of the list it works on.
THEOREM GoesBack == Spec => []RollbackGoesBack
<1>1. IInv => RollbackGoesBack
  <2> SUFFICES ASSUME IInv, NEW r \in Remediation, Writes(r, "rollbackToPrevious")
               PROVE  PreviousRevision(job[r].seen.list).revision # Newest(job[r].seen.list)
    BY DEF RollbackGoesBack
  <2>1. Len(job[r].seen.list) >= 2 /\ Numbered(job[r].seen.list)
    BY DEF IInv, SeenTrue, Writes, Action
  <2>2. job[r] \in Job
    BY DEF IInv, TypeOK
  <2>3. job[r].seen.list \in Seq([id : Nat, revision : Nat])
    BY <2>2 DEF Job, Seen
  <2> QED
    BY <2>1, <2>3, PreviousFacts
<1> QED
  BY <1>1, Invariance, PTL

\* Which step changes what a remediation that is about to write has done.
LEMMA OnlyItsWrite ==
  ASSUME IInv, [Next]_avars, NEW r \in Remediation, job[r].pc = "write", effects'[r] # effects[r]
  PROVE  \E lost \in BOOLEAN : UpdateScale(r, lost) \/ PatchLimits(r, lost) \/ PatchTemplate(r, lost)
<1>1. PICK s \in Remediation : Step(s)
  BY DEF Next, ClaimTask, EditWorkload, Rollout, PodChange, Edit, avars
<1>2. PICK lost \in BOOLEAN :
        RestartPod(s, lost) \/ UpdateScale(s, lost) \/ PatchLimits(s, lost) \/ PatchTemplate(s, lost)
  BY <1>1 DEF Step, ExecuteActions, PublishFails, PublishTask, RetryWithOwner, Reject, CallFails, Notify,
        NotFound, GetScale, ScaleConflict, GetDeployment, PatchConflict, ListReplicaSets
<1>3. effects' = [effects EXCEPT ![s][job[s].i] = @ + 1]
  BY <1>2 DEF RestartPod, UpdateScale, PatchLimits, PatchTemplate, Replied
<1>4. s = r
  BY <1>3 DEF IInv, TypeOK
<1>5. ~RestartPod(r, lost)
  BY DEF RestartPod, Runs
<1> QED
  BY <1>2, <1>4, <1>5

\* A scale that succeeds adds its increment to the replicas there are at that moment, or
\* leaves none when the sum is negative or wraps around.
THEOREM NoLostScale == Spec => ScaleAdds
<1>1. ASSUME IInv, [Next]_avars, NEW r \in Remediation, NEW k \in Scalable,
             Writes(r, "scaleUp"), job[r].target = k, effects'[r] # effects[r]
      PROVE  LET sum == workload[k].replicas + job[r].plan.increment
             IN workload'[k].replicas = IF sum \in 0..MaxInt32 THEN sum ELSE 0
  <2>1. PICK lost \in BOOLEAN : UpdateScale(r, lost) \/ PatchLimits(r, lost) \/ PatchTemplate(r, lost)
    BY <1>1, OnlyItsWrite DEF Writes
  <2>2. UpdateScale(r, lost)
    BY <1>1, <2>1 DEF PatchLimits, PatchTemplate, Writes
  <2>3. workload[k].replicas = job[r].seen.replicas
    BY <1>1, <2>2 DEF UpdateScale, SameVersion, IInv, SeenTrue, Writes, Action
  <2>4. workload[k].replicas \in 0..MaxInt32 /\ job[r].plan.increment \in (-MaxInt32 - 1)..MaxInt32
    <3>1. job[r].plan \in Plans
      BY <1>1 DEF IInv, TypeOK, Job
    <3> QED
      BY <1>1, <3>1, PlanType, WorkloadType DEF IInv
  <2>5. workload'[k].replicas = Scaled(job[r].seen.replicas, job[r].plan.increment)
    BY <1>1, <2>2 DEF UpdateScale, IInv, TypeOK
  <2> QED
    BY <2>3, <2>4, <2>5, ScaledFacts
<1>2. IInv /\ [Next]_avars =>
        [\A r \in Remediation : \A k \in Scalable :
           Writes(r, "scaleUp") /\ job[r].target = k /\ effects'[r] # effects[r] =>
             LET sum == workload[k].replicas + job[r].plan.increment
             IN workload'[k].replicas = IF sum \in 0..MaxInt32 THEN sum ELSE 0]_avars
  BY <1>1
<1> QED
  BY <1>2, Invariance, PTL DEF Spec, ScaleAdds

\* An adjustment lowers a limit only down to the cap or on top of another's change.
THEOREM NotLowered == Spec => LimitNotLowered
<1>1. ASSUME IInv, [Next]_avars, NEW r \in Remediation,
             Writes(r, "adjustMemory"), effects'[r] # effects[r]
      PROVE  \/ workload'["Deployment"].limit >= workload["Deployment"].limit
             \/ /\ job[r].plan.maxValue # NoMax
                /\ workload'["Deployment"].limit = Unit * job[r].plan.maxValue
             \/ workload["Deployment"].version # job[r].seen.version
  <2>1. PICK lost \in BOOLEAN : UpdateScale(r, lost) \/ PatchLimits(r, lost) \/ PatchTemplate(r, lost)
    BY <1>1, OnlyItsWrite DEF Writes
  <2>2. PatchLimits(r, lost)
    BY <1>1, <2>1 DEF UpdateScale, PatchTemplate, Writes
  <2>3. workload["Deployment"].version = job[r].seen.version => workload["Deployment"].limit = job[r].seen.limit
    BY <1>1, <2>2 DEF IInv, SeenTrue, Writes, Action
  <2>4. job[r].plan \in Plans /\ job[r].seen.limit \in Nat
    BY <1>1 DEF IInv, TypeOK, Job, Seen
  <2>5. job[r].plan.percent \in Nat /\ job[r].plan.maxValue \in Nat \cup {NoMax}
    BY <2>4, PlanType
  <2>6. workload'["Deployment"].limit =
          applyIncrease(job[r].seen.limit, job[r].plan.percent, job[r].plan.maxValue)
    BY <1>1, <2>2 DEF PatchLimits, IInv, TypeOK, Scalable
  <2> QED
    BY <2>3, <2>4, <2>5, <2>6, IncreaseFacts
<1>2. IInv /\ [Next]_avars =>
        [\A r \in Remediation :
           Writes(r, "adjustMemory") /\ effects'[r] # effects[r] =>
             \/ workload'["Deployment"].limit >= workload["Deployment"].limit
             \/ job[r].plan.maxValue # NoMax /\ workload'["Deployment"].limit = Unit * job[r].plan.maxValue
             \/ workload["Deployment"].version # job[r].seen.version]_avars
  BY <1>1
<1> QED
  BY <1>2, Invariance, PTL DEF Spec, LimitNotLowered

=============================================================================

# Verification of the Ariadna self-healing operator

TLA+ models of the operator's core, model-checked with TLC and proved about with
TLAPS. Paths below are relative to the repository. `PROJECT.json` lists the
components, runs, mutants, findings, hazards and theorems, and maps every
definition to the lines it models.

## 1. The system

One operator binary runs in several pods. With leader election, one pod is the
**leader** and runs the pipeline; every pod, the leader too, is a **worker**.

    monitors --detectionInputCh--> detection engine --detectionResultCh--> remediation controller
                                        ^                                        |
                    ScenarioLibrary watcher (hot reload)                     Publisher
                                                                                 v
                                 API server: RemediationTask objects  <---- create
                                   ^ claim, report        ^ list, expire, delete
                                Workers (all pods)      Janitors (all pods)

| Component | State | Operations | Hard behaviour | Correct when |
|---|---|---|---|---|
| task queue (`internal/taskqueue`) | RemediationTask objects in the API server; nothing in memory | publish; watch, claim, execute, report; list, expire, delete | competing consumers on all pods, two watch loops on the leader, stale events and lists, crashes, lost answers | a task's actions run at most once, outcomes are true, nothing stays Running, only old terminal tasks go |
| remediation controller (`internal/remediation`) | cooldown, retry count and escalation per scenario and resource, in memory | process a result, cleanup | cleanup during an attempt, loss of memory with the leader | no remediation storms, bounded retries, earned escalations |
| policy checker (`internal/policy`) | policies loaded when the pipeline is built | covered? paused? | policies are not reloaded | uncovered resources are left alone |
| detection engine (`internal/detection`) | loaded scenarios; count, window and "met" per scenario and resource | process an input, cleanup, reload | delayed stamps, cleanup and reload between the steps of a match, full channels | results are justified and not repeated |
| CRD loader (`internal/crdloader`) | a watch on ScenarioLibraries | initial load, watch, reload | missed changes between list and watch, initial load racing a reload, failed list | the engine ends up with the current scenarios |
| monitors (`internal/monitor`) | informers; a gRPC server | convert and send without blocking | full channel, records with their own stamps | nothing blocks |
| pipeline (`internal/pipeline`) | channels, `monitorsStarted` | build, run, shut down | late start of monitors racing shutdown, channels closed under senders | no send on a closed channel, shutdown ends |
| main (`cmd/operator`) | the lease, the leader label | start worker and janitor, run for leader, run the pipeline, signals | loss of the lease, signals and shutdown in any order, crash while becoming leader | no leader without a pipeline; a leader in the end, and one pipeline; a signal ends the leader |
| action executor and handlers (`internal/action`) | none; the cluster's objects | restart, scale, roll back, adjust limits, notify | changes by others between two calls, conflicts, lost replies, rounding and wrap-around, dry run | the intended object is changed as asked, once |
| owner resolver | none | follow owner references | missing pods and owners | the top controller |
| cache (`internal/cache`) | entries, order, sizes; no package uses it | get, set, delete, evict, cleanup, shrink, clear | limits, sizes larger than the cache, expiry | accounting is exact, limits are restored, no stale value |
| health (`internal/health`) | registered checks | run checks | pipeline appears and goes | a pod that does not work is not ready |
| config, metrics, API types, otel-sender | — | — | — | data or glue |

## 2. Modules

| Module | Contents |
|---|---|
| `TaskQueue` | publisher, workers, janitors, API server, crashes; properties and inductive invariant |
| `TaskLifecycle` | the abstract life of tasks that `TaskQueue` implements |
| `TaskQueueProofs` | TLAPS proofs about `TaskQueue` |
| `Remediation` | controller, policy filter and state store; properties and inductive invariant |
| `RemediationProofs` | TLAPS proofs about `Remediation` |
| `Detection` | engine, state store, hot reload |
| `Actions` | controller and Worker around an action, owner resolver, executor, handlers, and others who change the same objects |
| `Pipeline` | the goroutines of a pipeline from start to shutdown: engine, controller, monitors, ScenarioLibrary watcher, channels |
| `Operator` | the processes of all pods: worker, election, pipeline, signals, label, probes |
| `CacheContract` | what a cache promises its callers |
| `Cache` | the LRU and FIFO cache, which implements `CacheContract` |
| `DetectionProofs`, `ActionsProofs`, `PipelineProofs`, `OperatorProofs`, `CacheProofs` | TLAPS proofs about these, each of which ends with its properties and inductive invariant |
| `FoldLemmas` | induction over finite sets; what folds, sums and maxima compute, for the proofs |
| `MC...` | symmetry sets and constant values for TLC |

The modules meet where the code's components do. `Operator` decides when there is a
pipeline; `Pipeline` runs the goroutines whose work `Detection` and `Remediation`
model in detail; an attempt of `Remediation` is a job of `Actions`; what a leader
publishes there becomes a task of `TaskQueue`, whose `Execute` is the Worker's part
of `Actions`.

### TaskQueue

`store` is what the API server holds: one record per task name with its phase,
resourceVersion and status fields. The API server is external and is modelled by
what the code relies on: an update with a resourceVersion other than the stored
one is refused, a write gets a new version and becomes an event for every open
watch, a delete by name has no precondition.

| Action | Code |
|---|---|
| `Publish` | `Publisher.Publish`, a Create without a status, which counts as Pending |
| `WatchStart`, `WatchBroken`, `Receive` | `Worker.Run` and `watchLoop`; the leader's pipeline runs the same Worker a second time, hence the loops `<<pod, "main">>` and `<<pod, "pipeline">>` |
| `Claim`, `ClaimFails`, `Execute` | `claimAndExecute`, one goroutine per Pending event |
| `Reread`, `Report`, `ReportFails` | the two API calls of `updateTaskStatus` |
| `JanitorList`, `JanitorPlan`, `JanitorExpire`, `JanitorDelete`, `JanitorFails` | `sweep` and what it calls, against an old list |
| `BecomeLeader`, `Crash`, `Restart` | leader election in `main.go`: losing the lease, or being told to stop, ends the process |
| `Edit` | a user changes labels of a task |

A goroutine's clock reading is separate from its API call, and times lose their
fraction of a second (`RFC3339`), so early expiry is measured against `stamped`,
the exact reading. Events that `watchLoop` would skip are not put in an inbox
(skipping changes nothing). Actions succeed or fail; the timeout of a task is one
way to fail. A sweep handles its items in any order, because the API server's
order is not known to the code.

### Remediation

`state` is the map of the in-memory store and `attempt` the state that
`processResult` holds while it resolves owners and publishes or executes. `Take`
receives a result; `Skipped`, `Escalate` and `Start` are its outcomes; `Finish`
is the end of the attempt, good or bad, with the bookkeeping that follows in either
mode. The bookkeeping does not depend on the outcome; the history `failures` does.
`Cleanup` may run in between: it deletes the entry and `Finish` stores it again.
`NewLeader` drops everything but history. `Policies` gives the covered keys per
policy; policies are loaded once.

### Detection

`ProcessInput` copies the enabled scenarios, `GetState` and `HandleMatch` are the
two accesses of `handleMatch` to the store, so that `Cleanup` and the steps of a
reload (`ReloadClear`, `ReloadList`, `ReloadRegister`) come between them. An
input carries the set of scenarios whose expression it matches and a stamp up to
`MaxDelay` old, because OTLP records bring their own. In the code a state is
changed through a pointer while Cleanup may read it; what Cleanup can see is the
old or the new `LastDetected`, which are the orders of `HandleMatch` and
`Cleanup`. A scenario without a threshold behaves as one with count 1.

### Actions

A job is one remediation under way: its plan (the detected resource and the sorted
actions), the target it works on, the action it has reached, what the handler read
(`seen`) and how it ends. Each API call of a handler is a step, so users, autoscalers,
rollouts and the other job come between a read and the write that follows.

| Action | Code |
|---|---|
| `ExecuteActions`, `RetryWithOwner` | `executeActions` and `executeAction` of a standalone operator, with the fallback to the owner |
| `PublishTask`, `PublishFails`, `ClaimTask` | `publishTask` of the leader; once a Worker has claimed the task, which need not happen (pending_missed), the job is the Worker's |
| `Reject` | `Execute` without a handler, or `Validate` refuses the kind |
| `GetScale`, `UpdateScale`, `ScaleConflict` | ScaleHandler; the update carries the version it read |
| `RestartPod`, `NotFound`, `Notify` | the other short handlers |
| `GetDeployment`, `PatchLimits`, `PatchConflict` | AdjustResourceHandler; the patch carries no version |
| `ListReplicaSets`, `PatchTemplate` | RollbackHandler; `Turn` is a turn of its loop, `Renumbered` what the deployment controller makes of it |
| `CallFails`, the parameter `lost` | a call that fails, and one that takes effect although its reply is lost |
| `EditWorkload`, `Rollout`, `PodChange` | others (external) |

`Int32` wraps at `MaxInt32`; increments may be negative. A limit is counted in thousandths and `Quantity.Value`
rounds it up to whole units (`Unit`). adjustMemory stands for adjustCPU too, DaemonSet
for Job and CronJob. A pod has one chain of owners, read in one step.

### Pipeline

`pc` is the place of each goroutine, `wg` what the WaitGroup counts, `sources` the
informers and the receiver behind the monitors, which are goroutines of libraries and
not counted. Items in channels are numbers: `Detection` and `Remediation` say what
they are. The initial load (`LoadScenarios`, `RegisterScenario`, `EngineReady`) runs in
the engine's goroutine, reloads in the watcher's (`ReloadScenarios`, the same two, then
`LateStart`). `ListAndWatch` opens a watch that delivers the changes after its own
list; `WatchCloses`, `RetryWatch` and `WatchDone` are the ends of one. `Signal` is
`runPipeline` of main, which cancels ctx; `StopMonitors`, `StopLayers` and
`ShutdownReturns` are Shutdown. The process lives on after that until `ProcessExits`: a
leader ends in OnStoppedLeading, and until then `Run`, which nothing waits for and which
does not look at ctx once the engine is ready, may still start monitors. `overtaken` is
set when Shutdown returned before `Run` had come that far. A send on a closed channel
sets `panicked` and ends the process. The worker's goroutine is in TaskQueue and not repeated here.

### Operator

Each process has two goroutines that matter: `OnStartedLeading` (`AddLabel`,
`NewPipeline`, `PipelineReady`, `MonitorFails`, `InitiateShutdown`, `ShutdownComplete`)
and the leader election's (`Acquire`, `RenewFails`, `Release`, `CancelLeader`,
`OnStoppedLeading`, `Exit`). ctx is cancelled by either (`cancelled`), the leader's ctx by
the election (`leaderCtx`). When ctx is cancelled or the lease was not renewed, client-go
first releases the lease (ReleaseOnCancel), then cancels the leader's ctx, then calls
OnStoppedLeading: the next leader may build its pipeline while the old one still runs.
A monitor whose Run fails is only logged, so a "degraded" pipeline goes on and is never
ready again.
`Boot`, `Signal`, `Crash` and `Killed` are Kubernetes. The lease is external: it is
free, or held until it is released or its holder has stopped renewing it. A pipeline
that panics is a `Crash`; one whose Shutdown runs out of time ends the process.

### Cache

Every method holds the mutex from its first to its last line, so it is one action. The
eviction loops are the smallest number of evictions that is enough (`Evicted`), and
`Remaining` is the list after unlinking.
`last` and `answer` are what a caller knows; `CacheContract` is stated with them alone.

## 3. Runs

All runs are `tlc -config <run>.cfg <module>`.

| Run | Shows | Bounds and why they are enough |
|---|---|---|
| claims | at most once, true outcomes that nothing replaces, deletes, deadline, refinement, inductive invariant | 2 pods with 3 live loops, 2 goroutines, 1 task of 2 actions, 1 fault: the smallest instance with two claimants, a crash between two actions and a Janitor with an old list. A second holds 2 ticks so that fractions are lost. The proofs cover the rest |
| liveness | exclusive claims under edits; delivered tasks are claimed, none stays Running | 1 leader with two loops, 2 goroutines, an edit that brings a second version of a Pending task, a crash or fault; the clock ends after the last deadline of interest |
| retries | cooldown, retries, escalations, inductive invariant | 3 keys, of which 2 are covered; one of two policies paused, 2 retries, idle period 2, one change of the leader, clock to 8: two cycles of attempts, escalation and forgetting |
| threshold | justified and single emissions, inductive invariant | one key, thresholds "2 in 1" and "3 in 2", one reload that may swap them, 4 inputs, clock to 4 |
| actions | one effect per action, true outcomes, exact scaling, limits, rollback, termination, inductive invariant | two jobs at once out of five plans that cover every kind, handler and refusal, standalone or leader, dry run or not, every owner chain, 1 fault and 1 change by others; replica counts up to 3 so that sums wrap, one negative increment, limits of half a unit so that rounding shows |
| pipeline | what is loaded, one start, clean and timely stop, changes applied, flow, inductive invariant | 1 scenario (present or not at the start), 3 changes of the libraries and inputs together (`MaxEvents`), of which 2 may be changes, channels of size 1 that all fill up, 1 failed call or broken watch, shutdown at any time; the Kubernetes monitor (closed_channel has the receiver too) |
| cache | accounting, order of eviction, limits, refinement of the contract | 3 keys, 2 values, entries of size 1 and 3 in a cache of 4, room for 2 or 3 entries, both policies, one age limit, repeated halving of the size |
| operator | no idle leader, one pipeline, overlaps end, recovery, signals | 2 pods, with election or standalone, 2 signals, 3 faults (crashes, failed calls, failed monitors, lost leases, late shutdowns): each pod can lose the leadership once and one of them twice |

The deadlock check is off where the system comes to rest: in threshold the engine
waits for inputs that the bound no longer gives, in actions all jobs are done, in
pipeline the process has ended, in operator a leader leads and nothing else happens.
Symmetry is used in claims and cache, which check safety only.

Some properties say less than their names may suggest, because the code does less.
`OutcomeStands` allows a Failed task to be made Pending again, as the diagram of the
API type shows it; the code never does. `RetriesBounded` is about attempts that fail in
a row; the code's counter bounds all attempts, successful ones too. `LeadershipRecovers`
ends with a leader that has a pipeline, not with one whose probe succeeds: nothing
replaces a leader whose monitor failed. `OnePipeline` leaves out processes whose
leadership is over; `OverlapEnds` says that these stop. `Terminates` starts, in the
leader's mode, with the claim of the task. `RollbackGoesBack` only says that the newest
revision is left.

Runs that are expected to fail, each a comment or document the code departs from
(details and quotations under `findings`):

| Run | The code |
|---|---|
| pending_missed | never claims nor expires a task published while no watch was open |
| dry_run | executes the actions of a dry run when a leader publishes them as a task: only `executeAction` of a standalone operator looks at the flag |
| closed_channel | closes the channels in Shutdown while engine, controller or informers may still send |
| rollback_revision | rolls back to the first ReplicaSet listed, or to the second if the first is the newest, whatever their revisions: `secondMaxRevision` is replaced before it is compared, so with distinct revisions `prevRS` is never set |

Other departures, which follow from the code directly and have no run:

- *Task queue.* A late report replaces Expired by Completed or Failed
  (`worker.go:337`; the diagram at `remediationtask_types.go:7-10` has no way out of
  Expired). A Failed task is never retried (the diagram shows a retry, and
  `spec.maxRetries` is not read). A Janitor deletes by name what an old list said,
  also when a report has just been written, although only when the worker was slower
  than ActiveDeadline and RetentionPeriod together. With TrailingRetention two Janitors
  can delete the whole history (section 4), although it is to keep "the tail of
  activity" (`config.go:386-391`). A Worker says it is ready before
  its watch is open (`worker.go:84`).
- *Remediation.* Cooldowns are forgotten with the leader (`config.go:252` calls them
  "the minimum time between remediations"). An escalated key is remediated again
  after Cleanup forgot it (`types.go:477`: "Once escalated, stop"). Successful attempts
  count as retries, so a key is escalated although nothing failed (`types.go:467`:
  "resets on success"; `config.go:255-257` speaks of consecutive failures). Policies are read once, and `IsResourceCovered` is called
  without labels.
- *Detection.* A threshold is marked met although the full channel dropped the result
  (`engine.go:233`: "emit result and mark threshold met"). Windows are reset as a
  whole, so occurrences on both sides of a reset are not counted together.
- *Actions.* The leader
  resolves a pod to its owner before publishing, so restartPod of an owned pod is always
  refused by Validate. Adjustments accept a StatefulSet and then read a Deployment.
  A container without a CPU limit gets 128Mi as a number, and `Value` rounds CPU up to
  whole cores (`handlers.go:479` says 100m). The cap may lower a limit, and a cap that
  does not parse panics. A sum that wraps scales to zero. There is no scaleDown handler.
  Without a client handlers do not run "in stub mode" (`main.go`): they panic.
- *Pipeline.* Changes between the last load and the List of the watcher, or while the
  watch is broken, are not loaded until the next change. A reload whose list fails
  leaves no scenarios. If the initial load takes more than 30 seconds, its older list may
  be registered after a reload's and bring back a deleted scenario, or the pipeline stays
  idle although scenarios are loaded. Shutdown is called with ctx already cancelled, so data does not "flow
  through" and actions in progress are not completed (`pipeline.go:378-380`). The
  engine may call itself ready after Stop. Run may start monitors after a clean Shutdown,
  in the time a leader takes to exit. A receiver that starts late is not stopped.
  With only the receiver enabled there is no CRD loader and never a scenario.
- *Operator.* A worker that is not the leader does not read signals and is killed after
  the grace period. `os.Exit` in OnStoppedLeading cuts Shutdown short. A crashed leader
  keeps its label as a worker, next to the new leader's (`main.go:529`: "routes only to
  the Leader"). A leader whose monitor failed stays leader and is not ready, for good. The
  lease is released before the leader's ctx is cancelled, so two pipelines may overlap.
  `--leader-elect=false` cannot switch off what the file switches on.
- *Cache and configuration.* Set of an existing key keeps its age and may exceed
  MaxSize; MaxEntries 0 never returns. `TaskQueue.CleanupInterval` is not validated.

**Fairness** (`FairSpec` of TaskQueue): weak fairness of every running watch
loop, goroutine and Janitor (the Go scheduler, an API server that answers, the
Janitor's ticker), of restarts (Kubernetes), of taking a free lease
(`leaderelection.RunOrDie` retries) and of time. Publishing, edits and faults
need not happen. The counterexample of pending_missed uses the
same fairness. `Actions`: every remediation under way goes on, because calls have
deadlines (ActionTimeout); that a Worker claims a published task is not assumed, as
pending_missed shows that it may never happen. `Pipeline`: as long as some goroutine can go on, one does,
which is weaker than what the Go scheduler gives; inputs, changes, signals, broken
watches, the end of Shutdown's time and the exit after it need not happen. `Operator`: each process goes
on, Kubernetes restarts containers, `RunOrDie` retries and a lease that nobody renews
expires; faults and signals are bounded, as LeadershipRecovers is about what comes
after the last of them.

## 4. Proofs

Every invariant, action property and refinement that a passing run checks is also
a theorem. The theorems hold for every set of pods, tasks, goroutines, keys,
scenarios, remediations and plans and for every value of the numbers, from the one
named assumption of each module. These say that durations and bounds are natural
numbers, that "unset" values are none of the set ones and, as `config.Validate`
demands, that cooldown and retries are positive; `MaxInt32` is positive; a cache's
MaxEntries is positive, because with zero `evictIfNeeded` does not return. Each
proof has the same shape: `IInv` holds initially, each action preserves it (one lemma
per action or group of actions), and it implies the property.

**TaskQueue.** `ClaimExclusive` and `ActionsAtMostOnce` are not inductive: they
hold because a resourceVersion pins down the object that was seen. `IInv` says
so: an event or a goroutine about to claim with the stored version has seen the
task as it is, Pending (`EventsTrue`, `ClaimsTrue`); the holder of a task is the
only one, nobody else has recorded an outcome, and the actions started are its
own (`HoldersTrue`); a listed object with the stored version is the stored object
and what was terminal in a list is terminal or gone (`SnapshotsTrue`); what a
sweep plans was justified by list and clock (`PlansTrue`); nothing runs before
the claim (`RanTrue`); claimedAt is the truncated reading (`StampsTrue`). From it
follow `TypeCorrect`, `OneHolder`, `AtMostOnce`, `TrueOutcome`, the action properties
`OutcomeKept`, `DeletesTerminal`, `DeadlineKept`, and `Refinement`: every step is a
step of `TaskLifecycle` or changes nothing of it, with `phase` and `claimedBy`
read from the store and `held` the tasks some goroutine is past the claim of.

`HistoryKept` is about the Janitors of all pods together. Without a further condition
they can delete the whole history: Janitor A lists t1, Expired long ago, and t2, and plans
to delete t1; the slow worker of t1 reports, which makes t1 the most recent task; Janitor B
lists now and deletes t2; A deletes t1. TLC finds this with two pods, two tasks and
TrailingRetention 1, and so a delete of a task that was reported on anew since it was
listed is named as a hypothesis (`DeletesAsListed`); late reports as such are allowed.
The others are that TrailingRetention is positive and the tasks finitely many, so
that a list has a most recent one. The theorem then says that such a delete is the only
way to lose the history, for any number of Janitors at any point of their sweeps. Its
invariant adds to `IInv` that times are not ahead of the clock and no report goes back
behind the time it replaces (`TimesTrue`, which needs that `RFC3339` keeps the order of
times), that a task to be deleted has a more recent one on the same list, and that every
listed terminal task is matched by a stored one that is as recent (`Retained`). So when
some Janitor deletes the task another one counts on, a more recent one takes its place
(`Outlived`).

**Remediation.** `IInv` relates the memory to the history: a state that exists
tells when the last attempt ended and how many there were; one that does not
exist implies that an idle period and the cooldown have passed (`StateTrue`),
also while an attempt holds a copy that Cleanup has removed from the map
(`AttemptTrue`); failures in a row are at most the attempts remembered, and attempts not
yet spent on an escalation are remembered (`FailuresTrue`, `AttemptsTrue`). From it follow
`TypeCorrect`, `BoundedRetries`, `EarnedEscalation` and `KeptCooldown`.

**Detection.** `EmissionsJustified` and `EmittedOnce` speak of a step and of the
matches handled so far, while the engine only keeps a count, a window and a flag.
`IInv` ties them: a state that is not met counts the latest matches and its window
began with the first of them (`WindowTrue`); a key that was reported is still
remembered as met up to its latest match, or StateExpiration has passed since some
match (`ReportTrue`). Both hold of the stored state and of the one `handleMatch` has in
hand, which Cleanup may have removed since (`StateTrue`). Stamps of inputs in the
channel, in hand and matched are in order up to MaxDelay (`StampsTrue`), which bounds
what a late record can do to a window. Theorems: `Justified`, `OnceOnly`, `TypeCorrect`.

**Actions.** `EffectAtMostOnce` holds for a reason that is easy to break: after a lost
reply the controller tries again with the owner, but only kinds that the handler or the
cluster then refuses lead there. `ProgressTrue` says for each job which effects the
actions before, at and behind its place have had, depending on where it is;
`SeenTrue` what a handler that is about to write has read; `Numbered` that ReplicaSets
differ in name and revision and one is the newest. `AtMostOnce` and `TrueOutcome` follow. `NoLostScale`
needs that a version that was read and is still current belongs to the replicas that
were read; `NotLowered` is arithmetic on rounding. `GoesBack` is about the loop of
RollbackHandler over a list of any length and order: as long as it has found a previous
revision, that one is lower than the highest so far.

**Pipeline.** `CountTrue` says that the WaitGroup counts exactly the goroutines that
were started and have not ended, wherever they were started from. Shutdown returns
cleanly only when the count is empty, and it stays empty unless `Run` is still to start
goroutines, which is the case that `overtaken` marks (`StopTrue`): `CleanStop` follows. `OrderTrue` has the order of
start: what `Run` has not started yet is off, and monitors are off as long as
`monitorsStarted` is false, hence `OneStart`. `LoadsTrue` says what a load in progress
has still to register compared with the list it started from, so that at its end the
engine has what was listed (`CurrentScenarios`).

**Operator.** `MemoryTrue` relates the two goroutines of a process to each other and to
the lease: who leads has the lease and had a pipeline, and a pipeline that was shut down
had its ctx cancelled. `NoneIdle` follows, and `OneAtATime`: two pods with a pipeline
would both hold the lease, but for one whose leadership is over.

**Cache.** `IInv` adds to `Accounting` and `EvictsByPolicy` that no key is listed
twice and that an entry holds the value last set and is not younger than its time
(`EntriesTrue`). The lemmas show what `Remaining` keeps of a list (its members, their
order, their number) and how `SizeOf` splits over disjoint sets, for both policies.
`WithinLimits` shows that the eviction loops stop where they should: the smallest
number of evictions that is enough exists, and one less is not enough.
`Refinement` shows that every call is a step of `CacheContract`.

Folds and sums over finite sets are recursive functions in the library, given by a
CHOOSE. `FoldLemmas` proves that these functions exist, by taking the least
counterexample of a well-founded order, since the library's induction theorems cannot
be applied here. With them, what the rollback loop, the unlinking of entries
and the size count compute is proved for inputs of any length.

Only model-checked: the liveness properties, as neither fairness nor ENABLED is within
reach of the prover (`DeliveredIsClaimed`, `RunningIsResolved`, `Terminates`,
`ChangeApplied`, `Flows`, `StopsByItself`, `LeadershipRecovers`, `OverlapEnds`,
`SignalEndsLeader`). The runs that are expected to fail have no theorem, of course. The
inductive invariants of Operator and Cache were model-checked on the instances of their
runs before they were proved; the runs list the properties they imply. `HistoryIsKept`,
with `TimesTrue` and `Retained` and under its hypothesis, was model-checked with two pods
and two tasks; that takes too long for a run.

## 5. Not modelled

The conversion of Kubernetes and OTLP data to inputs, CEL expressions, the parsing
of action parameters, metrics, Kubernetes Events and logs: data and I/O. The HTTP
server of the probes and the liveness check, which never fails. Configuration:
defaults and `Validate` appear as assumptions on constants. Clock skew between pods:
all read one clock. The lease protocol of client-go: `Operator` has at most one holder;
`TaskQueue` and `Remediation` take a change of the leader as one step, so the overlap of
two pipelines is in `Operator` alone. A pipeline
without Kubernetes, which has no scenarios. Stamps of inputs in the future, or unset.
The names of tasks: they are unique, so a clash of names within one millisecond appears
only as a failed publish. Deployments with several containers: each is treated as one is.
Several ScenarioLibraries with a scenario of the same key: the last one listed wins.

## 6. Plan

1. *(done)* TaskQueue with its lifecycle and proofs; Remediation with proofs;
   Detection.
2. *(done)* Actions, Pipeline, Cache with its contract, Operator.
3. *(done)* Proofs of all safety properties and both refinements.
4. *(done)* What two or more Janitors still guarantee about the history.
5. Detection composed with Remediation over the result channel: a problem that goes
   on after a failed attempt.

------------------------------ MODULE Operator ------------------------------
(***************************************************************************)
(* The operator's process (cmd/operator): worker from boot, the race for   *)
(* the lease, the pipeline of the leader, signals, the leader label of the *)
(* pod and the probes (internal/health).  Pods are killed, restarted and   *)
(* lose the lease; the goroutine of the pipeline and that of the leader    *)
(* election go on side by side until one of them ends the process.  The    *)
(* lease itself is client-go's and is modelled by what main uses of it.    *)
(***************************************************************************)
EXTENDS Naturals

CONSTANTS
  Pod,
  NoPod,
  MaxSignals,  \* bound: SIGTERM or SIGINT
  MaxFaults    \* bound: crashes, failed calls, leases that cannot be renewed

ASSUME OperatorAssumption == NoPod \notin Pod /\ MaxSignals \in Nat /\ MaxFaults \in Nat

VARIABLES
  mode,       \* "election" or "standalone"
  process,    \* of each pod: "down" or "up"
  election,   \* of each process: "campaign", "leading", "lost", "released", "stopped", "exit"
  pipeline,   \* of each process: "none", "label", "new", "running", "degraded", "shutdown", "done"
  cancelled,  \* processes whose ctx is cancelled
  leaderCtx,  \* processes with a leader's ctx that is not cancelled
  pending,    \* processes with a signal in signalChan
  ready,      \* [pod -> subset of {"worker", "pipeline"}]
  leader,     \* who holds the lease
  label,      \* pods with the leader label
  signals, faults

vars == <<mode, process, election, pipeline, cancelled, leaderCtx, pending, ready, leader, label,
          signals, faults>>

Init ==
  /\ mode \in {"election", "standalone"}
  /\ process = [p \in Pod |-> "down"]
  /\ election = [p \in Pod |-> "campaign"]
  /\ pipeline = [p \in Pod |-> "none"]
  /\ cancelled = {}
  /\ leaderCtx = {}
  /\ pending = {}
  /\ ready = [p \in Pod |-> {}]
  /\ leader = NoPod
  /\ label = {}
  /\ signals = 0
  /\ faults = 0

Up(p) == process[p] = "up"

Fault(ok) ==
  /\ ok \/ faults < MaxFaults
  /\ faults' = IF ok THEN faults ELSE faults + 1

\* The process ends, with all it had in memory.
Ends(p) ==
  /\ process' = [process EXCEPT ![p] = "down"]
  /\ election' = [election EXCEPT ![p] = "campaign"]
  /\ pipeline' = [pipeline EXCEPT ![p] = "none"]
  /\ cancelled' = cancelled \ {p}
  /\ leaderCtx' = leaderCtx \ {p}
  /\ pending' = pending \ {p}
  /\ ready' = [ready EXCEPT ![p] = {}]

memory == <<process, election, pipeline, cancelled, leaderCtx, pending, ready>>

-----------------------------------------------------------------------------
(* main.                                                                   *)

\* Kubernetes starts the container.  With election the worker is started and the
\* process runs for the lease; standalone it labels its pod and builds the pipeline.
Boot(p) ==
  /\ ~Up(p)
  /\ process' = [process EXCEPT ![p] = "up"]
  /\ ready' = [ready EXCEPT ![p] = IF mode = "election" THEN {"worker"} ELSE {}]
  /\ pipeline' = [pipeline EXCEPT ![p] = IF mode = "election" THEN "none" ELSE "label"]
  /\ UNCHANGED <<mode, election, cancelled, leaderCtx, pending, leader, label, signals, faults>>

\* RunOrDie gets the lease and calls OnStartedLeading in a goroutine.
Acquire(p) ==
  /\ Up(p) /\ mode = "election"
  /\ election[p] = "campaign"
  /\ leader = NoPod
  /\ leader' = p
  /\ election' = [election EXCEPT ![p] = "leading"]
  /\ pipeline' = [pipeline EXCEPT ![p] = "label"]
  /\ leaderCtx' = leaderCtx \cup {p}
  /\ UNCHANGED <<mode, process, cancelled, pending, ready, label, signals, faults>>

\* patchPodLeaderLabel; a failure is logged.
AddLabel(p, ok) ==
  /\ Up(p)
  /\ pipeline[p] = "label"
  /\ Fault(ok)
  /\ label' = IF ok THEN label \cup {p} ELSE label
  /\ pipeline' = [pipeline EXCEPT ![p] = "new"]
  /\ UNCHANGED <<mode, process, election, cancelled, leaderCtx, pending, ready, leader, signals>>

\* pipeline.New, and its Run; an error ends the process.
NewPipeline(p, ok) ==
  /\ Up(p)
  /\ pipeline[p] = "new"
  /\ Fault(ok)
  /\ IF ok
     THEN /\ pipeline' = [pipeline EXCEPT ![p] = "running"]
          /\ UNCHANGED <<process, election, cancelled, leaderCtx, pending, ready>>
     ELSE Ends(p)
  /\ UNCHANGED <<mode, leader, label, signals>>

\* All layers have come up.
PipelineReady(p) ==
  /\ Up(p)
  /\ pipeline[p] = "running"
  /\ "pipeline" \notin ready[p]
  /\ ready' = [ready EXCEPT ![p] = @ \cup {"pipeline"}]
  /\ UNCHANGED <<mode, process, election, pipeline, cancelled, leaderCtx, pending, leader, label,
                 signals, faults>>

\* The Run of a monitor fails, or its caches never sync: that is logged, the rest of the
\* pipeline goes on, and Ready is false from then on.  Monitors may start late, in a
\* pipeline that was ready.
MonitorFails(p) ==
  /\ Up(p)
  /\ pipeline[p] = "running"
  /\ Fault(FALSE)
  /\ pipeline' = [pipeline EXCEPT ![p] = "degraded"]
  /\ ready' = [ready EXCEPT ![p] = @ \ {"pipeline"}]
  /\ UNCHANGED <<mode, process, election, cancelled, leaderCtx, pending, leader, label, signals>>

\* The ctx that the pipeline runs with is done.
CtxDone(p) == p \in cancelled \/ (mode = "election" /\ p \notin leaderCtx)

\* Mutant: the pipeline is shut down, and ctx left alone.
NotCancelled(p) == cancelled

Cancel(p) == cancelled \cup {p}

\* Mutant: a signal is not waited for.
OnlyRun(p) == CtxDone(p)

\* What ends the select of runPipeline: a signal, or the return of Run.
Woken(p) == p \in pending \/ CtxDone(p)

\* runPipeline cancels ctx and calls Shutdown, which stops the worker too.
InitiateShutdown(p) ==
  /\ Up(p)
  /\ pipeline[p] \in {"running", "degraded"}
  /\ Woken(p)
  /\ pending' = IF CtxDone(p) THEN pending ELSE pending \ {p}
  /\ cancelled' = Cancel(p)
  /\ pipeline' = [pipeline EXCEPT ![p] = "shutdown"]
  /\ ready' = [ready EXCEPT ![p] = {}]
  /\ UNCHANGED <<mode, process, election, leaderCtx, leader, label, signals, faults>>

\* Shutdown returns: in time, or with an error that ends the process.  Standalone,
\* main returns; with election OnStartedLeading does.
ShutdownComplete(p, ok) ==
  /\ Up(p)
  /\ pipeline[p] = "shutdown"
  /\ Fault(ok)
  /\ IF mode = "standalone" \/ ~ok THEN Ends(p)
     ELSE /\ pipeline' = [pipeline EXCEPT ![p] = "done"]
          /\ UNCHANGED <<process, election, cancelled, leaderCtx, pending, ready>>
  /\ UNCHANGED <<mode, leader, label, signals>>

-----------------------------------------------------------------------------
(* The goroutine of the leader election.                                   *)

\* Mutant: a process that lost the lease runs for it again.
RenewFailsAndCampaigns(p) ==
  /\ Up(p)
  /\ election[p] = "leading"
  /\ Fault(FALSE)
  /\ election' = [election EXCEPT ![p] = "campaign"]
  /\ UNCHANGED <<mode, process, pipeline, cancelled, leaderCtx, pending, ready, leader, label, signals>>

\* The lease could not be renewed before RenewDeadline, which is shorter than
\* LeaseDuration.
RenewFails(p) ==
  /\ Up(p)
  /\ election[p] = "leading"
  /\ Fault(FALSE)
  /\ election' = [election EXCEPT ![p] = "lost"]
  /\ UNCHANGED <<mode, process, pipeline, cancelled, leaderCtx, pending, ready, leader, label, signals>>

\* renew returns, as ctx is cancelled or the lease was not renewed: the lease is
\* released (ReleaseOnCancel), if that call succeeds and nobody else has it by now.
Release(p, ok) ==
  /\ Up(p)
  /\ election[p] = "lost" \/ (election[p] = "leading" /\ p \in cancelled)
  /\ Fault(ok)
  /\ leader' = IF ok /\ leader = p THEN NoPod ELSE leader
  /\ election' = [election EXCEPT ![p] = "released"]
  /\ UNCHANGED <<mode, process, pipeline, cancelled, leaderCtx, pending, ready, label, signals>>

\* Only then leaderCtx is cancelled, by the deferred calls of RunOrDie.
CancelLeader(p) ==
  /\ Up(p)
  /\ election[p] = "released"
  /\ leaderCtx' = leaderCtx \ {p}
  /\ election' = [election EXCEPT ![p] = "stopped"]
  /\ UNCHANGED <<mode, process, pipeline, cancelled, pending, ready, leader, label, signals, faults>>

\* OnStoppedLeading removes the label (a failure is logged) and cancels ctx.
OnStoppedLeading(p, ok) ==
  /\ Up(p)
  /\ election[p] = "stopped"
  /\ Fault(ok)
  /\ label' = IF ok THEN label \ {p} ELSE label
  /\ cancelled' = cancelled \cup {p}
  /\ election' = [election EXCEPT ![p] = "exit"]
  /\ UNCHANGED <<mode, process, pipeline, leaderCtx, pending, ready, leader, signals>>

\* Mutant: the process stays when the leader election is over.
StayUp(p) == FALSE

\* os.Exit(0), also in the middle of Shutdown.
ExitNow(p) == election[p] = "exit"

Exit(p) ==
  /\ Up(p)
  /\ ExitNow(p)
  /\ Ends(p)
  /\ UNCHANGED <<mode, leader, label, signals, faults>>

\* Nobody renews the lease any more.
LeaseExpires ==
  /\ leader # NoPod
  /\ ~(Up(leader) /\ election[leader] = "leading")
  /\ leader' = NoPod
  /\ UNCHANGED <<mode, memory, label, signals, faults>>

-----------------------------------------------------------------------------
(* Kubernetes.                                                             *)

\* A signal waits in signalChan until runPipeline reads it.
Signal(p) ==
  /\ Up(p)
  /\ signals < MaxSignals
  /\ signals' = signals + 1
  /\ pending' = pending \cup {p}
  /\ UNCHANGED <<mode, process, election, pipeline, cancelled, leaderCtx, ready, leader, label, faults>>

\* The container dies and is restarted in its pod, which keeps its labels.
Crash(p) ==
  /\ Up(p)
  /\ Fault(FALSE)
  /\ Ends(p)
  /\ UNCHANGED <<mode, leader, label, signals>>

\* SIGKILL at the end of the grace period; another pod takes its place.
Killed(p) ==
  /\ Up(p)
  /\ p \in pending
  /\ Ends(p)
  /\ label' = label \ {p}
  /\ UNCHANGED <<mode, leader, signals, faults>>

-----------------------------------------------------------------------------

\* The steps of the process, and its restart.
Step(p) ==
  \/ Boot(p) \/ PipelineReady(p) \/ InitiateShutdown(p) \/ CancelLeader(p) \/ Exit(p)
  \/ \E ok \in BOOLEAN :
       \/ AddLabel(p, ok) \/ NewPipeline(p, ok) \/ ShutdownComplete(p, ok)
       \/ Release(p, ok) \/ OnStoppedLeading(p, ok)

Next ==
  \/ \E p \in Pod : Step(p) \/ Acquire(p) \/ MonitorFails(p) \/ RenewFails(p)
                     \/ Signal(p) \/ Crash(p) \/ Killed(p)
  \/ LeaseExpires

\* Kubernetes restarts containers, RunOrDie retries, a lease that is not renewed
\* expires, and both goroutines of a process go on.
Spec ==
  /\ Init /\ [][Next]_vars
  /\ \A p \in Pod : WF_vars(Step(p)) /\ WF_vars(Acquire(p))
  /\ WF_vars(LeaseExpires)

-----------------------------------------------------------------------------
(* Properties.                                                             *)

\* The readiness probe: of the worker, and of the pipeline if there is one.
ReadinessCheck(p) ==
  IF mode = "election"
  THEN "worker" \in ready[p] /\ (pipeline[p] \in {"running", "degraded", "shutdown", "done"} => "pipeline" \in ready[p])
  ELSE "pipeline" \in ready[p]

\* A process that holds on to the lease has a pipeline that works, is being built, or
\* its ctx is cancelled, which ends the leadership: no pod leads without a pipeline.
NoIdleLeader ==
  \A p \in Pod : Up(p) /\ election[p] = "leading" =>
    pipeline[p] \in {"label", "new", "running", "degraded"} \/ p \in cancelled

\* A process whose pipeline is being built or at work, or has not yet stopped.
PipelineOn(p) == pipeline[p] \in {"label", "new", "running", "degraded", "shutdown"}

\* One whose leadership is not over.
Active(p) == PipelineOn(p) /\ election[p] \in {"campaign", "leading"}

\* With election at most one pod detects and remediates, but for processes whose
\* leadership is over: also when leases are lost, expire or fail to be released.
OnePipeline == mode = "election" => \A p, q \in Pod : Active(p) /\ Active(q) => p = q

\* Where the goroutines of each process can be, and who can hold the lease.
TypeOK ==
  /\ mode \in {"election", "standalone"}
  /\ process \in [Pod -> {"down", "up"}]
  /\ election \in [Pod -> {"campaign", "leading", "lost", "released", "stopped", "exit"}]
  /\ pipeline \in [Pod -> {"none", "label", "new", "running", "degraded", "shutdown", "done"}]
  /\ cancelled \subseteq Pod /\ leaderCtx \subseteq Pod /\ pending \subseteq Pod /\ label \subseteq Pod
  /\ ready \in [Pod -> SUBSET {"worker", "pipeline"}]
  /\ leader \in Pod \cup {NoPod}
  /\ signals \in 0..MaxSignals /\ faults \in 0..MaxFaults

\* What a process has in memory agrees: nothing before it starts; a leader has the
\* lease and a pipeline; a pipeline belongs to a leadership, past or present; and one
\* that was shut down had its ctx cancelled.
MemoryTrue(p) ==
  /\ ~Up(p) => election[p] = "campaign" /\ pipeline[p] = "none"
  /\ election[p] = "leading" => leader = p /\ pipeline[p] # "none"
  /\ mode = "election" /\ pipeline[p] # "none" => election[p] # "campaign"
  /\ pipeline[p] \in {"shutdown", "done"} => p \in cancelled

\* The inductive invariant: what main's goroutines rely on in each other.
IInv == TypeOK /\ \A p \in Pod : MemoryTrue(p)

\* When the faults and signals are over there is a leader for good, with a pipeline:
\* each loss of the lease or of a process ends in a restart and a new election.  Its
\* probe succeeds, unless a monitor of it failed: nothing replaces such a leader.
LeadershipRecovers ==
  <>[](\E p \in Pod : /\ Up(p)
                      /\ mode = "election" => leader = p /\ p \in leaderCtx
                      /\ pipeline[p] = "degraded" \/ (pipeline[p] = "running" /\ ReadinessCheck(p)))

\* A leader that lost the lease may still run its pipeline when the next pod has built
\* its own; that ends, by the stop of the pipeline or the exit of the process.
OverlapEnds ==
  \A p, q \in Pod :
    mode = "election" /\ p # q /\ PipelineOn(p) /\ PipelineOn(q) ~> ~(PipelineOn(p) /\ PipelineOn(q))

\* A signal ends a process that runs the pipeline, without the help of SIGKILL.
SignalEndsLeader ==
  \A p \in Pod : p \in pending /\ pipeline[p] \in {"running", "degraded"} ~> ~Up(p)

=============================================================================

------------------------------ MODULE Pipeline ------------------------------
(***************************************************************************)
(* The life of a pipeline (internal/pipeline) and of the goroutines it     *)
(* runs: start in reverse order, the wait for the initial load of the      *)
(* scenarios, idle mode, the ScenarioLibrary watcher with its reloads      *)
(* (internal/crdloader, internal/detection), the late start of the         *)
(* monitors (internal/monitor), the flow of inputs and results through the *)
(* channels, and Shutdown, which closes them.                              *)
(***************************************************************************)
EXTENDS Naturals, FiniteSets

CONSTANTS
  Scenario,    \* scenarios that ScenarioLibraries may hold; invalid ones, which are skipped
               \* by convertScenario or RegisterScenario, are left out
  Enabled,     \* the sets of monitors that the configuration may enable; without Kubernetes
               \* there is no CRD loader and never a scenario
  BufferSize,  \* of each channel
  MaxChanges,  \* bound: changes of the ScenarioLibraries
  MaxEvents,   \* bound: inputs of the monitors and changes, together
  MaxFaults    \* bound: failed lists, broken watches, monitors that do not start

ASSUME PipelineAssumption ==
  /\ \A M \in Enabled : "k8s" \in M /\ M \subseteq {"k8s", "otel"}
  /\ IsFiniteSet(Scenario)
  /\ BufferSize \in Nat \ {0}
  /\ MaxChanges \in Nat /\ MaxEvents \in Nat /\ MaxFaults \in Nat

VARIABLES
  monitors,         \* the enabled monitors
  libraries,        \* the scenarios in the cluster
  changes,          \* how often they were changed
  events,           \* changes that the open watch has not delivered yet
  pc,               \* where each goroutine is
  wg,               \* the goroutines that the WaitGroup counts
  scenarios,        \* the engine's scenarios
  listed,           \* what a load has listed and not registered yet
  monitorsStarted,
  sources,          \* informers and receivers at work
  ready,            \* the engine's Ready
  channel,          \* number of items in each channel
  evaluations,      \* scenarios the engine has still to evaluate for its input
  closed,           \* the channels are closed
  cancelled,        \* ctx is done
  shutdown,         \* where Shutdown is
  panicked,         \* a send on a closed channel has ended the process
  inputs, faults,
  loadedAt,         \* history: the changes contained in the latest list of a load
  late,             \* history: the engine was not ready within 30 seconds
  overtaken         \* history: Shutdown returned while Run was still starting goroutines

vars == <<monitors, libraries, changes, events, pc, wg, scenarios, listed, monitorsStarted, sources, ready,
          channel, evaluations, closed, cancelled, shutdown, panicked, inputs, faults,
          loadedAt, late, overtaken>>

cluster == <<monitors, libraries, changes>>

loading == <<events, scenarios, listed, loadedAt>>

flow == <<channel, evaluations, panicked, inputs>>

stopping == <<cancelled, shutdown, closed, overtaken>>

-----------------------------------------------------------------------------

Monitor == {"k8s", "otel"}

\* The goroutine of Run itself is not counted by the WaitGroup.  The worker's loop is
\* in TaskQueue; it ends with ctx as the others do.
Goroutine == {"run", "engine", "remediator", "watcher"} \cup Monitor

Unloaded == MaxChanges + 1

\* BuildFromConfig builds the monitors that are enabled.
Init ==
  /\ monitors \in Enabled
  /\ libraries \in SUBSET Scenario
  /\ changes = 0
  /\ events = 0
  /\ pc = [g \in Goroutine |-> IF g = "run" THEN "start" ELSE "off"]
  /\ wg = {}
  /\ scenarios = {}
  /\ listed = [engine |-> {}, watcher |-> {}]
  /\ monitorsStarted = FALSE
  /\ sources = {}
  /\ ready = FALSE
  /\ channel = [input |-> 0, result |-> 0, action |-> 0]
  /\ evaluations = 0
  /\ closed = FALSE
  /\ cancelled = FALSE
  /\ shutdown = "none"
  /\ panicked = FALSE
  /\ inputs = 0
  /\ faults = 0
  /\ loadedAt = Unloaded
  /\ late = FALSE
  /\ overtaken = FALSE

\* The process goes on until main exits, or a panic.
alive == ~panicked /\ shutdown # "exited"

At(g, label) == alive /\ pc[g] = label

Goto(g, label) == pc' = [pc EXCEPT ![g] = label]

\* A goroutine of goWithWg returns.
Ends(g) == Goto(g, "ended") /\ wg' = wg \ {g}

\* A call to the API server: with ctx done it fails, otherwise it may.
Call(ok) ==
  /\ ok => ~cancelled
  /\ ~ok => cancelled \/ faults < MaxFaults
  /\ faults' = IF ok \/ cancelled THEN faults ELSE faults + 1

\* Mutant: a goroutine that is not counted.
Untracked(G) == wg' = wg

\* goWithWg counts the goroutines it starts.
goWithWg(G) == wg' = wg \cup G

\* Mutant: a send that waits for room.
Blocking(ch) ==
  /\ closed \/ channel[ch] < BufferSize
  /\ panicked' = closed
  /\ channel' = IF closed THEN channel ELSE [channel EXCEPT ![ch] = @ + 1]

\* sendDetectionInput and both sendResult: the item is dropped when the channel is
\* full; on a closed channel the send panics.
Send(ch) ==
  /\ panicked' = closed
  /\ channel' = IF closed \/ channel[ch] = BufferSize THEN channel
                ELSE [channel EXCEPT ![ch] = @ + 1]

-----------------------------------------------------------------------------
(* Pipeline.Run.                                                           *)

\* Controller and engine are started before the monitors.
StartLayers ==
  /\ At("run", "start")
  /\ pc' = [pc EXCEPT !["run"] = "wait", !["remediator"] = "loop", !["engine"] = "load"]
  /\ goWithWg({"remediator", "engine"})
  /\ UNCHANGED <<cluster, loading, monitorsStarted, sources, ready, flow, stopping, faults, late>>

\* The engine is ready, or 30 seconds are over.
DetectionReady(deadline) ==
  /\ At("run", "wait")
  /\ ready = ~deadline
  /\ Goto("run", "monitors")
  /\ late' = deadline
  /\ UNCHANGED <<cluster, loading, wg, monitorsStarted, sources, ready, flow, stopping, faults>>

CancelledBeforeReady ==
  /\ At("run", "wait")
  /\ ~ready
  /\ cancelled
  /\ Goto("run", "ended")
  /\ UNCHANGED <<cluster, loading, wg, monitorsStarted, sources, ready, flow, stopping, faults, late>>

\* The goroutines G of g are started; monitorsStarted is set if they are monitors.
Start(g, label, G) ==
  /\ pc' = [h \in Goroutine |-> IF h = g THEN label
                                ELSE IF h \notin G THEN pc[h]
                                ELSE IF h = "watcher" THEN "list" ELSE "start"]
  /\ goWithWg(G)
  /\ monitorsStarted' = (monitorsStarted \/ G \cap monitors # {})

\* The monitors, unless there are no scenarios and the pipeline is idle; then the
\* watcher.  Run blocks until ctx is done.
StartMonitors ==
  /\ At("run", "monitors")
  /\ Start("run", "block", (IF scenarios = {} THEN {} ELSE monitors) \cup {"watcher"})
  /\ UNCHANGED <<cluster, loading, sources, ready, flow, stopping, faults, late>>

-----------------------------------------------------------------------------
(* Loads: the initial one in the engine's goroutine, reloads in the        *)
(* watcher's.                                                              *)

\* LoadScenarios lists the libraries; a failed list leaves the engine as it is.
LoadScenarios(g, ok) ==
  /\ At(g, "load")
  /\ Call(ok)
  /\ Goto(g, "register")
  /\ listed' = [listed EXCEPT ![g] = IF ok THEN libraries ELSE {}]
  /\ loadedAt' = IF ok THEN changes ELSE Unloaded
  /\ UNCHANGED <<cluster, events, wg, scenarios, monitorsStarted, sources, ready, flow, stopping, late>>

\* One after the other.
RegisterScenario(g, s) ==
  /\ At(g, "register")
  /\ s \in listed[g]
  /\ listed' = [listed EXCEPT ![g] = @ \ {s}]
  /\ scenarios' = scenarios \cup {s}
  /\ UNCHANGED <<cluster, events, loadedAt, pc, wg, monitorsStarted, sources, ready, flow, stopping,
                 faults, late>>

Registered(g) == At(g, "register") /\ listed[g] = {}

\* The engine's Run goes on to its loop.
EngineReady ==
  /\ Registered("engine")
  /\ Goto("engine", "loop")
  /\ ready' = TRUE
  /\ UNCHANGED <<cluster, loading, wg, monitorsStarted, sources, flow, stopping, faults, late>>

\* watchScenarioLibrariesLoop: the list gives the version the watch starts from, and
\* nothing else; the watch delivers every change after it.
ListAndWatch(ok) ==
  /\ At("watcher", "list")
  /\ Call(ok)
  /\ Goto("watcher", IF ok THEN "watch" ELSE "retry")
  /\ events' = 0
  /\ UNCHANGED <<cluster, scenarios, listed, loadedAt, wg, monitorsStarted, sources, ready, flow,
                 stopping, late>>

WatchCloses ==
  /\ At("watcher", "watch")
  /\ faults < MaxFaults
  /\ faults' = faults + 1
  /\ events' = 0
  /\ Goto("watcher", "retry")
  /\ UNCHANGED <<cluster, scenarios, listed, loadedAt, wg, monitorsStarted, sources, ready, flow,
                 stopping, late>>

\* Mutant: an error is retried whatever ctx says.
RetriedAlways ==
  /\ At("watcher", "retry")
  /\ Goto("watcher", "list")
  /\ UNCHANGED <<cluster, loading, wg, monitorsStarted, sources, ready, flow, stopping, faults, late>>

\* WatchScenarioLibraries returns when ctx is done, else it tries again in 5 seconds.
RetryWatch ==
  /\ At("watcher", "retry")
  /\ IF cancelled THEN Ends("watcher") ELSE Goto("watcher", "list") /\ UNCHANGED wg
  /\ UNCHANGED <<cluster, loading, monitorsStarted, sources, ready, flow, stopping, faults, late>>

\* With ctx done the loop returns without an error, and is called once more.
WatchDone ==
  /\ At("watcher", "watch")
  /\ cancelled
  /\ Goto("watcher", "list")
  /\ UNCHANGED <<cluster, loading, wg, monitorsStarted, sources, ready, flow, stopping, faults, late>>

\* Mutant: a reload does not clear the scenarios first.
Kept == scenarios

Cleared == {}

\* Mutant: deletions are not reloaded.
DeletionsIgnored ==
  /\ At("watcher", "watch")
  /\ events > 0
  /\ events' = events - 1
  /\ IF libraries = {} THEN UNCHANGED <<scenarios, pc>> ELSE scenarios' = {} /\ Goto("watcher", "load")
  /\ UNCHANGED <<cluster, listed, loadedAt, wg, monitorsStarted, sources, ready, flow, stopping,
                 faults, late>>

\* An event calls onReload, and ReloadScenarios clears what is loaded.
ReloadScenarios ==
  /\ At("watcher", "watch")
  /\ events > 0
  /\ events' = events - 1
  /\ scenarios' = Cleared
  /\ Goto("watcher", "load")
  /\ UNCHANGED <<cluster, listed, loadedAt, wg, monitorsStarted, sources, ready, flow, stopping,
                 faults, late>>

\* Mutant: the flag is not looked at.
AnyTime == scenarios # {}

StartNow == ~monitorsStarted /\ scenarios # {}

\* The rest of onReload, under monitorsMu; a failed list comes here too.
LateStart ==
  /\ Registered("watcher")
  /\ Start("watcher", "watch", IF StartNow THEN monitors ELSE {})
  /\ UNCHANGED <<cluster, loading, sources, ready, flow, stopping, faults, late>>

-----------------------------------------------------------------------------
(* The monitors.                                                           *)

\* Informers or receiver are started.
MonitorStart(m) ==
  /\ At(m, "start")
  /\ sources' = sources \cup {m}
  /\ Goto(m, "run")
  /\ UNCHANGED <<cluster, loading, wg, monitorsStarted, ready, flow, stopping, faults, late>>

\* No client, or the endpoint is taken: Run returns an error, which is logged.
MonitorFails(m) ==
  /\ At(m, "start")
  /\ faults < MaxFaults
  /\ faults' = faults + 1
  /\ Ends(m)
  /\ UNCHANGED <<cluster, loading, monitorsStarted, sources, ready, flow, stopping, late>>

\* Run returns with ctx: Stop closes stopCh only after that.
MonitorEnds(m) ==
  /\ At(m, "run")
  /\ cancelled
  /\ Ends(m)
  /\ UNCHANGED <<cluster, loading, monitorsStarted, sources, ready, flow, stopping, faults, late>>

\* The informers' goroutines end some time after ctx is done.
InformersEnd ==
  /\ alive
  /\ cancelled
  /\ "k8s" \in sources
  /\ sources' = sources \ {"k8s"}
  /\ UNCHANGED <<cluster, loading, pc, wg, monitorsStarted, ready, flow, stopping, faults, late>>

\* onPodAdd, onPodUpdate, onEventAdd, onEventUpdate and consumeLogs.
SendDetectionInput(m) ==
  /\ alive
  /\ m \in sources
  /\ inputs + changes < MaxEvents
  /\ inputs' = inputs + 1
  /\ Send("input")
  /\ UNCHANGED <<cluster, loading, pc, wg, monitorsStarted, sources, ready, evaluations, stopping,
                 faults, late>>

-----------------------------------------------------------------------------
(* The engine, the controller and the worker.                              *)

\* A select with several ready cases takes any of them.  stopCh is closed by
\* Shutdown, when ctx is done already.
Returns(ch) == cancelled \/ (closed /\ channel[ch] = 0)

Idle == At("engine", "loop") /\ evaluations = 0

ReceiveInput ==
  /\ Idle
  /\ channel.input > 0
  /\ channel' = [channel EXCEPT !.input = @ - 1]
  /\ evaluations' = Cardinality(scenarios)
  /\ UNCHANGED <<cluster, loading, pc, wg, monitorsStarted, sources, ready, panicked, inputs, stopping,
                 faults, late>>

\* A scenario may match and its threshold be met.
Evaluate(met) ==
  /\ At("engine", "loop")
  /\ evaluations > 0
  /\ evaluations' = evaluations - 1
  /\ IF met THEN Send("result") ELSE UNCHANGED <<channel, panicked>>
  /\ UNCHANGED <<cluster, loading, pc, wg, monitorsStarted, sources, ready, inputs, stopping, faults, late>>

EngineReturns ==
  /\ Idle
  /\ Returns("input")
  /\ Ends("engine")
  /\ UNCHANGED <<cluster, loading, monitorsStarted, sources, ready, flow, stopping, faults, late>>

ReceiveResult ==
  /\ At("remediator", "loop")
  /\ channel.result > 0
  /\ channel' = [channel EXCEPT !.result = @ - 1]
  /\ Goto("remediator", "process")
  /\ UNCHANGED <<cluster, loading, wg, monitorsStarted, sources, ready, evaluations, panicked, inputs,
                 stopping, faults, late>>

\* processResult reports a skip, or the result of each action (two at most here);
\* nobody reads the channel.
ReportAction(more) ==
  /\ At("remediator", "process") \/ (At("remediator", "next") /\ ~more)
  /\ Send("action")
  /\ Goto("remediator", IF more THEN "next" ELSE "loop")
  /\ UNCHANGED <<cluster, loading, wg, monitorsStarted, sources, ready, evaluations, inputs, stopping,
                 faults, late>>

\* The leader publishes a task and reports nothing.
TaskPublished ==
  /\ At("remediator", "process")
  /\ Goto("remediator", "loop")
  /\ UNCHANGED <<cluster, loading, wg, monitorsStarted, sources, ready, flow, stopping, faults, late>>

RemediatorReturns ==
  /\ At("remediator", "loop")
  /\ Returns("result")
  /\ Ends("remediator")
  /\ UNCHANGED <<cluster, loading, monitorsStarted, sources, ready, flow, stopping, faults, late>>

-----------------------------------------------------------------------------
(* runPipeline of main, and Pipeline.Shutdown.                             *)

\* A signal, or the end of the leader's ctx, with which Run returns: ctx is cancelled
\* and Shutdown called.
Signal ==
  /\ alive
  /\ ~cancelled
  /\ cancelled' = TRUE
  /\ shutdown' = "begin"
  /\ UNCHANGED <<cluster, loading, pc, wg, monitorsStarted, sources, ready, flow, closed, faults, late, overtaken>>

InShutdown(label) == alive /\ shutdown = label

\* Stop of the receiver gives it 10 seconds to shut down; one that is not there yet
\* is missed.
StopReceiver(inTime) == IF inTime THEN sources \ {"otel"} ELSE sources

\* Stop of the monitors, if they were started; the informers are left to ctx.
StopMonitors(inTime) ==
  /\ InShutdown("begin")
  /\ shutdown' = "layers"
  /\ sources' = IF monitorsStarted THEN StopReceiver(inTime) ELSE sources
  /\ UNCHANGED <<cluster, loading, pc, wg, monitorsStarted, ready, flow, cancelled, closed, faults, late, overtaken>>

\* Stop of engine and controller, which does not wait for them, and the closing of
\* the three channels.
StopLayers ==
  /\ InShutdown("layers")
  /\ shutdown' = "wait"
  /\ ready' = FALSE
  /\ closed' = TRUE
  /\ UNCHANGED <<cluster, loading, pc, wg, monitorsStarted, sources, flow, cancelled, faults, late, overtaken>>

\* Shutdown returns when wg.Wait does, or when its time is over.  Run, which nobody
\* counts, may not have come to block yet.
ShutdownReturns(inTime) ==
  /\ InShutdown("wait")
  /\ inTime => wg = {}
  /\ shutdown' = IF inTime THEN "clean" ELSE "expired"
  /\ overtaken' = (pc["run"] \notin {"block", "ended"})
  /\ UNCHANGED <<cluster, loading, pc, wg, monitorsStarted, sources, ready, flow, cancelled, closed, faults, late>>

\* main exits: at once after an error or standalone, a leader in OnStoppedLeading.
ProcessExits ==
  /\ alive
  /\ shutdown \in {"clean", "expired"}
  /\ shutdown' = "exited"
  /\ UNCHANGED <<cluster, loading, pc, wg, monitorsStarted, sources, ready, flow, cancelled, closed, faults,
                 late, overtaken>>

\* A user adds or removes a scenario.  What changes after ctx is done is left out.
ChangeLibraries(s) ==
  /\ alive
  /\ ~cancelled
  /\ changes < MaxChanges /\ inputs + changes < MaxEvents
  /\ changes' = changes + 1
  /\ UNCHANGED monitors
  /\ libraries' = IF s \in libraries THEN libraries \ {s} ELSE libraries \cup {s}
  /\ events' = IF pc["watcher"] \in {"watch", "load", "register"} THEN events + 1 ELSE events
  /\ UNCHANGED <<scenarios, listed, loadedAt, pc, wg, monitorsStarted, sources, ready, flow, stopping, faults, late>>

-----------------------------------------------------------------------------

RunStep ==
  \/ StartLayers \/ CancelledBeforeReady \/ StartMonitors
  \/ \E deadline \in BOOLEAN : DetectionReady(deadline)

EngineStep ==
  \/ \E ok \in BOOLEAN : LoadScenarios("engine", ok)
  \/ \E s \in Scenario : RegisterScenario("engine", s)
  \/ EngineReady \/ ReceiveInput \/ EngineReturns
  \/ \E met \in BOOLEAN : Evaluate(met)

WatcherStep ==
  \/ \E ok \in BOOLEAN : ListAndWatch(ok) \/ LoadScenarios("watcher", ok)
  \/ \E s \in Scenario : RegisterScenario("watcher", s)
  \/ RetryWatch \/ WatchDone \/ ReloadScenarios \/ LateStart

MonitorStep(m) == MonitorStart(m) \/ MonitorFails(m) \/ MonitorEnds(m)

RemediatorStep ==
  \/ ReceiveResult \/ TaskPublished \/ RemediatorReturns
  \/ \E more \in BOOLEAN : ReportAction(more)

ShutdownStep ==
  \/ \E inTime \in BOOLEAN : StopMonitors(inTime)
  \/ StopLayers \/ ShutdownReturns(TRUE)

Progress ==
  \/ RunStep \/ EngineStep \/ WatcherStep \/ RemediatorStep \/ ShutdownStep
  \/ \E m \in Monitor : MonitorStep(m)

Next ==
  \/ Progress
  \/ \E m \in Monitor : SendDetectionInput(m)
  \/ WatchCloses \/ InformersEnd \/ Signal \/ ShutdownReturns(FALSE) \/ ProcessExits
  \/ \E s \in Scenario : ChangeLibraries(s)

\* As long as a goroutine can go on, one does.  Inputs, changes, signals and the end
\* of a watch or of Shutdown's time need not come.
Spec == Init /\ [][Next]_vars /\ WF_vars(Progress)

-----------------------------------------------------------------------------
(* Properties.                                                             *)

Loads(g) == pc[g] \in {"load", "register"}

\* Whenever no load is under way and the latest one listed the libraries as they are
\* now, the engine has exactly their scenarios, and once the watcher runs they
\* are monitored: a reload leaves nothing behind, and idle mode ends when it must.
\* Not so if the initial load took more than 30 seconds.
LoadedIsCurrent ==
  ~late /\ ~Loads("engine") /\ ~Loads("watcher") /\ loadedAt = changes =>
    /\ scenarios = libraries
    /\ pc["watcher"] # "off" /\ scenarios # {} => monitorsStarted

\* Monitors are started at most once, by Run or by a reload.
StartedOnce == [][\A m \in Monitor : pc'[m] = "start" => pc[m] \in {"off", "start"}]_vars

\* When Shutdown has reported that all components have stopped no goroutine is left or
\* starts again, whatever a reload started meanwhile; but for one that came before Run
\* had started its goroutines, which Run then does.
CleanStop ==
  shutdown = "clean" /\ ~overtaken => \A g \in Goroutine \ {"run"} : pc[g] \in {"off", "ended"}

\* Where the goroutines can be; channels stay within their capacity.
TypeOK ==
  /\ monitors \in Enabled
  /\ libraries \subseteq Scenario /\ scenarios \subseteq Scenario
  /\ listed \in [engine : SUBSET Scenario, watcher : SUBSET Scenario]
  /\ changes \in 0..MaxChanges /\ loadedAt \in 0..Unloaded /\ events \in Nat
  /\ pc \in [Goroutine -> {"off", "start", "wait", "monitors", "block", "load", "register", "loop",
                           "process", "next", "list", "watch", "retry", "run", "ended"}]
  /\ pc["run"] \in {"start", "wait", "monitors", "block", "ended"}
  /\ pc["engine"] \in {"off", "load", "register", "loop", "ended"}
  /\ pc["watcher"] \in {"off", "list", "watch", "retry", "load", "register", "ended"}
  /\ wg \subseteq Goroutine /\ sources \subseteq Monitor
  /\ channel \in [input : 0..BufferSize, result : 0..BufferSize, action : 0..BufferSize]
  /\ evaluations \in Nat /\ inputs \in 0..MaxEvents /\ faults \in 0..MaxFaults
  /\ shutdown \in {"none", "begin", "layers", "wait", "clean", "expired", "exited"}
  /\ {monitorsStarted, ready, late, overtaken, closed, cancelled, panicked} \subseteq BOOLEAN

\* The WaitGroup counts exactly the goroutines under way, and Run is not one of them.
CountTrue == wg = {g \in Goroutine \ {"run"} : pc[g] \notin {"off", "ended"}}

\* Run starts the others in its order: engine and controller, then the watcher and
\* monitors.  Monitors are off as long as monitorsStarted says so.
OrderTrue ==
  /\ pc["run"] = "start" => pc["engine"] = "off" /\ pc["remediator"] = "off"
  /\ pc["run"] # "block" => pc["watcher"] = "off" /\ ~monitorsStarted
  /\ ~monitorsStarted => \A m \in Monitor : pc[m] = "off"

\* If the initial load was in time it is over before a reload begins.  What a load
\* has listed, if that is still current, is registered or about to be; nothing is
\* left of an earlier one; and without monitors there is nothing to monitor.
LoadsTrue ==
  /\ late => pc["run"] \notin {"start", "wait"}
  /\ ready => pc["engine"] \in {"loop", "ended"}
  /\ ~late /\ pc["run"] \in {"monitors", "block"} => pc["engine"] \in {"loop", "ended"}
  /\ pc["engine"] \in {"off", "load"} /\ ~late => scenarios = {} /\ loadedAt = Unloaded
  /\ pc["watcher"] = "load" /\ ~late => scenarios = {}
  /\ loadedAt = Unloaded \/ loadedAt <= changes
  /\ ~late /\ pc["watcher"] # "load" /\ loadedAt = changes =>
       libraries = scenarios \cup (IF pc["engine"] = "register" THEN listed.engine ELSE {})
                             \cup (IF pc["watcher"] = "register" THEN listed.watcher ELSE {})
  /\ ~late /\ pc["watcher"] \notin {"off", "load", "register"} /\ scenarios # {} => monitorsStarted

\* Shutdown has returned in time, and Run has nothing left to start.
StopTrue == shutdown = "clean" /\ ~overtaken => pc["run"] \in {"block", "ended"}

\* The inductive invariant.
IInv == TypeOK /\ CountTrue /\ OrderTrue /\ LoadsTrue /\ StopTrue /\ CleanStop

\* A change that reaches the watch gets into the engine, unless a call fails, the
\* watch closes, the initial load was late or the process stops first.
ChangeApplied ==
  events > 0 ~> \/ scenarios = libraries
                \/ faults > 0 \/ late \/ cancelled

Busy ==
  channel.input + channel.result + evaluations > 0 \/ pc["remediator"] \in {"process", "next"}

\* What enters the pipeline is dealt with: neither a full channel nor one without a
\* reader holds up the engine or the controller for ever.
Flows == Busy ~> ~Busy \/ cancelled

\* Once cancelled every goroutine ends by itself: Shutdown is clean if its time lasts
\* (and no send panics).
StopsByItself == cancelled ~> shutdown \in {"clean", "expired", "exited"} \/ panicked

-----------------------------------------------------------------------------
(* What the repository says and the code does not do.                      *)

\* "After all senders have stopped, close channels" (internal/pipeline/pipeline.go:434):
\* engine, controller and informers may still be at work, and then a send panics.
NoSendOnClosed == ~panicked

=============================================================================

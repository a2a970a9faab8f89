--------------------------- MODULE PipelineProofs ---------------------------
(***************************************************************************)
(* Start, reload and stop of a pipeline, for any scenarios, sets of        *)
(* monitors, channel sizes and numbers of changes, inputs and faults.      *)
(***************************************************************************)
EXTENDS Pipeline, FiniteSetTheorems, TLAPS

\* Nothing runs yet.
LEMMA InitIInv == Init => IInv
<1> SUFFICES ASSUME Init PROVE IInv
  OBVIOUS
<1> USE PipelineAssumption DEF Init, Goroutine, Monitor, Unloaded
<1>1. TypeOK
  <2>1. monitorsStarted = FALSE /\ ready = FALSE /\ late = FALSE /\ overtaken = FALSE /\ closed = FALSE
        /\ cancelled = FALSE /\ panicked = FALSE
    OBVIOUS
  <2>2. {monitorsStarted, ready, late, overtaken, closed, cancelled, panicked} \subseteq BOOLEAN
    BY <2>1
  <2>3. /\ listed \in [engine : SUBSET Scenario, watcher : SUBSET Scenario]
        /\ channel \in [input : 0..BufferSize, result : 0..BufferSize, action : 0..BufferSize]
    OBVIOUS
  <2>4. pc \in [Goroutine -> {"off", "start"}] /\ pc["run"] = "start" /\ pc["engine"] = "off"
        /\ pc["watcher"] = "off"
    OBVIOUS
  <2> QED
    BY <2>2, <2>3, <2>4 DEF TypeOK
<1>2. CountTrue
  BY DEF CountTrue
<1>3. OrderTrue /\ LoadsTrue /\ StopTrue /\ CleanStop
  BY DEF OrderTrue, LoadsTrue, StopTrue, CleanStop
<1> QED
  BY <1>1, <1>2, <1>3 DEF IInv

\* The steps of Run.
LEMMA RunSteps ==
  ASSUME IInv, NEW deadline \in BOOLEAN,
         \/ StartLayers \/ DetectionReady(deadline) \/ CancelledBeforeReady \/ StartMonitors
  PROVE  IInv'
<1> USE PipelineAssumption
    DEF alive, cluster, loading, flow, stopping, IInv, TypeOK, CountTrue, OrderTrue, LoadsTrue,
              StopTrue, CleanStop, Goroutine, Monitor, Unloaded
<1>1. CASE StartLayers
  BY <1>1 DEF StartLayers, goWithWg, At
<1>2. CASE DetectionReady(deadline)
  <2>1. CASE deadline
    BY <1>2, <2>1 DEF DetectionReady, Goto, At
  <2>2. CASE ~deadline
    BY <1>2, <2>2, ZenonT(60) DEF DetectionReady, Goto, At
  <2> QED
    BY <2>1, <2>2
<1>3. CASE CancelledBeforeReady
  BY <1>3 DEF CancelledBeforeReady, Goto, At
<1>4. CASE StartMonitors
  <2>1. monitors \subseteq Monitor /\ monitors # {} /\ ~monitorsStarted /\ "watcher" \notin Monitor
    BY <1>4 DEF StartMonitors, At
  <2>2. CASE scenarios = {}
    <3>1. /\ pc' = [h \in Goroutine |-> IF h = "run" THEN "block" ELSE IF h = "watcher" THEN "list" ELSE pc[h]]
          /\ wg' = wg \cup {"watcher"} /\ monitorsStarted' = FALSE
      BY <1>4, <2>1, <2>2 DEF StartMonitors, Start, goWithWg
    <3>2. TypeOK' /\ CountTrue'
      BY <1>4, <2>1, <2>2, <3>1, ZenonT(60) DEF StartMonitors, At
    <3>3. OrderTrue' /\ LoadsTrue' /\ StopTrue' /\ CleanStop'
      BY <1>4, <2>1, <2>2, <3>1 DEF StartMonitors, At
    <3> QED
      BY <3>2, <3>3
  <2>3. CASE scenarios # {}
    <3>1. /\ pc' = [h \in Goroutine |-> IF h = "run" THEN "block" ELSE IF h = "watcher" THEN "list"
                                         ELSE IF h \in monitors THEN "start" ELSE pc[h]]
          /\ wg' = wg \cup monitors \cup {"watcher"} /\ monitorsStarted' = TRUE
      BY <1>4, <2>1, <2>3, ZenonT(60) DEF StartMonitors, Start, goWithWg
    <3>2. TypeOK'
      <4> DEFINE Label == {"off", "start", "wait", "monitors", "block", "load", "register", "loop",
                           "process", "next", "list", "watch", "retry", "run", "ended"}
      <4>1. pc \in [Goroutine -> Label] /\ "block" \in Label /\ "list" \in Label /\ "start" \in Label
        OBVIOUS
      <4> HIDE DEF Label
      <4>2. pc' \in [Goroutine -> Label]
        BY <3>1, <4>1
      <4>3. pc'["run"] = "block" /\ pc'["engine"] = pc["engine"] /\ pc'["watcher"] = "list"
        BY <2>1, <3>1
      <4>4. wg' \subseteq Goroutine
        BY <2>1, <3>1
      <4> USE DEF Label
      <4> QED
        BY <1>4, <2>1, <3>1, <4>2, <4>3, <4>4, ZenonT(60) DEF StartMonitors, At
    <3>3. CountTrue'
      BY <1>4, <2>1, <2>3, <3>1, ZenonT(60) DEF StartMonitors, At
    <3>4. OrderTrue' /\ LoadsTrue' /\ StopTrue' /\ CleanStop'
      BY <1>4, <2>1, <2>3, <3>1 DEF StartMonitors, At
    <3> QED
      BY <3>2, <3>3, <3>4
  <2> QED
    BY <2>2, <2>3
<1> QED
  BY <1>1, <1>2, <1>3, <1>4

\* A reload that ends idle mode starts the monitors.
LEMMA ReloadStarts ==
  ASSUME monitors \subseteq {"k8s", "otel"}, monitors # {}, Start("watcher", "watch", monitors)
  PROVE  /\ pc' = [h \in Goroutine |-> IF h = "watcher" THEN "watch"
                                       ELSE IF h \in monitors THEN "start" ELSE pc[h]]
         /\ wg' = wg \cup monitors /\ monitorsStarted' = TRUE
<1>1. ASSUME NEW h \in Goroutine
      PROVE  (IF h = "watcher" THEN "watch"
              ELSE IF h \notin monitors THEN pc[h] ELSE IF h = "watcher" THEN "list" ELSE "start")
             = IF h = "watcher" THEN "watch" ELSE IF h \in monitors THEN "start" ELSE pc[h]
  OBVIOUS
<1> QED
  BY <1>1 DEF Start, goWithWg

\* Loads and reloads.
LEMMA LoadSteps ==
  ASSUME IInv, NEW g \in {"engine", "watcher"}, NEW ok \in BOOLEAN,
         \/ LoadScenarios(g, ok) \/ (\E s \in Scenario : RegisterScenario(g, s)) \/ EngineReady \/ ReloadScenarios \/ LateStart
  PROVE  IInv'
<1> USE PipelineAssumption
    DEF alive, cluster, loading, flow, stopping, IInv, TypeOK, CountTrue, OrderTrue, LoadsTrue,
              StopTrue, CleanStop, Goroutine, Monitor, Unloaded
<1>1. CASE LoadScenarios(g, ok)
  BY <1>1 DEF LoadScenarios, Goto, At, Call
<1>2. CASE (\E s \in Scenario : RegisterScenario(g, s))
  BY <1>2 DEF RegisterScenario, At
<1>3. CASE EngineReady
  BY <1>3 DEF EngineReady, Registered, Goto, At
<1>4. CASE ReloadScenarios
  BY <1>4 DEF ReloadScenarios, Cleared, Goto, At
<1>5. CASE LateStart
  <2>1. monitors \subseteq Monitor /\ monitors # {} /\ "watcher" \notin Monitor
    OBVIOUS
  <2>2. CASE StartNow
    <3>1. /\ pc' = [h \in Goroutine |-> IF h = "watcher" THEN "watch"
                                         ELSE IF h \in monitors THEN "start" ELSE pc[h]]
          /\ wg' = wg \cup monitors /\ monitorsStarted' = TRUE
      <4>1. Start("watcher", "watch", monitors)
        BY <1>5, <2>2 DEF LateStart
      <4> QED
        BY <2>1, <4>1, ReloadStarts
    <3> QED
      BY <1>5, <2>1, <2>2, <3>1, ZenonT(60) DEF LateStart, Registered, StartNow, At
  <2>3. CASE ~StartNow
    <3>1. /\ pc' = [h \in Goroutine |-> IF h = "watcher" THEN "watch" ELSE pc[h]]
          /\ wg' = wg /\ monitorsStarted' = monitorsStarted
      BY <1>5, <2>1, <2>3 DEF LateStart, Start, goWithWg
    <3> QED
      BY <1>5, <2>1, <2>3, <3>1 DEF LateStart, Registered, StartNow, At
  <2> QED
    BY <2>2, <2>3
<1> QED
  BY <1>1, <1>2, <1>3, <1>4, <1>5

\* The watch of the ScenarioLibraries.
LEMMA WatchSteps ==
  ASSUME IInv, NEW ok \in BOOLEAN,
         \/ ListAndWatch(ok) \/ WatchCloses \/ RetryWatch \/ WatchDone \/ (\E s \in Scenario : ChangeLibraries(s))
  PROVE  IInv'
<1> USE PipelineAssumption
    DEF alive, cluster, loading, flow, stopping, IInv, TypeOK, CountTrue, OrderTrue, LoadsTrue,
              StopTrue, CleanStop, Goroutine, Monitor, Unloaded
<1>1. CASE ListAndWatch(ok)
  BY <1>1 DEF ListAndWatch, Goto, At, Call
<1>2. CASE WatchCloses
  BY <1>2 DEF WatchCloses, Goto, At
<1>3. CASE RetryWatch
  BY <1>3 DEF RetryWatch, Ends, Goto, At
<1>4. CASE WatchDone
  BY <1>4 DEF WatchDone, Goto, At
<1>5. CASE (\E s \in Scenario : ChangeLibraries(s))
  BY <1>5 DEF ChangeLibraries, flow, stopping
<1> QED
  BY <1>1, <1>2, <1>3, <1>4, <1>5

\* The monitors.
LEMMA MonitorSteps ==
  ASSUME IInv, NEW m \in Monitor,
         \/ MonitorStart(m) \/ MonitorFails(m) \/ MonitorEnds(m) \/ InformersEnd \/ SendDetectionInput(m)
  PROVE  IInv'
<1> USE PipelineAssumption
    DEF alive, cluster, loading, flow, stopping, IInv, TypeOK, CountTrue, OrderTrue, LoadsTrue,
              StopTrue, CleanStop, Goroutine, Monitor, Unloaded
<1>1. CASE MonitorStart(m)
  BY <1>1 DEF MonitorStart, Goto, At
<1>2. CASE MonitorFails(m)
  BY <1>2 DEF MonitorFails, Ends, Goto, At
<1>3. CASE MonitorEnds(m)
  BY <1>3 DEF MonitorEnds, Ends, Goto, At
<1>4. CASE InformersEnd
  BY <1>4 DEF InformersEnd
<1>5. CASE SendDetectionInput(m)
  BY <1>5 DEF SendDetectionInput, Send
<1> QED
  BY <1>1, <1>2, <1>3, <1>4, <1>5

\* Engine and controller.
LEMMA FlowSteps ==
  ASSUME IInv, NEW met \in BOOLEAN,
         \/ ReceiveInput \/ Evaluate(met) \/ EngineReturns \/ ReceiveResult \/ ReportAction(met) \/ TaskPublished \/ RemediatorReturns
  PROVE  IInv'
<1> USE PipelineAssumption
    DEF alive, cluster, loading, flow, stopping, IInv, TypeOK, CountTrue, OrderTrue, LoadsTrue,
              StopTrue, CleanStop, Goroutine, Monitor, Unloaded
<1>1. CASE ReceiveInput
  <2>1. Cardinality(scenarios) \in Nat
    BY FS_Subset, FS_CardinalityType
  <2> QED
    BY <1>1, <2>1 DEF ReceiveInput, Idle, At
<1>2. CASE Evaluate(met)
  BY <1>2 DEF Evaluate, Send, At
<1>3. CASE EngineReturns
  BY <1>3 DEF EngineReturns, Idle, Ends, Goto, At
<1>4. CASE ReceiveResult
  BY <1>4 DEF ReceiveResult, Goto, At
<1>5. CASE ReportAction(met)
  BY <1>5 DEF ReportAction, Send, Goto, At
<1>6. CASE TaskPublished
  BY <1>6 DEF TaskPublished, Goto, At
<1>7. CASE RemediatorReturns
  BY <1>7 DEF RemediatorReturns, Ends, Goto, At
<1> QED
  BY <1>1, <1>2, <1>3, <1>4, <1>5, <1>6, <1>7

\* Signal and Shutdown.
LEMMA StopSteps ==
  ASSUME IInv, NEW inTime \in BOOLEAN,
         \/ Signal \/ StopMonitors(inTime) \/ StopLayers \/ ShutdownReturns(inTime) \/ ProcessExits
  PROVE  IInv'
<1> USE PipelineAssumption
    DEF alive, cluster, loading, flow, stopping, IInv, TypeOK, CountTrue, OrderTrue, LoadsTrue,
              StopTrue, CleanStop, Goroutine, Monitor, Unloaded
<1>1. CASE Signal
  BY <1>1 DEF Signal
<1>2. CASE StopMonitors(inTime)
  BY <1>2 DEF StopMonitors, StopReceiver, InShutdown
<1>3. CASE StopLayers
  BY <1>3, ZenonT(60) DEF StopLayers, InShutdown
<1>4. CASE ShutdownReturns(inTime)
  BY <1>4 DEF ShutdownReturns, InShutdown
<1>5. CASE ProcessExits
  BY <1>5 DEF ProcessExits
<1> QED
  BY <1>1, <1>2, <1>3, <1>4, <1>5

LEMMA NextIInv == IInv /\ [Next]_vars => IInv'
<1> SUFFICES ASSUME IInv, [Next]_vars PROVE IInv'
  OBVIOUS
<1>1. CASE UNCHANGED vars
  BY <1>1 DEF vars, IInv, TypeOK, CountTrue, OrderTrue, LoadsTrue, StopTrue, CleanStop
<1>2. CASE RunStep
  BY <1>2, RunSteps DEF RunStep
<1>3. CASE EngineStep
  BY <1>3, LoadSteps, FlowSteps DEF EngineStep
<1>4. CASE WatcherStep
  BY <1>4, LoadSteps, WatchSteps DEF WatcherStep
<1>5. CASE RemediatorStep
  BY <1>5, FlowSteps DEF RemediatorStep
<1>6. CASE ShutdownStep
  BY <1>6, StopSteps DEF ShutdownStep
<1>7. CASE \E m \in Monitor : MonitorStep(m) \/ SendDetectionInput(m)
  BY <1>7, MonitorSteps DEF MonitorStep
<1>8. CASE WatchCloses \/ InformersEnd \/ Signal \/ ShutdownReturns(FALSE) \/ ProcessExits
  <2>1. "k8s" \in Monitor
    BY DEF Monitor
  <2>2. CASE WatchCloses \/ InformersEnd
    BY <2>1, <2>2, MonitorSteps, WatchSteps
  <2>3. CASE Signal \/ ShutdownReturns(FALSE) \/ ProcessExits
    BY <2>3, StopSteps
  <2> QED
    BY <1>8, <2>2, <2>3
<1>9. CASE \E s \in Scenario : ChangeLibraries(s)
  BY <1>9, WatchSteps
<1> QED
  BY <1>1, <1>2, <1>3, <1>4, <1>5, <1>6, <1>7, <1>8, <1>9 DEF Next, Progress

\* Count, order and contents of what a pipeline starts and loads agree at all times.
THEOREM Invariance == Spec => []IInv
BY InitIInv, NextIInv, PTL DEF Spec

\* When no load is under way and the latest list is current, the engine has exactly
\* the scenarios of the libraries, and they are monitored: ReloadScenarios leaves
\* nothing behind and onReload ends idle mode.
THEOREM CurrentScenarios == Spec => []LoadedIsCurrent
<1>1. IInv => LoadedIsCurrent
  <2> SUFFICES ASSUME IInv, ~late, ~Loads("engine"), ~Loads("watcher"), loadedAt = changes
               PROVE  scenarios = libraries /\ (pc["watcher"] # "off" /\ scenarios # {} => monitorsStarted)
    BY DEF LoadedIsCurrent
  <2> QED
    BY DEF IInv, LoadsTrue, Loads
<1> QED
  BY <1>1, Invariance, PTL

\* A Shutdown that reports success leaves no goroutine of the pipeline behind.
THEOREM StopIsClean == Spec => []CleanStop
<1>1. IInv => CleanStop
  BY DEF IInv
<1> QED
  BY <1>1, Invariance, PTL

\* A step that leaves a monitor at its start found it there, or off.
LEMMA StartSource ==
  ASSUME IInv, [Next]_vars, NEW m \in Monitor, pc'[m] = "start"
  PROVE  pc[m] \in {"off", "start"}
<1> USE DEF At, Goto, Ends, Monitor, Goroutine, IInv, TypeOK
<1>1. CASE UNCHANGED pc
  BY <1>1
<1>2. CASE StartMonitors \/ LateStart
  BY <1>2 DEF StartMonitors, LateStart, StartNow, Start, OrderTrue
<1>3. CASE RunStep /\ ~StartMonitors
  BY <1>3 DEF RunStep, StartLayers, DetectionReady, CancelledBeforeReady
<1>4. CASE EngineStep
  BY <1>4 DEF EngineStep, LoadScenarios, RegisterScenario, EngineReady, ReceiveInput, EngineReturns, Evaluate
<1>5. CASE WatcherStep /\ ~LateStart
  BY <1>5 DEF WatcherStep, ListAndWatch, LoadScenarios, RegisterScenario, RetryWatch, WatchDone, ReloadScenarios
<1>6. CASE RemediatorStep
  BY <1>6 DEF RemediatorStep, ReceiveResult, TaskPublished, RemediatorReturns, ReportAction
<1>7. ASSUME NEW n \in Monitor, MonitorStep(n)
      PROVE  pc[m] \in {"off", "start"}
  BY <1>7 DEF MonitorStep, MonitorStart, MonitorFails, MonitorEnds
<1>8. CASE WatchCloses
  BY <1>8 DEF WatchCloses
<1>9. ShutdownStep \/ InformersEnd \/ Signal \/ ShutdownReturns(FALSE) \/ ProcessExits => UNCHANGED pc
  BY DEF ShutdownStep, StopMonitors, StopLayers, ShutdownReturns, ProcessExits, InformersEnd, Signal
<1>10. (\E n \in Monitor : SendDetectionInput(n)) \/ (\E s \in Scenario : ChangeLibraries(s)) \/ UNCHANGED vars
         => UNCHANGED pc
  BY DEF SendDetectionInput, ChangeLibraries, vars
<1> QED
  BY <1>1, <1>2, <1>3, <1>4, <1>5, <1>6, <1>7, <1>8, <1>9, <1>10 DEF Next, Progress

\* Only Run and the reload that ends idle mode start monitors, and only one of them.
THEOREM OneStart == Spec => StartedOnce
<1>1. ASSUME IInv, [Next]_vars, NEW m \in Monitor, pc'[m] = "start"
      PROVE  pc[m] \in {"off", "start"}
  BY <1>1, StartSource
<1>2. IInv /\ [Next]_vars => [\A m \in Monitor : pc'[m] = "start" => pc[m] \in {"off", "start"}]_vars
  BY <1>1
<1> QED
  BY <1>2, Invariance, PTL DEF Spec, StartedOnce

=============================================================================

------------------------------ MODULE Detection ------------------------------
(***************************************************************************)
(* The detection engine (internal/detection/engine.go).  One goroutine     *)
(* takes inputs from the monitors, matches each against the scenarios that *)
(* were loaded when it took it, counts matches per scenario and resource   *)
(* in a time window and emits a result when the threshold is met.  Two     *)
(* other goroutines interfere: cleanupLoop forgets states, and the hot     *)
(* reload clears the scenarios and registers new ones, one at a time.      *)
(***************************************************************************)
EXTENDS Integers, Sequences

CONSTANTS
  Scenario, Resource,
  NoScenario,        \* not loaded, or not enabled
  Thresholds,        \* the thresholds scenarios may have: [count, window]
  StateExpiration,   \* config Detection.StateExpiration
  InputBuffer,       \* capacity of detectionInputCh
  ResultBuffer,      \* capacity of detectionResultCh
  MaxDelay,          \* how old the timestamp of an input may be: OTLP records bring theirs
  MaxTime,           \* bound: the clock stops here
  MaxInputs,         \* bound: matching inputs
  MaxReloads         \* bound: hot reloads

\* A scenario without a threshold emits at the first match, as count 1 does.
ASSUME DetectionAssumption ==
  /\ Thresholds \subseteq [count : Nat, window : Nat]
  /\ NoScenario \notin Thresholds
  /\ StateExpiration \in Nat /\ InputBuffer \in Nat /\ ResultBuffer \in Nat
  /\ MaxDelay \in Nat /\ MaxTime \in Nat /\ MaxInputs \in Nat /\ MaxReloads \in Nat

VARIABLES
  inputs,      \* detectionInputCh
  scenarios,   \* engineImpl.scenarios
  reload,      \* the hot reload: scenarios listed and not yet registered
  proc,        \* processInput: the input, the scenarios it was given, the state in hand
  state,       \* inMemoryStateStore.states
  results,     \* detectionResultCh
  now,
  observed, reloads,   \* inputs and reloads so far
  matched,     \* history: matches handled per key, with their stamps and times
  emitted      \* history: number of matches handled at the last emission

dvars == <<inputs, scenarios, reload, proc, state, results, now, observed, reloads,
           matched, emitted>>

history == <<matched, emitted>>

-----------------------------------------------------------------------------

Key == Scenario \X Resource   \* types.StateKey

Loaded == [Scenario -> Thresholds \cup {NoScenario}]

Input == [resource : Resource, timestamp : Nat, matches : SUBSET Scenario]

\* exists is FALSE for a key that is not in the map.
State == [exists : BOOLEAN, count : Nat, windowStart : Nat, last : Nat, met : BOOLEAN]

NoState == [exists |-> FALSE, count |-> 0, windowStart |-> 0, last |-> 0, met |-> FALSE]

Nothing == [s \in Scenario |-> NoScenario]

\* The monitors run: the engine loaded some scenario at its start.
Init ==
  /\ inputs = <<>>
  /\ scenarios \in Loaded \ {Nothing}
  /\ reload = [pc |-> "idle", list |-> Nothing]
  /\ proc = [pc |-> "idle"]
  /\ state = [k \in Key |-> NoState]
  /\ results = <<>>
  /\ now = 0
  /\ observed = 0
  /\ reloads = 0
  /\ matched = [k \in Key |-> <<>>]
  /\ emitted = [k \in Key |-> 0]

-----------------------------------------------------------------------------
(* The monitors, and the remediation controller at the other end.          *)

\* An input that the expressions of some scenarios match (others change nothing);
\* a full channel drops it.
Observe(r, t, m) ==
  /\ observed < MaxInputs
  /\ Len(inputs) < InputBuffer
  /\ observed' = observed + 1
  /\ inputs' = Append(inputs, [resource |-> r, timestamp |-> t, matches |-> m])
  /\ UNCHANGED <<scenarios, reload, proc, state, results, now, reloads, history>>

Consume ==
  /\ results # <<>>
  /\ results' = Tail(results)
  /\ UNCHANGED <<inputs, scenarios, reload, proc, state, now, observed, reloads, history>>

-----------------------------------------------------------------------------
(* processInput and handleMatch.                                           *)

\* The scenarios are copied under the read lock, then evaluated in map order.
ProcessInput ==
  LET in == Head(inputs)
      todo == {s \in in.matches : scenarios[s] # NoScenario}
  IN /\ proc.pc = "idle"
     /\ inputs # <<>>
     /\ inputs' = Tail(inputs)
     /\ proc' = IF todo = {} THEN proc
                ELSE [pc |-> "match", input |-> in, given |-> scenarios, todo |-> todo]
     /\ UNCHANGED <<scenarios, reload, state, results, now, observed, reloads, history>>

\* handleMatch reads the state of one of the scenarios.
GetState(s) ==
  /\ proc.pc = "match"
  /\ s \in proc.todo
  /\ proc' = [pc |-> "set", input |-> proc.input, given |-> proc.given, todo |-> proc.todo,
              scenario |-> s, state |-> state[<<s, proc.input.resource>>]]
  /\ UNCHANGED <<inputs, scenarios, reload, state, results, now, observed, reloads, history>>

\* Mutant: the window is never checked.
CountedForever(st, t, threshold) ==
  CASE ~st.exists -> [exists |-> TRUE, count |-> 1, windowStart |-> t, last |-> t, met |-> FALSE]
    [] st.exists /\ st.met -> [st EXCEPT !.last = t]
    [] OTHER -> [st EXCEPT !.count = @ + 1, !.last = t]

\* Mutant: a window that starts before its first match.
CountedFromBefore(st, t, threshold) ==
  [exists |-> TRUE, count |-> st.count + 1, windowStart |-> t - threshold.window, last |-> t,
   met |-> st.met]

\* The match is counted, in a new window if the old one has passed.
Counted(st, t, threshold) ==
  CASE ~st.exists -> [exists |-> TRUE, count |-> 1, windowStart |-> t, last |-> t, met |-> FALSE]
    [] st.exists /\ st.met -> [st EXCEPT !.last = t]
    [] st.exists /\ ~st.met /\ t - st.windowStart > threshold.window ->
         [st EXCEPT !.count = 1, !.windowStart = t, !.last = t]
    [] OTHER -> [st EXCEPT !.count = @ + 1, !.last = t]

Emits(st, threshold) == ~st.met /\ st.count >= threshold.count

\* The rest of handleMatch: count, emit without blocking, store the state.  The
\* threshold counts as met also when the channel was full.
HandleMatch ==
  LET k == <<proc.scenario, proc.input.resource>>
      t == proc.input.timestamp
      threshold == proc.given[proc.scenario]
      st == Counted(proc.state, t, threshold)
      emits == Emits(st, threshold)
      todo == proc.todo \ {proc.scenario}
  IN /\ proc.pc = "set"
     /\ proc' = IF todo = {} THEN [pc |-> "idle"]
                ELSE [pc |-> "match", input |-> proc.input, given |-> proc.given, todo |-> todo]
     /\ state' = [state EXCEPT ![k] = [st EXCEPT !.met = @ \/ emits]]
     /\ results' = IF emits /\ Len(results) < ResultBuffer THEN Append(results, k) ELSE results
     /\ matched' = [matched EXCEPT ![k] = Append(@, [ts |-> t, at |-> now])]
     /\ emitted' = [emitted EXCEPT ![k] = IF emits THEN Len(matched'[k]) ELSE @]
     /\ UNCHANGED <<inputs, scenarios, reload, now, observed, reloads>>

-----------------------------------------------------------------------------
(* cleanupLoop.                                                            *)

\* Mutant: the state expires with its window instead of its last match.
ForgottenByWindow(st) == st.exists /\ st.windowStart < now - StateExpiration

Forgotten(st) == st.exists /\ st.last < now - StateExpiration

Cleanup ==
  /\ \E k \in Key : Forgotten(state[k])
  /\ state' = [k \in Key |-> IF Forgotten(state[k]) THEN NoState ELSE state[k]]
  /\ UNCHANGED <<inputs, scenarios, reload, proc, results, now, observed, reloads, history>>

-----------------------------------------------------------------------------
(* ReloadScenarios, called by the watcher of ScenarioLibraries.            *)

ReloadClear ==
  /\ reload.pc = "idle"
  /\ reloads < MaxReloads
  /\ reloads' = reloads + 1
  /\ scenarios' = Nothing
  /\ reload' = [pc |-> "list", list |-> Nothing]
  /\ UNCHANGED <<inputs, proc, state, results, now, observed, history>>

\* The list is what the ScenarioLibraries say now, or nothing when it fails.
ReloadList(list) ==
  /\ reload.pc = "list"
  /\ reload' = IF list = Nothing THEN [pc |-> "idle", list |-> Nothing]
               ELSE [pc |-> "register", list |-> list]
  /\ UNCHANGED <<inputs, scenarios, proc, state, results, now, observed, reloads, history>>

ReloadRegister(s) ==
  LET rest == [reload.list EXCEPT ![s] = NoScenario]
  IN /\ reload.pc = "register"
     /\ reload.list[s] # NoScenario
     /\ scenarios' = [scenarios EXCEPT ![s] = reload.list[s]]
     /\ reload' = IF rest = Nothing THEN [pc |-> "idle", list |-> Nothing]
                  ELSE [pc |-> "register", list |-> rest]
     /\ UNCHANGED <<inputs, proc, state, results, now, observed, reloads, history>>

Tick ==
  /\ now < MaxTime
  /\ now' = now + 1
  /\ UNCHANGED <<inputs, scenarios, reload, proc, state, results, observed, reloads, history>>

Stamp == {t \in 0..now : t >= now - MaxDelay}

Next ==
  \/ \E r \in Resource, t \in Stamp, m \in SUBSET Scenario : m # {} /\ Observe(r, t, m)
  \/ ProcessInput
  \/ \E s \in Scenario : GetState(s) \/ ReloadRegister(s)
  \/ HandleMatch
  \/ Consume
  \/ Cleanup
  \/ ReloadClear
  \/ \E list \in Loaded : ReloadList(list)
  \/ Tick

Spec == Init /\ [][Next]_dvars

-----------------------------------------------------------------------------
(* Properties.                                                             *)

\* Type correctness of the engine's memory and channels, which stay in capacity.
TypeOK ==
  /\ inputs \in Seq(Input) /\ Len(inputs) <= InputBuffer
  /\ scenarios \in Loaded
  /\ reload \in [pc : {"idle", "list", "register"}, list : Loaded]
  /\ \/ proc = [pc |-> "idle"]
     \/ proc \in [pc : {"match"}, input : Input, given : Loaded, todo : SUBSET Scenario]
     \/ proc \in [pc : {"set"}, input : Input, given : Loaded, todo : SUBSET Scenario,
                  scenario : Scenario, state : State]
  /\ state \in [Key -> State]
  /\ results \in Seq(Key) /\ Len(results) <= ResultBuffer
  /\ now \in Nat /\ observed \in Nat /\ reloads \in Nat
  /\ matched \in [Key -> Seq([ts : Nat, at : Nat])]
  /\ emitted \in [Key -> Nat]

Emission(k) == emitted'[k] # emitted[k]

\* A result is never emitted without cause: the threshold's number of matches was
\* really handled, close enough together for its window but for the delay of
\* their stamps, although states are forgotten and thresholds reloaded meanwhile.
EmissionsJustified ==
  [][\A k \in Key : Emission(k) =>
       LET threshold == proc.given[k[1]]
           m == matched'[k]
           n == Len(m)
       IN /\ threshold.count <= n
          /\ \A i, j \in (n - threshold.count + 1)..n :
               m[i].ts - m[j].ts <= threshold.window + 2 * MaxDelay]_dvars

\* A problem that goes on is reported once: between two emissions for a key the
\* engine went StateExpiration without a newer match, whatever Cleanup raced with.
EmittedOnce ==
  [][\A k \in Key : Emission(k) /\ emitted[k] > 0 =>
       \E i \in emitted[k]..(Len(matched'[k]) - 1) :
         matched'[k][i + 1].at > matched'[k][i].ts + StateExpiration]_dvars

-----------------------------------------------------------------------------
(* The inductive invariant.                                                *)

\* Inputs come in the order in which they were observed, so an earlier one has a
\* newer stamp by at most the delay.
InOrder(earlier, later) == earlier <= later + MaxDelay

\* From the first match to the last input in the channel.
StampsTrue ==
  /\ \A i \in 1..Len(inputs) :
       /\ inputs[i].timestamp <= now
       /\ \A j \in i..Len(inputs) : InOrder(inputs[i].timestamp, inputs[j].timestamp)
  /\ proc.pc # "idle" =>
       /\ proc.input.timestamp <= now
       /\ \A j \in 1..Len(inputs) : InOrder(proc.input.timestamp, inputs[j].timestamp)
  /\ \A k \in Key : \A i \in 1..Len(matched[k]) :
       /\ matched[k][i].ts <= now
       /\ \A j \in i..Len(matched[k]) : InOrder(matched[k][i].ts, matched[k][j].ts)
       /\ proc.pc # "idle" => InOrder(matched[k][i].ts, proc.input.timestamp)
       /\ \A j \in 1..Len(inputs) : InOrder(matched[k][i].ts, inputs[j].timestamp)

\* What a state counts are the latest matches, and the window began with the first of them.
WindowTrue(k, st) ==
  st.exists /\ ~st.met =>
    /\ st.count \in 1..Len(matched[k])
    /\ st.windowStart = matched[k][Len(matched[k]) - st.count + 1].ts

\* StateExpiration has passed between two matches since the last emission.
Gap(k) ==
  \E i \in emitted[k]..(Len(matched[k]) - 1) : matched[k][i + 1].at > matched[k][i].ts + StateExpiration

\* A problem that was reported is remembered as such up to its latest match, or was
\* forgotten for good reason.
ReportTrue(k, st) ==
  emitted[k] > 0 =>
    \/ Gap(k)
    \/ st.exists /\ st.met /\ st.last = matched[k][Len(matched[k])].ts
    \/ ~st.exists /\ now > matched[k][Len(matched[k])].ts + StateExpiration

\* Both hold of the stored state, and of the one handleMatch has in hand although
\* Cleanup may have removed it since.
StateTrue ==
  /\ \A k \in Key : emitted[k] <= Len(matched[k]) /\ WindowTrue(k, state[k]) /\ ReportTrue(k, state[k])
  /\ proc.pc = "set" =>
       LET k == <<proc.scenario, proc.input.resource>>
       IN WindowTrue(k, proc.state) /\ ReportTrue(k, proc.state)

\* Only scenarios that were loaded when the input was taken are matched.
ProcTrue ==
  /\ proc.pc # "idle" => \A s \in proc.todo : proc.given[s] # NoScenario
  /\ proc.pc = "set" => proc.scenario \in proc.todo

\* What the engine remembers of each problem is true of the matches it handled.
IInv == TypeOK /\ StampsTrue /\ StateTrue /\ ProcTrue

=============================================================================

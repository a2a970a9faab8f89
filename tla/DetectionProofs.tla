--------------------------- MODULE DetectionProofs ---------------------------
(***************************************************************************)
(* Emissions of the detection engine, for any scenarios, resources,        *)
(* thresholds, delays and channel sizes.                                   *)
(***************************************************************************)
EXTENDS Detection, TLAPS

\* What the engine has in hand, by the place it is at.
LEMMA ProcType ==
  ASSUME TypeOK
  PROVE  /\ proc.pc \in {"idle", "match", "set"}
         /\ proc.pc = "idle" => proc = [pc |-> "idle"]
         /\ proc.pc # "idle" => proc.input \in Input /\ proc.given \in Loaded /\ proc.todo \subseteq Scenario
         /\ proc.pc = "set" => proc.scenario \in Scenario /\ proc.state \in State
BY DEF TypeOK

\* Stamps and times are numbers.
LEMMA StampType ==
  ASSUME TypeOK
  PROVE  /\ now \in Nat
         /\ \A i \in 1..Len(inputs) : inputs[i].timestamp \in Nat
         /\ proc.pc # "idle" => proc.input.timestamp \in Nat
         /\ \A k \in Key : \A i \in 1..Len(matched[k]) : matched[k][i].ts \in Nat /\ matched[k][i].at \in Nat
<1>1. ASSUME NEW i \in 1..Len(inputs) PROVE inputs[i].timestamp \in Nat
  <2>1. inputs[i] \in Input
    BY DEF TypeOK
  <2> QED
    BY <2>1 DEF Input
<1>2. proc.pc # "idle" => proc.input.timestamp \in Nat
  BY ProcType DEF Input
<1>3. ASSUME NEW k \in Key, NEW i \in 1..Len(matched[k])
      PROVE  matched[k][i].ts \in Nat /\ matched[k][i].at \in Nat
  <2> DEFINE Match == [ts : Nat, at : Nat]
  <2>1. matched[k] \in Seq(Match)
    BY DEF TypeOK
  <2> HIDE DEF Match
  <2>2. matched[k][i] \in Match
    BY <2>1
  <2> QED
    BY <2>2 DEF Match
<1> QED
  BY <1>1, <1>2, <1>3 DEF TypeOK

\* The engine starts without inputs and states.
LEMMA InitIInv == Init => IInv
<1> SUFFICES ASSUME Init PROVE IInv
  OBVIOUS
<1> USE DetectionAssumption DEF Init
<1>1. TypeOK
  <2>1. Nothing \in Loaded
    BY DEF Nothing, Loaded
  <2>2. NoState \in State
    BY DEF NoState, State
  <2> QED
    BY <2>1, <2>2 DEF TypeOK
<1>2. StampsTrue /\ StateTrue /\ ProcTrue
  BY DEF StampsTrue, StateTrue, ProcTrue, WindowTrue, ReportTrue, NoState
<1> QED
  BY <1>1, <1>2 DEF IInv

\* Steps that leave inputs, memory and history alone.
LEMMA Untouched ==
  ASSUME IInv, TypeOK', UNCHANGED <<inputs, proc, state, now, matched, emitted>>
  PROVE  IInv'
BY DEF IInv, StampsTrue, StateTrue, ProcTrue, WindowTrue, ReportTrue, Gap, InOrder

\* An observation has a stamp that is not older than the delay.
LEMMA ObserveStep ==
  ASSUME IInv, NEW r \in Resource, NEW t \in Stamp, NEW m \in SUBSET Scenario, Observe(r, t, m)
  PROVE  IInv'
<1> DEFINE in == [resource |-> r, timestamp |-> t, matches |-> m]
<1> USE DetectionAssumption
<1>1. /\ inputs' = Append(inputs, in) /\ Len(inputs) < InputBuffer /\ observed' = observed + 1
      /\ UNCHANGED <<scenarios, reload, proc, state, results, now, reloads, matched, emitted>>
  BY DEF Observe, history
<1>2. inputs \in Seq(Input) /\ now \in Nat /\ t \in 0..now /\ t + MaxDelay >= now /\ in \in Input
  BY DEF IInv, TypeOK, Stamp, Input
<1>3. /\ inputs' \in Seq(Input) /\ Len(inputs') = Len(inputs) + 1
      /\ \A i \in 1..Len(inputs) : inputs'[i] = inputs[i]
      /\ inputs'[Len(inputs) + 1].timestamp = t
  BY <1>1, <1>2
<1> HIDE DEF in
<1>4. TypeOK'
  BY <1>1, <1>3 DEF IInv, TypeOK
<1>6. StampsTrue'
  <2>0. Len(inputs) \in Nat /\ MaxDelay \in Nat
    BY <1>2, DetectionAssumption
  <2>1. ASSUME NEW i \in 1..Len(inputs')
        PROVE  /\ inputs'[i].timestamp <= now
               /\ \A j \in i..Len(inputs') : InOrder(inputs'[i].timestamp, inputs'[j].timestamp)
    <3> USE <1>1, <1>2, <1>3, StampType DEF IInv, StampsTrue, InOrder
    <3> QED
      BY <2>1
  <2>2. proc.pc # "idle" => \A j \in 1..Len(inputs') : InOrder(proc.input.timestamp, inputs'[j].timestamp)
    BY <1>1, <1>2, <1>3, StampType DEF IInv, StampsTrue, InOrder
  <2>3. ASSUME NEW k \in Key, NEW i \in 1..Len(matched[k]), NEW j \in 1..Len(inputs')
        PROVE  InOrder(matched[k][i].ts, inputs'[j].timestamp)
    <3>1. CASE j = Len(inputs) + 1
      <4>1. inputs'[j].timestamp = t
        BY <1>3, <3>1
      <4>2. matched[k][i].ts \in Nat /\ matched[k][i].ts <= now
        BY StampType DEF IInv, StampsTrue
      <4> QED
        BY <1>2, <2>0, <4>1, <4>2 DEF InOrder
    <3>2. CASE j # Len(inputs) + 1
      <4>1. j \in 1..Len(inputs)
        BY <1>3, <2>0, <3>2
      <4>2. InOrder(matched[k][i].ts, inputs[j].timestamp)
        BY <4>1 DEF IInv, StampsTrue
      <4> QED
        BY <1>3, <4>1, <4>2
    <3> QED
      BY <3>1, <3>2
  <2> HIDE DEF InOrder
  <2> QED
    BY <1>1, <2>1, <2>2, <2>3 DEF IInv, StampsTrue
<1>7. StateTrue' /\ ProcTrue'
  BY <1>1 DEF IInv, StateTrue, ProcTrue, WindowTrue, ReportTrue, Gap
<1> QED
  BY <1>4, <1>6, <1>7 DEF IInv

\* processInput takes the oldest input.
LEMMA ProcessInputStep ==
  ASSUME IInv, ProcessInput
  PROVE  IInv'
<1> USE DetectionAssumption
<1>1. /\ proc.pc = "idle" /\ inputs \in Seq(Input) /\ inputs # <<>> /\ inputs' = Tail(inputs)
      /\ UNCHANGED <<scenarios, reload, state, results, now, observed, reloads, matched, emitted>>
  BY DEF ProcessInput, history, IInv, TypeOK
<1>2. /\ inputs' \in Seq(Input) /\ Len(inputs') = Len(inputs) - 1 /\ Len(inputs) >= 1
      /\ \A i \in 1..Len(inputs') : inputs'[i] = inputs[i + 1]
      /\ Head(inputs) = inputs[1] /\ Head(inputs) \in Input
  BY <1>1
<1>3. \/ proc' = proc
      \/ /\ proc' = [pc |-> "match", input |-> inputs[1], given |-> scenarios, todo |-> proc'.todo]
         /\ proc'.todo = {s \in inputs[1].matches : scenarios[s] # NoScenario}
  BY <1>2 DEF ProcessInput
<1>4. TypeOK'
  <2>1. proc' = proc \/ proc' \in [pc : {"match"}, input : Input, given : Loaded, todo : SUBSET Scenario]
    <3>1. inputs[1] \in Input /\ inputs[1].matches \subseteq Scenario /\ scenarios \in Loaded
      BY <1>2 DEF Input, IInv, TypeOK
    <3>2. CASE proc' # proc
      <4>1. proc'.todo \subseteq Scenario
        BY <1>3, <3>1, <3>2
      <4> QED
        BY <1>3, <3>1, <3>2, <4>1
    <3> QED
      BY <3>2
  <2> QED
    BY <1>1, <1>2, <2>1 DEF IInv, TypeOK
<1>5. StampsTrue'
  <2>2. proc'.pc # "idle" => proc'.input = inputs[1]
    BY <1>1, <1>3
  <2> QED
    BY <1>1, <1>2, <2>2, StampType DEF IInv, StampsTrue, InOrder
<1>6. StateTrue'
  <2>1. proc'.pc # "set"
    BY <1>1, <1>3
  <2> QED
    BY <1>1, <2>1 DEF IInv, StateTrue, WindowTrue, ReportTrue, Gap
<1>7. ProcTrue'
  BY <1>1, <1>3 DEF ProcTrue
<1> QED
  BY <1>4, <1>5, <1>6, <1>7 DEF IInv

\* handleMatch reads a state.
LEMMA GetStateStep ==
  ASSUME IInv, NEW s \in Scenario, GetState(s)
  PROVE  IInv'
<1> DEFINE k == <<s, proc.input.resource>>
<1>1. /\ proc.pc = "match" /\ s \in proc.todo
      /\ proc' = [pc |-> "set", input |-> proc.input, given |-> proc.given, todo |-> proc.todo,
                  scenario |-> s, state |-> state[k]]
      /\ UNCHANGED <<inputs, scenarios, reload, state, results, now, observed, reloads, matched, emitted>>
  BY DEF GetState, history
<1>2. k \in Key /\ state[k] \in State
  BY <1>1, ProcType DEF IInv, TypeOK, Key, Input
<1> HIDE DEF k
<1>3. TypeOK'
  BY <1>1, <1>2, ProcType DEF IInv, TypeOK
<1>4. StampsTrue'
  BY <1>1 DEF IInv, StampsTrue, InOrder
<1>5. StateTrue'
  <2>1. <<proc'.scenario, proc'.input.resource>> = k /\ proc'.state = state[k]
    BY <1>1 DEF k
  <2>2. ASSUME NEW q \in Key
        PROVE  /\ emitted'[q] <= Len(matched'[q])
               /\ WindowTrue(q, state[q])' /\ ReportTrue(q, state[q])'
    <3>1. emitted[q] <= Len(matched[q]) /\ WindowTrue(q, state[q]) /\ ReportTrue(q, state[q])
      BY DEF IInv, StateTrue
    <3> QED
      BY <1>1, <3>1 DEF WindowTrue, ReportTrue, Gap
  <2>3. WindowTrue(k, state[k]) /\ ReportTrue(k, state[k])
    BY <1>2 DEF IInv, StateTrue
  <2>4. WindowTrue(<<proc.scenario, proc.input.resource>>, proc.state)'
    BY <1>1, <2>1, <2>3 DEF WindowTrue
  <2>5. ReportTrue(<<proc.scenario, proc.input.resource>>, proc.state)'
    BY <1>1, <2>1, <2>3 DEF ReportTrue, Gap
  <2> QED
    BY <2>2, <2>4, <2>5 DEF StateTrue
<1>6. ProcTrue'
  BY <1>1 DEF IInv, ProcTrue
<1> QED
  BY <1>3, <1>4, <1>5, <1>6 DEF IInv

\* What counting a match makes of a state: either a window that begins with the match,
\* or one match more in a window that is not over.
LEMMA CountedFacts ==
  ASSUME NEW st \in State, NEW t \in Nat, NEW threshold \in [count : Nat, window : Nat]
  PROVE  LET c == Counted(st, t, threshold)
         IN /\ c \in State /\ c.exists /\ c.last = t
            /\ c.met <=> st.exists /\ st.met
            /\ ~c.met => \/ c.count = 1 /\ c.windowStart = t
                         \/ /\ st.exists /\ ~st.met /\ c.count = st.count + 1
                            /\ c.windowStart = st.windowStart /\ t - st.windowStart <= threshold.window
<1> DEFINE c == Counted(st, t, threshold)
<1>1. CASE ~st.exists
  <2>1. c = [exists |-> TRUE, count |-> 1, windowStart |-> t, last |-> t, met |-> FALSE]
    BY <1>1 DEF Counted
  <2> QED
    BY <1>1, <2>1 DEF State
<1>2. CASE st.exists /\ st.met
  <2>1. c = [st EXCEPT !.last = t]
    BY <1>2 DEF Counted
  <2> HIDE DEF c
  <2>2. c \in State /\ c.exists = st.exists /\ c.last = t /\ c.met = st.met
    BY <2>1 DEF State
  <2> QED
    BY <1>2, <2>2 DEF c
<1>3. CASE st.exists /\ ~st.met /\ t - st.windowStart > threshold.window
  <2>1. c = [st EXCEPT !.count = 1, !.windowStart = t, !.last = t]
    BY <1>3 DEF Counted
  <2> HIDE DEF c
  <2>2. c \in State /\ c.exists = st.exists /\ c.last = t /\ c.met = st.met /\ c.count = 1 /\ c.windowStart = t
    BY <2>1 DEF State
  <2> QED
    BY <1>3, <2>2 DEF c
<1>4. CASE st.exists /\ ~st.met /\ ~(t - st.windowStart > threshold.window)
  <2> DEFINE more == st.count + 1
  <2>1. c = [st EXCEPT !.count = more, !.last = t]
    BY <1>4 DEF Counted
  <2>4. more \in Nat /\ more = st.count + 1
    BY DEF State
  <2> HIDE DEF c, more
  <2>2. /\ c \in State /\ c.exists = st.exists /\ c.last = t /\ c.met = st.met /\ c.count = st.count + 1
        /\ c.windowStart = st.windowStart
    BY <2>1, <2>4 DEF State
  <2>3. t - st.windowStart <= threshold.window
    BY <1>4 DEF State
  <2> QED
    BY <1>4, <2>2, <2>3 DEF c
<1> QED
  BY <1>1, <1>2, <1>3, <1>4

\* handleMatch in terms of the key it handles, the counted state and the history.
LEMMA HandleMatchFacts ==
  ASSUME IInv, HandleMatch
  PROVE  LET k == <<proc.scenario, proc.input.resource>>
             t == proc.input.timestamp
             threshold == proc.given[proc.scenario]
             c == Counted(proc.state, t, threshold)
             emits == ~c.met /\ c.count >= threshold.count
             n == Len(matched[k])
         IN /\ k \in Key /\ t \in Nat /\ n \in Nat /\ threshold \in [count : Nat, window : Nat]
            /\ proc.pc = "set" /\ proc.state \in State
            /\ state' = [state EXCEPT ![k] = [c EXCEPT !.met = c.met \/ emits]]
            /\ matched' = [matched EXCEPT ![k] = Append(matched[k], [ts |-> t, at |-> now])]
            /\ Len(matched'[k]) = n + 1
            /\ \A i \in 1..n : matched'[k][i] = matched[k][i]
            /\ matched'[k][n + 1] = [ts |-> t, at |-> now]
            /\ \A j \in Key : j # k => matched'[j] = matched[j]
            /\ emitted' = [emitted EXCEPT ![k] = IF emits THEN n + 1 ELSE emitted[k]]
            /\ UNCHANGED <<inputs, scenarios, reload, now, observed, reloads>>
<1> DEFINE k == <<proc.scenario, proc.input.resource>>
           t == proc.input.timestamp
           threshold == proc.given[proc.scenario]
           c == Counted(proc.state, t, threshold)
           emits == ~c.met /\ c.count >= threshold.count
           n == Len(matched[k])
           M == [ts : Nat, at : Nat]
           m == [ts |-> t, at |-> now]
<1>1. /\ proc.pc = "set" /\ proc.scenario \in Scenario /\ proc.state \in State /\ proc.input \in Input
      /\ proc.given \in Loaded /\ now \in Nat
  BY ProcType DEF HandleMatch, IInv, TypeOK
<1>2. k \in Key /\ t \in Nat
  BY <1>1 DEF Key, Input
<1>3. threshold \in [count : Nat, window : Nat]
  BY <1>1, DetectionAssumption DEF IInv, ProcTrue, Loaded
<1>4. m \in M /\ matched \in [Key -> Seq(M)] /\ emitted \in [Key -> Nat]
  BY <1>1, <1>2 DEF IInv, TypeOK
<1>5. /\ matched' = [matched EXCEPT ![k] = Append(matched[k], m)]
      /\ state' = [state EXCEPT ![k] = [c EXCEPT !.met = c.met \/ emits]]
      /\ emitted' = [emitted EXCEPT ![k] = IF emits THEN Len(matched'[k]) ELSE emitted[k]]
      /\ UNCHANGED <<inputs, scenarios, reload, now, observed, reloads>>
  BY DEF HandleMatch, Emits
<1> HIDE DEF M, m, c, k, threshold
<1>6. /\ matched[k] \in Seq(M) /\ matched'[k] = Append(matched[k], m)
      /\ \A j \in Key : j # k => matched'[j] = matched[j]
  BY <1>2, <1>4, <1>5
<1>7. /\ n \in Nat /\ Len(matched'[k]) = n + 1 /\ matched'[k][n + 1] = m
      /\ \A i \in 1..n : matched'[k][i] = matched[k][i]
  BY <1>4, <1>6
<1> QED
  BY <1>1, <1>2, <1>3, <1>5, <1>6, <1>7 DEF k, m, c, threshold

\* handleMatch: the new state counts the match, and remembers an emission.
LEMMA HandleMatchStep ==
  ASSUME IInv, HandleMatch
  PROVE  IInv'
<1> DEFINE k == <<proc.scenario, proc.input.resource>>
           t == proc.input.timestamp
           threshold == proc.given[proc.scenario]
           st == proc.state
           c == Counted(st, t, threshold)
           emits == ~c.met /\ c.count >= threshold.count
           n == Len(matched[k])
           new == [c EXCEPT !.met = c.met \/ emits]
<1>1. /\ k \in Key /\ t \in Nat /\ n \in Nat /\ threshold \in [count : Nat, window : Nat]
      /\ proc.pc = "set" /\ st \in State
      /\ state' = [state EXCEPT ![k] = new]
      /\ matched' = [matched EXCEPT ![k] = Append(matched[k], [ts |-> t, at |-> now])]
      /\ Len(matched'[k]) = n + 1
      /\ \A i \in 1..n : matched'[k][i] = matched[k][i]
      /\ matched'[k][n + 1] = [ts |-> t, at |-> now]
      /\ \A j \in Key : j # k => matched'[j] = matched[j]
      /\ emitted' = [emitted EXCEPT ![k] = IF emits THEN n + 1 ELSE emitted[k]]
      /\ UNCHANGED <<inputs, scenarios, reload, now, observed, reloads>>
  BY HandleMatchFacts
<1>2. /\ c \in State /\ c.exists /\ c.last = t
      /\ c.met <=> st.exists /\ st.met
      /\ ~c.met => \/ c.count = 1 /\ c.windowStart = t
                   \/ /\ st.exists /\ ~st.met /\ c.count = st.count + 1
                      /\ c.windowStart = st.windowStart /\ t - st.windowStart <= threshold.window
  <2> HIDE DEF k, threshold, st, t
  <2> QED
    BY <1>1, CountedFacts
<1>3. /\ proc'.pc # "set"
      /\ proc'.pc # "idle" => /\ proc'.input = proc.input /\ proc'.given = proc.given
                              /\ proc'.todo = proc.todo \ {proc.scenario}
      /\ \/ proc' = [pc |-> "idle"]
         \/ proc' = [pc |-> "match", input |-> proc.input, given |-> proc.given,
                     todo |-> proc.todo \ {proc.scenario}]
      /\ results' = results \/ (Len(results) < ResultBuffer /\ results' = Append(results, k))
  BY DEF HandleMatch
<1>4. WindowTrue(k, st) /\ ReportTrue(k, st)
  BY <1>1 DEF IInv, StateTrue
<1> HIDE DEF c, k, threshold, st
<1>5. /\ new \in State /\ new.exists /\ new.last = t /\ new.count = c.count
      /\ new.windowStart = c.windowStart /\ (new.met <=> c.met \/ emits)
  BY <1>2 DEF State
<1> HIDE DEF new
<1>6. TypeOK'
  <2> DEFINE M == [ts : Nat, at : Nat]
             m == [ts |-> t, at |-> now]
  <2>1. m \in M /\ matched \in [Key -> Seq(M)] /\ now \in Nat
    BY <1>1 DEF IInv, TypeOK
  <2>2. state' \in [Key -> State]
    BY <1>1, <1>5 DEF IInv, TypeOK
  <2>3. results' \in Seq(Key) /\ Len(results') <= ResultBuffer
    <3>1. results \in Seq(Key) /\ Len(results) <= ResultBuffer /\ ResultBuffer \in Nat
      BY DetectionAssumption DEF IInv, TypeOK
    <3>2. k \in Key
      BY <1>1
    <3>3. CASE results' = results
      BY <3>1, <3>3
    <3>4. CASE Len(results) < ResultBuffer /\ results' = Append(results, k)
      BY <3>1, <3>2, <3>4
    <3> QED
      BY <1>3, <3>3, <3>4
  <2>4. emitted' \in [Key -> Nat]
    BY <1>1 DEF IInv, TypeOK
  <2>5. \/ proc' = [pc |-> "idle"]
        \/ proc' \in [pc : {"match"}, input : Input, given : Loaded, todo : SUBSET Scenario]
    BY <1>1, <1>3, ProcType DEF IInv
  <2>6. matched' \in [Key -> Seq(M)]
    <3> HIDE DEF M, m
    <3>1. matched' = [matched EXCEPT ![k] = Append(matched[k], m)]
      BY <1>1 DEF m
    <3> QED
      BY <1>1, <2>1, <3>1
  <2> HIDE DEF m
  <2> QED
    BY <1>1, <2>2, <2>3, <2>4, <2>5, <2>6 DEF IInv, TypeOK
<1>7. StampsTrue'
  <2> USE StampType DEF InOrder
  <2>1. t <= now /\ \A j \in 1..Len(inputs) : InOrder(t, inputs[j].timestamp)
    BY <1>1 DEF IInv, StampsTrue
  <2>2. \A i \in 1..n : matched[k][i].ts <= now /\ InOrder(matched[k][i].ts, t)
    BY <1>1 DEF IInv, StampsTrue
  <2>3. ASSUME NEW j \in Key, NEW i \in 1..Len(matched'[j])
        PROVE  /\ matched'[j][i].ts <= now
               /\ \A l \in i..Len(matched'[j]) : InOrder(matched'[j][i].ts, matched'[j][l].ts)
               /\ InOrder(matched'[j][i].ts, t)
               /\ \A l \in 1..Len(inputs) : InOrder(matched'[j][i].ts, inputs[l].timestamp)
    <3>1. CASE j # k
      BY <1>1, <3>1 DEF IInv, StampsTrue
    <3>2. CASE j = k /\ i = n + 1
      <4>1. matched'[j][i].ts = t /\ Len(matched'[j]) = i
        BY <1>1, <3>2
      <4>2. t \in Nat /\ MaxDelay \in Nat /\ i \in Nat
        BY <1>1, DetectionAssumption
      <4>3. InOrder(t, t)
        BY <4>2
      <4>4. ASSUME NEW l \in i..Len(matched'[j]) PROVE l = i
        <5>1. Len(matched'[j]) = i
          BY <4>1
        <5> QED
          BY <4>2, <5>1
      <4> HIDE DEF InOrder, t
      <4> QED
        BY <2>1, <4>1, <4>3, <4>4
    <3>3. CASE j = k /\ i # n + 1
      <4>1. i \in 1..n /\ matched'[j][i] = matched[k][i] /\ Len(matched'[j]) = n + 1 /\ matched'[j][n + 1].ts = t
        BY <1>1, <3>3
      <4>2. ASSUME NEW l \in i..(n + 1) PROVE InOrder(matched[k][i].ts, matched'[k][l].ts)
        <5>1. CASE l = n + 1
          BY <2>2, <3>3, <4>1, <5>1
        <5>2. CASE l # n + 1
          <6>1. l \in i..n /\ l \in 1..n /\ matched'[k][l] = matched[k][l]
            BY <1>1, <4>1, <5>2
          <6> QED
            BY <1>1, <4>1, <6>1 DEF IInv, StampsTrue
        <5> QED
          BY <5>1, <5>2
      <4>3. \A l \in 1..Len(inputs) : InOrder(matched[k][i].ts, inputs[l].timestamp)
        BY <1>1, <4>1 DEF IInv, StampsTrue
      <4> QED
        BY <2>2, <3>3, <4>1, <4>2, <4>3
    <3> QED
      BY <3>1, <3>2, <3>3
  <2>4. proc'.pc # "idle" => proc'.input.timestamp = t
    BY <1>3
  <2>5. /\ \A i \in 1..Len(inputs) :
             /\ inputs[i].timestamp <= now
             /\ \A j \in i..Len(inputs) : InOrder(inputs[i].timestamp, inputs[j].timestamp)
    BY DEF IInv, StampsTrue
  <2> HIDE DEF t, InOrder
  <2> QED
    BY <1>1, <2>1, <2>3, <2>4, <2>5 DEF StampsTrue
<1>8. StateTrue'
  <2>1. ASSUME NEW j \in Key, j # k
        PROVE  emitted'[j] <= Len(matched'[j]) /\ WindowTrue(j, state[j])' /\ ReportTrue(j, state[j])'
    <3>1. state'[j] = state[j] /\ matched'[j] = matched[j] /\ emitted'[j] = emitted[j] /\ now' = now
      BY <1>1, <2>1 DEF IInv, TypeOK
    <3> QED
      BY <3>1 DEF IInv, StateTrue, WindowTrue, ReportTrue, Gap
  <2>2. /\ state'[k] = new /\ emitted'[k] = (IF emits THEN n + 1 ELSE emitted[k])
        /\ emitted[k] \in Nat /\ emitted[k] <= n
    BY <1>1 DEF IInv, TypeOK, StateTrue
  <2>3. ASSUME NEW j \in Key, j = k
        PROVE  WindowTrue(j, state[j])'
    <3>0. state'[j] = new /\ Len(matched'[j]) = n + 1 /\ matched'[j] = matched'[k]
      BY <1>1, <2>2, <2>3
    <3> SUFFICES ASSUME ~new.met
                 PROVE  /\ new.count \in 1..(n + 1)
                        /\ new.windowStart = matched'[k][n + 1 - new.count + 1].ts
      BY <3>0 DEF WindowTrue
    <3>1. CASE c.count = 1 /\ c.windowStart = t
      BY <1>1, <1>5, <3>1
    <3>2. CASE st.exists /\ ~st.met /\ c.count = st.count + 1 /\ c.windowStart = st.windowStart
      <4>1. st.count \in 1..n /\ st.windowStart = matched[k][n - st.count + 1].ts
        BY <1>4, <3>2 DEF WindowTrue
      <4>2. n \in Nat /\ new.count = st.count + 1 /\ new.windowStart = st.windowStart
        BY <1>1, <1>5, <3>2
      <4>3. \A i \in 1..n : matched'[k][i] = matched[k][i]
        BY <1>1
      <4> HIDE DEF n
      <4>4. /\ n + 1 - new.count + 1 = n - st.count + 1 /\ n - st.count + 1 \in 1..n
            /\ new.count \in 1..(n + 1)
        BY <4>1, <4>2
      <4>5. matched'[k][n - st.count + 1] = matched[k][n - st.count + 1]
        BY <4>3, <4>4
      <4> QED
        BY <4>1, <4>2, <4>4, <4>5
    <3> QED
      BY <1>2, <1>5, <3>1, <3>2
  <2>4. ASSUME NEW j \in Key, j = k
        PROVE  ReportTrue(j, state[j])'
    <3> SUFFICES ASSUME emitted'[k] > 0
                 PROVE  Gap(j)' \/ (new.met /\ new.last = matched'[k][n + 1].ts)
      BY <1>1, <1>5, <2>2, <2>4 DEF ReportTrue
    <3>1. new.last = matched'[k][n + 1].ts
      BY <1>1, <1>5
    <3>2. CASE c.met \/ emits
      BY <1>5, <3>1, <3>2
    <3>3. CASE ~c.met /\ ~emits /\ Gap(k)
      <4>1. PICK i \in emitted[k]..(n - 1) : matched[k][i + 1].at > matched[k][i].ts + StateExpiration
        BY <3>3 DEF Gap
      <4>2. emitted'[k] = emitted[k] /\ i \in 1..n /\ i + 1 \in 1..n /\ i \in emitted'[k]..(n + 1 - 1)
        BY <1>1, <2>2, <3>3, <4>1
      <4> QED
        BY <1>1, <2>4, <4>1, <4>2 DEF Gap
    <3>4. CASE ~c.met /\ ~emits /\ ~st.exists /\ now > matched[k][n].ts + StateExpiration
      <4>1. n \in emitted'[k]..(n + 1 - 1) /\ n \in 1..n
        BY <1>1, <2>2, <3>4
      <4>2. matched'[k][n + 1].at > matched'[k][n].ts + StateExpiration
        BY <1>1, <3>4, <4>1
      <4> QED
        BY <1>1, <2>4, <4>1, <4>2 DEF Gap
    <3> QED
      BY <1>2, <1>4, <2>2, <3>2, <3>3, <3>4 DEF ReportTrue
  <2>5. emitted'[k] <= Len(matched'[k])
    BY <1>1, <2>2
  <2> QED
    BY <1>3, <2>1, <2>3, <2>4, <2>5 DEF StateTrue
<1>9. ProcTrue'
  BY <1>1, <1>3 DEF IInv, ProcTrue
<1> QED
  BY <1>6, <1>7, <1>8, <1>9 DEF IInv

\* cleanupLoop forgets a state only when its last match is too old, and not before the
\* state that handleMatch has in hand is.
LEMMA CleanupStep ==
  ASSUME IInv, Cleanup
  PROVE  IInv'
<1>1. /\ state' = [k \in Key |-> IF Forgotten(state[k]) THEN NoState ELSE state[k]]
      /\ UNCHANGED <<inputs, scenarios, reload, proc, results, now, observed, reloads, matched, emitted>>
  BY DEF Cleanup, history
<1>2. TypeOK'
  <2>1. NoState \in State
    BY DEF NoState, State
  <2>2. state' \in [Key -> State]
    BY <1>1, <2>1 DEF IInv, TypeOK
  <2> QED
    BY <1>1, <2>2 DEF IInv, TypeOK
<1>3. StampsTrue' /\ ProcTrue'
  BY <1>1 DEF IInv, StampsTrue, ProcTrue, InOrder
<1>4. StateTrue'
  <2>1. ASSUME NEW k \in Key
        PROVE  WindowTrue(k, state[k])' /\ ReportTrue(k, state[k])'
    <3>1. CASE ~Forgotten(state[k])
      BY <1>1, <3>1 DEF IInv, StateTrue, WindowTrue, ReportTrue, Gap
    <3>2. CASE Forgotten(state[k])
      <4>1. state'[k] = NoState
        BY <1>1, <3>2
      <4>2. state[k].exists /\ now > state[k].last + StateExpiration
        <5>1. state[k].last \in Nat /\ now \in Nat /\ StateExpiration \in Nat
          BY DetectionAssumption DEF IInv, TypeOK, State
        <5> QED
          BY <3>2, <5>1 DEF Forgotten
      <4>3. ReportTrue(k, state[k])
        BY DEF IInv, StateTrue
      <4> QED
        BY <1>1, <4>1, <4>2, <4>3 DEF WindowTrue, ReportTrue, Gap, NoState
    <3> QED
      BY <3>1, <3>2
  <2> QED
    BY <1>1, <2>1 DEF IInv, StateTrue, WindowTrue, ReportTrue, Gap
<1> QED
  BY <1>2, <1>3, <1>4 DEF IInv

\* The clock only makes what is forgotten older.
LEMMA TickStep ==
  ASSUME IInv, Tick
  PROVE  IInv'
<1>1. /\ now \in Nat /\ now' = now + 1
      /\ UNCHANGED <<inputs, scenarios, reload, proc, state, results, observed, reloads, matched, emitted>>
  BY DEF Tick, history, IInv, TypeOK
<1>2. TypeOK'
  BY <1>1 DEF IInv, TypeOK
<1>3. StampsTrue'
  BY <1>1, StampType DEF IInv, StampsTrue, InOrder
<1>4. ProcTrue'
  BY <1>1 DEF IInv, ProcTrue
<1>5. ASSUME NEW k \in Key, NEW st, ReportTrue(k, st), emitted[k] <= Len(matched[k])
      PROVE  emitted'[k] > 0 =>
               \/ Gap(k)
               \/ st.exists /\ st.met /\ st.last = matched[k][Len(matched[k])].ts
               \/ ~st.exists /\ now' > matched[k][Len(matched[k])].ts + StateExpiration
  <2>1. /\ emitted[k] \in Nat /\ Len(matched[k]) \in Nat /\ StateExpiration \in Nat
        /\ \A i \in 1..Len(matched[k]) : matched[k][i].ts \in Nat
    BY StampType, DetectionAssumption DEF IInv, TypeOK
  <2>2. emitted[k] > 0 => matched[k][Len(matched[k])].ts \in Nat
    BY <1>5, <2>1
  <2> QED
    BY <1>1, <1>5, <2>1, <2>2 DEF ReportTrue
<1>6. StateTrue'
  <2>1. \A k \in Key : emitted[k] <= Len(matched[k]) /\ ReportTrue(k, state[k])' /\ WindowTrue(k, state[k])'
    BY <1>1, <1>5 DEF IInv, StateTrue, ReportTrue, WindowTrue, Gap
  <2>2. ASSUME proc.pc = "set", NEW k \in Key, k = <<proc.scenario, proc.input.resource>>
        PROVE  ReportTrue(k, proc.state)' /\ WindowTrue(k, proc.state)'
    BY <1>1, <1>5, <2>2 DEF IInv, StateTrue, ReportTrue, WindowTrue, Gap
  <2>3. proc.pc = "set" => <<proc.scenario, proc.input.resource>> \in Key
    BY ProcType DEF IInv, Key, Input
  <2> QED
    BY <1>1, <2>1, <2>2, <2>3 DEF StateTrue
<1> QED
  BY <1>2, <1>3, <1>4, <1>6 DEF IInv

\* The reload and the reader of the results do not touch what the engine remembers.
LEMMA OtherSteps ==
  ASSUME IInv,
         \/ Consume
         \/ ReloadClear
         \/ \E list \in Loaded : ReloadList(list)
         \/ \E s \in Scenario : ReloadRegister(s)
  PROVE  IInv'
<1>1. Nothing \in Loaded
  BY DEF Nothing, Loaded
<1>2. CASE Consume
  <2>1. results \in Seq(Key) /\ results # <<>> /\ results' = Tail(results)
    BY <1>2 DEF Consume, IInv, TypeOK
  <2>2. results' \in Seq(Key) /\ Len(results') < Len(results)
    <3> HIDE DEF Key
    <3> QED
      BY <2>1
  <2>3. TypeOK'
    BY <1>2, <2>1, <2>2, DetectionAssumption DEF Consume, history, IInv, TypeOK
  <2> QED
    BY <1>2, <2>3, Untouched DEF Consume, history
<1>3. CASE ReloadClear
  <2>1. TypeOK'
    BY <1>1, <1>3 DEF ReloadClear, history, IInv, TypeOK
  <2> QED
    BY <1>3, <2>1, Untouched DEF ReloadClear, history
<1>4. ASSUME NEW list \in Loaded, ReloadList(list) PROVE IInv'
  <2>1. TypeOK'
    BY <1>1, <1>4 DEF ReloadList, history, IInv, TypeOK
  <2> QED
    BY <1>4, <2>1, Untouched DEF ReloadList, history
<1>5. ASSUME NEW s \in Scenario, ReloadRegister(s) PROVE IInv'
  <2> DEFINE rest == [reload.list EXCEPT ![s] = NoScenario]
  <2>1. rest \in Loaded /\ scenarios' \in Loaded
    BY <1>5 DEF ReloadRegister, IInv, TypeOK, Loaded
  <2>2. \/ reload' = [pc |-> "idle", list |-> Nothing]
        \/ reload' = [pc |-> "register", list |-> rest]
    BY <1>5 DEF ReloadRegister
  <2> HIDE DEF rest
  <2>3. TypeOK'
    BY <1>1, <1>5, <2>1, <2>2 DEF ReloadRegister, history, IInv, TypeOK
  <2> QED
    BY <1>5, <2>3, Untouched DEF ReloadRegister, history
<1> QED
  BY <1>2, <1>3, <1>4, <1>5

\* Every step keeps the invariant.
LEMMA NextIInv == IInv /\ [Next]_dvars => IInv'
<1> SUFFICES ASSUME IInv, [Next]_dvars PROVE IInv'
  OBVIOUS
<1>1. CASE Next
  BY <1>1, ObserveStep, ProcessInputStep, GetStateStep, HandleMatchStep, CleanupStep, TickStep, OtherSteps DEF Next
<1>2. CASE UNCHANGED dvars
  <2>1. TypeOK'
    BY <1>2 DEF dvars, history, IInv, TypeOK
  <2> QED
    BY <1>2, <2>1, Untouched DEF dvars, history
<1> QED
  BY <1>1, <1>2

\* What the engine remembers of each problem is true of the matches it handled.
THEOREM Invariance == Spec => []IInv
BY InitIInv, NextIInv, PTL DEF Spec

\* The engine's memory is well typed and its channels stay within capacity.
THEOREM TypeCorrect == Spec => []TypeOK
<1>1. IInv => TypeOK
  BY DEF IInv
<1> QED
  BY Invariance, <1>1, PTL

-----------------------------------------------------------------------------
(* Emissions.                                                              *)

\* Only handleMatch emits, for the key it handles.
LEMMA EmissionFacts ==
  ASSUME IInv, Next, NEW k \in Key, Emission(k)
  PROVE  HandleMatch /\ k = <<proc.scenario, proc.input.resource>>
<1>1. HandleMatch
  <2>1. emitted' # emitted
    BY DEF Emission
  <2> QED
    BY <2>1 DEF Next, Observe, ProcessInput, GetState, ReloadRegister, Consume, Cleanup, ReloadClear,
                ReloadList, Tick, history
<1> HIDE DEF Key
<1>2. k = <<proc.scenario, proc.input.resource>>
  BY <1>1, HandleMatchFacts DEF Emission, IInv, TypeOK
<1> QED
  BY <1>1, <1>2

\* The counted matches lie in the window, but for the delay of stamps at its two ends.
LEMMA EmissionJustified ==
  ASSUME IInv, Next, NEW k \in Key, Emission(k)
  PROVE  LET threshold == proc.given[k[1]]
             m == matched'[k]
             n == Len(m)
         IN /\ threshold.count <= n
            /\ \A i, j \in (n - threshold.count + 1)..n :
                 m[i].ts - m[j].ts <= threshold.window + 2 * MaxDelay
<1> DEFINE t == proc.input.timestamp
           threshold == proc.given[proc.scenario]
           st == proc.state
           c == Counted(st, t, threshold)
           emits == ~c.met /\ c.count >= threshold.count
           n == Len(matched[k])
           m == matched'[k]
<1>1. HandleMatch /\ k = <<proc.scenario, proc.input.resource>> /\ IInv'
  BY EmissionFacts, NextIInv
<1>5. k[1] = proc.scenario
  BY <1>1
<1>2. /\ t \in Nat /\ n \in Nat /\ threshold \in [count : Nat, window : Nat]
      /\ proc.pc = "set" /\ st \in State /\ Len(m) = n + 1 /\ m[n + 1].ts = t
      /\ \A i \in 1..n : m[i] = matched[k][i]
      /\ emitted' = [emitted EXCEPT ![k] = IF emits THEN n + 1 ELSE emitted[k]]
  <2> DEFINE key == <<proc.scenario, proc.input.resource>>
  <2>1. /\ t \in Nat /\ Len(matched[key]) \in Nat /\ threshold \in [count : Nat, window : Nat]
        /\ proc.pc = "set" /\ st \in State
        /\ Len(matched'[key]) = Len(matched[key]) + 1
        /\ \A i \in 1..Len(matched[key]) : matched'[key][i] = matched[key][i]
        /\ emitted' = [emitted EXCEPT ![key] = IF emits THEN Len(matched[key]) + 1 ELSE emitted[key]]
    BY <1>1, HandleMatchFacts
  <2>2. matched'[key][Len(matched[key]) + 1] = [ts |-> t, at |-> now]
    BY <1>1, HandleMatchFacts
  <2>3. matched'[key][Len(matched[key]) + 1].ts = t
    BY <2>2
  <2>4. k = key
    BY <1>1
  <2> HIDE DEF key, t, threshold, st, emits
  <2> QED
    BY <2>1, <2>3, <2>4
<1>3. emits
  BY <1>2 DEF Emission, IInv, TypeOK
<1>4. /\ c \in State
      /\ \/ c.count = 1
         \/ /\ st.exists /\ ~st.met /\ c.count = st.count + 1
            /\ t - st.windowStart <= threshold.window
  <2>1. /\ c \in State /\ c.exists /\ c.last = t
        /\ c.met <=> st.exists /\ st.met
        /\ ~c.met => \/ c.count = 1 /\ c.windowStart = t
                     \/ /\ st.exists /\ ~st.met /\ c.count = st.count + 1
                        /\ c.windowStart = st.windowStart /\ t - st.windowStart <= threshold.window
    <3> HIDE DEF threshold, st, t
    <3> QED
      BY <1>2, CountedFacts
  <2> HIDE DEF c
  <2> QED
    BY <1>3, <2>1
<1> HIDE DEF c
<1>6. threshold.count \in Nat /\ threshold.window \in Nat /\ c.count \in Nat /\ c.count >= threshold.count
  BY <1>2, <1>3, <1>4 DEF State
<1>7. /\ \A i \in 1..(n + 1) : m[i].ts \in Nat
      /\ \A i \in 1..(n + 1) : \A j \in i..(n + 1) : m[i].ts <= m[j].ts + MaxDelay
  <2>1. TypeOK' /\ StampsTrue'
    BY <1>1 DEF IInv
  <2>2. \A i \in 1..n : matched[k][i].ts \in Nat
    BY StampType DEF IInv
  <2>3. \A i \in 1..(n + 1) : m[i].ts \in Nat
    <3> HIDE DEF m, n, t
    <3> QED
      BY <1>2, <2>2
  <2> QED
    BY <1>2, <2>1, <2>3 DEF StampsTrue, InOrder
<1>8. MaxDelay \in Nat /\ n \in Nat /\ t \in Nat /\ Len(m) = n + 1 /\ m[n + 1].ts = t
  BY <1>2, DetectionAssumption
<1>11. \A i \in 1..n : m[i] = matched[k][i]
  BY <1>2
<1>12. st.exists /\ ~st.met => st.count \in 1..n /\ st.windowStart = matched[k][n - st.count + 1].ts
  BY <1>1, <1>2 DEF IInv, StateTrue, WindowTrue
<1> DEFINE Close(th, len) ==
             /\ th.count <= len
             /\ \A i, j \in (len - th.count + 1)..len : m[i].ts - m[j].ts <= th.window + 2 * MaxDelay
<1>13. SUFFICES Close(threshold, n + 1)
  <2> SUFFICES Close(proc.given[k[1]], Len(m))
    OBVIOUS
  <2> HIDE DEF Close
  <2> QED
    BY <1>5, <1>8, <1>13
<1> HIDE DEF t, threshold, n, m, st
<1>9. CASE c.count = 1
  <2>1. threshold.count <= n + 1
    BY <1>6, <1>8, <1>9
  <2>2. ASSUME NEW i \in (n + 1 - threshold.count + 1)..(n + 1), NEW j \in (n + 1 - threshold.count + 1)..(n + 1)
        PROVE  m[i].ts - m[j].ts <= threshold.window + 2 * MaxDelay
    <3>1. i = n + 1 /\ j = n + 1
      BY <1>6, <1>8, <1>9
    <3>2. m[i].ts = t /\ m[j].ts = t
      BY <1>8, <3>1
    <3> QED
      BY <1>6, <1>8, <3>2
  <2>3. \A i, j \in (n + 1 - threshold.count + 1)..(n + 1) : m[i].ts - m[j].ts <= threshold.window + 2 * MaxDelay
    BY <2>2
  <2> QED
    BY <2>1, <2>3, <1>6, <1>8, SMTT(30) DEF Close
<1>10. CASE st.exists /\ ~st.met /\ c.count = st.count + 1 /\ t - st.windowStart <= threshold.window
  <2> DEFINE f == n - st.count + 1
  <2>1. st.count \in 1..n /\ st.windowStart = matched[k][f].ts
    BY <1>10, <1>12
  <2>2. f \in 1..n /\ threshold.count <= n + 1 /\ f <= n + 1 - threshold.count + 1
    <3> DEFINE a == threshold.count
               b == st.count
    <3>1. a \in Nat /\ b \in 1..n /\ b + 1 >= a /\ n \in Nat
      BY <1>6, <1>8, <1>10, <2>1
    <3> HIDE DEF a, b
    <3>2. n - b + 1 \in 1..n /\ a <= n + 1 /\ n - b + 1 <= n + 1 - a + 1
      BY <3>1
    <3> QED
      BY <3>2 DEF a, b
  <2> HIDE DEF f
  <2>3. m[f].ts = st.windowStart
    BY <1>11, <2>1, <2>2
  <2>4. ASSUME NEW i \in (n + 1 - threshold.count + 1)..(n + 1), NEW j \in (n + 1 - threshold.count + 1)..(n + 1)
        PROVE  m[i].ts - m[j].ts <= threshold.window + 2 * MaxDelay
    <3>1. i \in 1..(n + 1) /\ j \in 1..(n + 1) /\ j \in f..(n + 1) /\ n + 1 \in i..(n + 1) /\ f \in 1..(n + 1)
      BY <1>6, <1>8, <2>2
    <3>2. m[i].ts <= m[n + 1].ts + MaxDelay /\ m[f].ts <= m[j].ts + MaxDelay
      BY <1>7, <3>1
    <3>3. m[i].ts \in Nat /\ m[j].ts \in Nat /\ m[f].ts \in Nat /\ t - m[f].ts <= threshold.window /\ m[n + 1].ts = t
      BY <1>7, <1>8, <1>10, <2>3, <3>1
    <3> DEFINE a == m[i].ts
               b == m[j].ts
               d == m[f].ts
    <3>4. a \in Nat /\ b \in Nat /\ d \in Nat /\ a <= t + MaxDelay /\ d <= b + MaxDelay /\ t - d <= threshold.window
      BY <3>2, <3>3
    <3> HIDE DEF a, b, d
    <3>5. a - b <= threshold.window + 2 * MaxDelay
      BY <1>6, <1>8, <3>4, SMTT(30)
    <3> QED
      BY <3>5 DEF a, b
  <2> QED
    BY <2>2, <2>4, <1>6, <1>8 DEF Close
<1> QED
  BY <1>4, <1>9, <1>10

\* A result is never emitted without cause: the threshold's number of matches was handled,
\* as close together as its window and the delay of stamps allow.
THEOREM Justified == Spec => EmissionsJustified
<1>1. IInv /\ [Next]_dvars =>
        [\A k \in Key : Emission(k) =>
           LET threshold == proc.given[k[1]]
               m == matched'[k]
               n == Len(m)
           IN /\ threshold.count <= n
              /\ \A i, j \in (n - threshold.count + 1)..n :
                   m[i].ts - m[j].ts <= threshold.window + 2 * MaxDelay]_dvars
  BY EmissionJustified
<1> QED
  BY Invariance, <1>1, PTL DEF Spec, EmissionsJustified

\* A problem that goes on is reported once: between two emissions for a key the engine
\* went StateExpiration without a newer match.
THEOREM OnceOnly == Spec => EmittedOnce
<1>1. ASSUME IInv, Next, NEW k \in Key, Emission(k), emitted[k] > 0
      PROVE  \E i \in emitted[k]..(Len(matched'[k]) - 1) :
               matched'[k][i + 1].at > matched'[k][i].ts + StateExpiration
  <2> DEFINE t == proc.input.timestamp
             threshold == proc.given[proc.scenario]
             st == proc.state
             c == Counted(st, t, threshold)
             emits == ~c.met /\ c.count >= threshold.count
             n == Len(matched[k])
             m == matched'[k]
  <2>1. HandleMatch /\ k = <<proc.scenario, proc.input.resource>>
    BY <1>1, EmissionFacts
  <2>2. /\ t \in Nat /\ n \in Nat /\ threshold \in [count : Nat, window : Nat]
        /\ proc.pc = "set" /\ st \in State /\ Len(m) = n + 1 /\ m[n + 1] = [ts |-> t, at |-> now]
        /\ \A i \in 1..n : m[i] = matched[k][i]
        /\ emitted' = [emitted EXCEPT ![k] = IF emits THEN n + 1 ELSE emitted[k]]
    BY <1>1, <2>1, HandleMatchFacts
  <2>3. emits
    BY <1>1, <2>2 DEF Emission, IInv, TypeOK
  <2>4. ~(st.exists /\ st.met)
    <3>1. c.met <=> st.exists /\ st.met
      <4> HIDE DEF threshold, st, t
      <4> QED
        BY <2>2, CountedFacts
    <3> QED
      BY <2>3, <3>1
  <2>5. ReportTrue(k, st) /\ emitted[k] \in Nat /\ emitted[k] <= n
    BY <1>1, <2>1, <2>2 DEF IInv, StateTrue, TypeOK
  <2> HIDE DEF c, st
  <2>6. CASE Gap(k)
    <3>1. PICK i \in emitted[k]..(n - 1) : matched[k][i + 1].at > matched[k][i].ts + StateExpiration
      BY <2>6 DEF Gap
    <3>2. i \in 1..n /\ i + 1 \in 1..n /\ i \in emitted[k]..(Len(m) - 1)
      BY <1>1, <2>2, <2>5, <3>1
    <3>3. m[i] = matched[k][i] /\ m[i + 1] = matched[k][i + 1]
      BY <2>2, <3>2
    <3> QED
      BY <3>1, <3>2, <3>3
  <2>7. CASE now > matched[k][n].ts + StateExpiration
    <3>1. n \in 1..n /\ n \in emitted[k]..(n + 1 - 1)
      BY <1>1, <2>2, <2>5
    <3> QED
      BY <2>2, <2>7, <3>1, SMTT(30)
  <2> QED
    BY <1>1, <2>4, <2>5, <2>6, <2>7 DEF ReportTrue
<1>2. IInv /\ [Next]_dvars =>
        [\A k \in Key : Emission(k) /\ emitted[k] > 0 =>
           \E i \in emitted[k]..(Len(matched'[k]) - 1) :
             matched'[k][i + 1].at > matched'[k][i].ts + StateExpiration]_dvars
  BY <1>1
<1> QED
  BY Invariance, <1>2, PTL DEF Spec, EmittedOnce

=============================================================================

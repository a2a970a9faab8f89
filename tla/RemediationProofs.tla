-------------------------- MODULE RemediationProofs --------------------------
(***************************************************************************)
(* The limits of the remediation controller, for any keys, policies,       *)
(* cooldown, number of retries and idle period.                            *)
(***************************************************************************)
EXTENDS Remediation, TLAPS

\* Taking a result leaves a sequence of results.
LEMMA TakeFact ==
  ASSUME IInv, NEW k \in Key, Take(k)
  PROVE  results' \in Seq(Key)
<1>1. results \in Seq(Key) /\ results # <<>> /\ results' = Tail(results)
  BY DEF IInv, TypeOK, Take
<1> QED
  BY <1>1

\* The controller starts with an empty memory.
LEMMA InitIInv == Init => IInv
<1> SUFFICES ASSUME Init PROVE IInv
  OBVIOUS
<1>1. TypeOK
  BY RemediationAssumption DEF Init, TypeOK, NoAttempt, NoState, State, Time, Unset
<1>2. AttemptTrue
  BY DEF Init, AttemptTrue
<1>3. ASSUME NEW k \in Key
      PROVE  StateTrue(k) /\ FailuresTrue(k) /\ AttemptsTrue(k)
  <2>1. attempt.key # k
    BY RemediationAssumption DEF Init, NoAttempt
  <2>2. MaxRetries * 0 = 0
    BY RemediationAssumption
  <2> QED
    BY <2>1, <2>2, RemediationAssumption
       DEF Init, StateTrue, FailuresTrue, AttemptsTrue, NoState, Unset
<1> QED
  BY <1>1, <1>2, <1>3 DEF IInv

\* Steps that touch neither memory, attempt nor clock.
LEMMA Untouched ==
  ASSUME IInv, results' \in Seq(Key), UNCHANGED <<state, attempt, now, leaders, history>>
  PROVE  IInv'
<1>1. UNCHANGED <<state, attempt, now, leaders, lastDone, failures, attempts, escalations>>
  BY DEF history
<1>2. TypeOK'
  BY <1>1 DEF IInv, TypeOK
<1>3. AttemptTrue'
  BY <1>1 DEF IInv, AttemptTrue
<1>4. \A k \in Key : StateTrue(k)' /\ FailuresTrue(k)' /\ AttemptsTrue(k)'
  BY <1>1 DEF IInv, StateTrue, FailuresTrue, AttemptsTrue
<1> QED
  BY <1>2, <1>3, <1>4 DEF IInv

\* Escalating pays for the attempts made.
LEMMA EscalateStep ==
  ASSUME IInv, NEW k \in Key, Escalate(k)
  PROVE  IInv'
<1> DEFINE s == [state[k] EXCEPT !.escalated = TRUE]
<1>1. /\ attempt = NoAttempt /\ results' = Tail(results) /\ results # <<>>
      /\ state[k].count >= MaxRetries
      /\ state' = [state EXCEPT ![k] = s]
      /\ escalations' = [escalations EXCEPT ![k] =
                           IF state[k].escalated THEN escalations[k] ELSE escalations[k] + 1]
      /\ UNCHANGED <<attempt, now, leaders, lastDone, failures, attempts>>
  BY DEF Escalate, Take, IInv, TypeOK
<1>2. /\ state[k] \in State /\ escalations[k] \in Nat /\ attempts[k] \in Nat
      /\ state \in [Key -> State] /\ escalations \in [Key -> Nat]
  BY DEF IInv, TypeOK
<1>3. /\ s \in State /\ s.escalated /\ s.exists = state[k].exists /\ s.last = state[k].last
      /\ s.count = state[k].count /\ s.until = state[k].until
  BY <1>2 DEF State
<1>4. state[k].exists
  BY <1>1, <1>2, RemediationAssumption DEF IInv, StateTrue, NoState
<1>5. state[k].count = MaxRetries
  BY <1>1, <1>2, <1>4, RemediationAssumption DEF IInv, StateTrue, State
<1> HIDE DEF s
<1>6. /\ state'[k] = s /\ \A j \in Key : j # k => state'[j] = state[j]
      /\ state' \in [Key -> State]
  BY <1>1, <1>2, <1>3
<1>7. /\ escalations' \in [Key -> Nat]
      /\ \A j \in Key : j # k => escalations'[j] = escalations[j]
      /\ escalations'[k] = IF state[k].escalated THEN escalations[k] ELSE escalations[k] + 1
  BY <1>1, <1>2
<1>8. TypeOK'
  <2>1. results' \in Seq(Key)
    BY TakeFact DEF Escalate
  <2> QED
    BY <1>1, <1>6, <1>7, <2>1 DEF IInv, TypeOK
<1>9. AttemptTrue'
  BY <1>1 DEF AttemptTrue
<1>10. ASSUME NEW j \in Key PROVE StateTrue(j)'
  BY <1>1, <1>3, <1>4, <1>5, <1>6 DEF IInv, StateTrue
<1>11. ASSUME NEW j \in Key PROVE FailuresTrue(j)'
  BY <1>1, <1>3, <1>4, <1>6 DEF IInv, FailuresTrue
<1>12. ASSUME NEW j \in Key PROVE AttemptsTrue(j)'
  <2>1. CASE j # k
    BY <1>1, <1>6, <1>7, <2>1 DEF IInv, AttemptsTrue
  <2>2. CASE j = k
    <3>1. attempt.key # k
      BY <1>1, RemediationAssumption DEF NoAttempt
    <3>2. attempts[k] >= MaxRetries * escalations[k] + IF state[k].escalated THEN 0 ELSE state[k].count
      BY <3>1 DEF IInv, AttemptsTrue
    <3>3. MaxRetries * (escalations[k] + 1) = MaxRetries * escalations[k] + MaxRetries
          /\ MaxRetries * escalations[k] \in Nat /\ MaxRetries * (escalations[k] + 1) \in Nat
      BY <1>2, RemediationAssumption
    <3>4. attempts[k] >= MaxRetries * escalations'[k]
      BY <1>2, <1>5, <1>7, <3>2, <3>3, RemediationAssumption
    <3>5. MaxRetries * escalations'[k] + 0 = MaxRetries * escalations'[k]
      BY <1>2, <1>7, <3>3
    <3> QED
      BY <1>1, <1>3, <1>6, <2>2, <3>1, <3>4, <3>5 DEF AttemptsTrue
  <2> QED
    BY <2>1, <2>2
<1> QED
  BY <1>8, <1>9, <1>10, <1>11, <1>12 DEF IInv

\* An attempt starts from a state with retries left, after its cooldown.
LEMMA StartStep ==
  ASSUME IInv, NEW k \in Key, Start(k)
  PROVE  IInv'
<1>1. /\ attempt = NoAttempt /\ results' = Tail(results) /\ results # <<>>
      /\ state[k].count < MaxRetries
      /\ attempt' = [key |-> k, state |-> state[k]]
      /\ attempts' = [attempts EXCEPT ![k] = attempts[k] + 1]
      /\ failures' = [failures EXCEPT ![k] = IF lastDone[k] # Unset /\ now > lastDone[k] + IdlePeriod
                                             THEN 0 ELSE failures[k]]
      /\ UNCHANGED <<state, now, leaders, lastDone, escalations>>
  BY DEF Start, Take
<1>2. /\ state[k] \in State /\ state[k].count \in Nat /\ failures \in [Key -> Nat]
      /\ attempts \in [Key -> Nat] /\ failures[k] \in Nat /\ attempts[k] \in Nat
      /\ MaxRetries * escalations[k] \in Nat
  BY RemediationAssumption DEF IInv, TypeOK, State
<1>3. attempt'.key = k /\ attempt'.state = state[k] /\ \A j \in Key : attempt.key # j
  BY <1>1, RemediationAssumption DEF NoAttempt
<1>4. ~state[k].escalated
  <2>1. CASE state[k].exists
    BY <1>1, <1>2, <2>1, RemediationAssumption DEF IInv, StateTrue
  <2>2. CASE ~state[k].exists
    BY <2>2 DEF IInv, StateTrue, NoState
  <2> QED
    BY <2>1, <2>2
<1>5. TypeOK'
  <2>1. results' \in Seq(Key)
    BY TakeFact DEF Start
  <2>2. attempt' \in [key : Key \cup {NoKey}, state : State]
    BY <1>1, <1>2
  <2>3. attempts' \in [Key -> Nat] /\ failures' \in [Key -> Nat]
    BY <1>1, <1>2
  <2> QED
    BY <1>1, <2>1, <2>2, <2>3 DEF IInv, TypeOK
<1>6. AttemptTrue'
  BY <1>1, <1>3, <1>4 DEF AttemptTrue
<1>7. ASSUME NEW j \in Key PROVE StateTrue(j)'
  BY <1>1 DEF IInv, StateTrue
<1>8. ASSUME NEW j \in Key PROVE FailuresTrue(j)'
  <2>1. CASE j # k
    BY <1>1, <1>2, <1>3, <2>1 DEF IInv, FailuresTrue
  <2>2. CASE j = k
    <3>1. failures'[k] <= state[k].count
      <4>1. CASE state[k].exists
        <5>1. failures[k] <= state[k].count
          BY <1>3, <4>1 DEF IInv, FailuresTrue
        <5> QED
          BY <1>1, <1>2, <5>1
      <4>2. CASE ~state[k].exists
        <5>1. lastDone[k] = Unset => failures[k] = 0
          BY <1>3, <4>2 DEF IInv, FailuresTrue
        <5>2. lastDone[k] # Unset => now > lastDone[k] + IdlePeriod
          BY <4>2 DEF IInv, StateTrue
        <5> QED
          BY <1>1, <1>2, <5>1, <5>2
      <4> QED
        BY <4>1, <4>2
    <3> QED
      BY <1>3, <2>2, <3>1 DEF FailuresTrue
  <2> QED
    BY <2>1, <2>2
<1>9. ASSUME NEW j \in Key PROVE AttemptsTrue(j)'
  <2>1. CASE j # k
    BY <1>1, <1>2, <1>3, <2>1 DEF IInv, AttemptsTrue
  <2>2. CASE j = k
    <3>1. attempts[k] >= MaxRetries * escalations[k] + state[k].count
      BY <1>3, <1>4 DEF IInv, AttemptsTrue
    <3>2. attempts'[k] >= MaxRetries * escalations[k] + (state[k].count + 1)
      BY <1>1, <1>2, <3>1
    <3> QED
      BY <1>1, <1>3, <2>2, <3>2 DEF AttemptsTrue
  <2> QED
    BY <2>1, <2>2
<1> QED
  BY <1>5, <1>6, <1>7, <1>8, <1>9 DEF IInv

\* The end of an attempt is recorded whatever Cleanup did meanwhile.
LEMMA FinishStep ==
  ASSUME IInv, NEW ok \in BOOLEAN, Finish(ok)
  PROVE  IInv'
<1> DEFINE k == attempt.key
           s == Recorded
<1>1. /\ k \in Key /\ attempt.state.count < MaxRetries /\ ~attempt.state.escalated
      /\ attempt' = NoAttempt
  BY DEF Finish, IInv, AttemptTrue
<1>2. /\ attempt.state \in State /\ now \in Nat /\ attempt.state.count \in Nat
      /\ state \in [Key -> State] /\ lastDone \in [Key -> Time]
      /\ failures \in [Key -> Nat] /\ failures[k] \in Nat
  BY <1>1 DEF IInv, TypeOK, State
<1>3. /\ state' = [state EXCEPT ![k] = s]
      /\ lastDone' = [lastDone EXCEPT ![k] = now]
      /\ failures' = [failures EXCEPT ![k] = IF ok THEN 0 ELSE failures[k] + 1]
      /\ UNCHANGED <<results, now, leaders, attempts, escalations>>
  BY DEF Finish
<1>4. /\ s \in State /\ s.exists /\ s.last = now /\ s.until = now + Cooldown
      /\ s.count = attempt.state.count + 1 /\ ~s.escalated
  <2>1. now \in Time /\ now + Cooldown \in Time /\ attempt.state.count + 1 \in Nat
    BY <1>2, RemediationAssumption DEF Time
  <2>2. s = [attempt.state EXCEPT !.exists = TRUE, !.last = now,
                                  !.count = attempt.state.count + 1, !.until = now + Cooldown]
    BY <1>2 DEF Recorded, State
  <2> HIDE DEF s
  <2> QED
    BY <1>1, <1>2, <2>1, <2>2 DEF State
<1> HIDE DEF s
<1>5. /\ state'[k] = s /\ lastDone'[k] = now
      /\ failures'[k] \in {0, failures[k] + 1}
      /\ \A j \in Key : j # k => state'[j] = state[j] /\ lastDone'[j] = lastDone[j]
                                /\ failures'[j] = failures[j]
  BY <1>1, <1>2, <1>3
<1>6. \A j \in Key : attempt'.key # j
  BY <1>1, RemediationAssumption DEF NoAttempt
<1>7. TypeOK'
  <2>1. attempt' \in [key : Key \cup {NoKey}, state : State]
    BY <1>1 DEF NoAttempt, NoState, State, Time, Unset
  <2>2. state' \in [Key -> State]
    BY <1>1, <1>2, <1>3, <1>4
  <2>3. lastDone' \in [Key -> Time] /\ failures' \in [Key -> Nat]
    BY <1>1, <1>2, <1>3 DEF Time
  <2> QED
    BY <1>3, <2>1, <2>2, <2>3 DEF IInv, TypeOK
<1>8. AttemptTrue'
  BY <1>1 DEF AttemptTrue
<1>9. ASSUME NEW j \in Key PROVE StateTrue(j)'
  <2>1. CASE j = k
    BY <1>1, <1>2, <1>4, <1>5, <2>1, RemediationAssumption DEF StateTrue
  <2>2. CASE j # k
    BY <1>3, <1>5, <2>2 DEF IInv, StateTrue
  <2> QED
    BY <2>1, <2>2
<1>10. ASSUME NEW j \in Key PROVE FailuresTrue(j)'
  <2>1. CASE j = k
    <3>1. failures[k] <= attempt.state.count
      BY <1>1 DEF IInv, FailuresTrue
    <3> QED
      BY <1>2, <1>3, <1>4, <1>5, <1>6, <2>1, <3>1 DEF FailuresTrue
  <2>2. CASE j # k
    BY <1>3, <1>5, <1>6, <2>2 DEF IInv, FailuresTrue
  <2> QED
    BY <2>1, <2>2
<1>11. ASSUME NEW j \in Key PROVE AttemptsTrue(j)'
  <2>1. CASE j = k
    <3>1. attempts[k] >= MaxRetries * escalations[k] + (attempt.state.count + 1)
      BY <1>1 DEF IInv, AttemptsTrue
    <3> QED
      BY <1>3, <1>4, <1>5, <1>6, <2>1, <3>1 DEF AttemptsTrue
  <2>2. CASE j # k
    BY <1>3, <1>5, <1>6, <2>2 DEF IInv, AttemptsTrue
  <2> QED
    BY <2>1, <2>2
<1> QED
  BY <1>7, <1>8, <1>9, <1>10, <1>11 DEF IInv

\* What Cleanup forgets is idle and out of its cooldown.
LEMMA CleanupStep ==
  ASSUME IInv, Cleanup
  PROVE  IInv'
<1>1. /\ state' = [k \in Key |-> IF Forgotten(state[k]) THEN NoState ELSE state[k]]
      /\ UNCHANGED <<results, attempt, now, leaders, lastDone, failures, attempts, escalations>>
  BY DEF Cleanup, history
<1>2. NoState \in State /\ ~NoState.exists /\ NoState.count = 0 /\ ~NoState.escalated
  BY DEF NoState, State, Time, Unset
<1>3. TypeOK'
  BY <1>1, <1>2 DEF IInv, TypeOK
<1>4. AttemptTrue'
  BY <1>1 DEF IInv, AttemptTrue
<1>5. ASSUME NEW k \in Key PROVE StateTrue(k)' /\ FailuresTrue(k)' /\ AttemptsTrue(k)'
  <2>1. CASE ~Forgotten(state[k])
    <3>1. state'[k] = state[k]
      BY <1>1, <2>1
    <3> QED
      BY <1>1, <3>1 DEF IInv, StateTrue, FailuresTrue, AttemptsTrue
  <2>2. CASE Forgotten(state[k])
    <3>1. state'[k] = NoState
      BY <1>1, <2>2
    <3>2. /\ state[k].exists /\ state[k].last < now - IdlePeriod /\ now > state[k].until
          /\ lastDone[k] \in Nat /\ state[k].last = lastDone[k]
          /\ state[k].until = lastDone[k] + Cooldown /\ state[k].count <= MaxRetries
      BY <2>2 DEF Forgotten, IInv, StateTrue
    <3>3. now \in Nat /\ failures[k] \in Nat /\ state[k].count \in Nat /\ attempts[k] \in Nat
          /\ MaxRetries * escalations[k] \in Nat
      BY RemediationAssumption DEF IInv, TypeOK, State
    <3>4. now > lastDone[k] + IdlePeriod /\ now > lastDone[k] + Cooldown /\ lastDone[k] # Unset
      BY <3>2, <3>3, RemediationAssumption DEF Unset
    <3>5. StateTrue(k)'
      BY <1>1, <1>2, <3>1, <3>4 DEF StateTrue
    <3>6. FailuresTrue(k)'
      BY <1>1, <1>2, <3>1, <3>2, <3>3, <3>4, RemediationAssumption DEF IInv, FailuresTrue
    <3>7. AttemptsTrue(k)'
      BY <1>1, <1>2, <3>1, <3>3 DEF IInv, AttemptsTrue
    <3> QED
      BY <3>5, <3>6, <3>7
  <2> QED
    BY <2>1, <2>2
<1> QED
  BY <1>3, <1>4, <1>5 DEF IInv

\* A new leader knows nothing and has done nothing.
LEMMA NewLeaderStep ==
  ASSUME IInv, NewLeader
  PROVE  IInv'
<1>1. TypeOK'
  BY RemediationAssumption DEF NewLeader, IInv, TypeOK, NoAttempt, NoState, State, Time, Unset
<1>2. AttemptTrue'
  BY DEF NewLeader, AttemptTrue
<1>3. ASSUME NEW k \in Key
      PROVE  StateTrue(k)' /\ FailuresTrue(k)' /\ AttemptsTrue(k)'
  <2>1. attempt'.key # k
    BY RemediationAssumption DEF NewLeader, NoAttempt
  <2>2. MaxRetries * 0 = 0
    BY RemediationAssumption
  <2> QED
    BY <2>1, <2>2, RemediationAssumption
       DEF NewLeader, StateTrue, FailuresTrue, AttemptsTrue, NoState, Unset
<1> QED
  BY <1>1, <1>2, <1>3 DEF IInv

\* Time only makes idle periods longer.
LEMMA TickStep ==
  ASSUME IInv, Tick
  PROVE  IInv'
<1>1. /\ now' = now + 1 /\ now \in Nat
      /\ UNCHANGED <<results, state, attempt, leaders, lastDone, failures, attempts, escalations>>
  BY DEF Tick, history, IInv, TypeOK
<1>2. TypeOK'
  BY <1>1 DEF IInv, TypeOK
<1>3. AttemptTrue'
  BY <1>1 DEF IInv, AttemptTrue
<1>4. ASSUME NEW k \in Key PROVE StateTrue(k)'
  <2>1. lastDone[k] \in Int
    BY DEF IInv, TypeOK, Time, Unset
  <2> QED
    BY <1>1, <2>1, RemediationAssumption DEF IInv, StateTrue
<1>5. ASSUME NEW k \in Key PROVE FailuresTrue(k)' /\ AttemptsTrue(k)'
  BY <1>1 DEF IInv, FailuresTrue, AttemptsTrue
<1> QED
  BY <1>2, <1>3, <1>4, <1>5 DEF IInv

\* Every step of the controller preserves the inductive invariant.
LEMMA NextIInv == IInv /\ [Next]_rvars => IInv'
<1> SUFFICES ASSUME IInv, [Next]_rvars PROVE IInv'
  OBVIOUS
<1>1. ASSUME NEW k \in Key, Detected(k) \/ Skipped(k)
      PROVE  IInv'
  <2>1. results' \in Seq(Key)
    <3>1. CASE Detected(k)
      BY <3>1 DEF Detected, IInv, TypeOK
    <3>2. CASE Skipped(k)
      BY <3>2, TakeFact DEF Skipped
    <3> QED
      BY <1>1, <3>1, <3>2
  <2>2. UNCHANGED <<state, attempt, now, leaders, history>>
    BY <1>1 DEF Detected, Skipped
  <2> QED
    BY <2>1, <2>2, Untouched
<1>2. CASE UNCHANGED rvars
  <2>1. results' \in Seq(Key) /\ UNCHANGED <<state, attempt, now, leaders, history>>
    BY <1>2 DEF rvars, history, IInv, TypeOK
  <2> QED
    BY <2>1, Untouched
<1> QED
  BY <1>1, <1>2, EscalateStep, StartStep, FinishStep, CleanupStep, NewLeaderStep, TickStep DEF Next

\* What the controller remembers is true in every reachable state.
THEOREM Invariance == Spec => []IInv
BY InitIInv, NextIInv, PTL DEF Spec

\* Type correctness of the remediation controller.
THEOREM TypeCorrect == Spec => []TypeOK
<1>1. IInv => TypeOK
  BY DEF IInv
<1> QED
  BY <1>1, Invariance, PTL

\* At most MaxRetries attempts for a key fail in a row without an idle period, whenever
\* Cleanup runs and whatever the results.
THEOREM BoundedRetries == Spec => []RetriesBounded
<1>1. ASSUME IInv, NEW k \in Key PROVE failures[k] <= MaxRetries
  <2>1. /\ failures[k] \in Nat /\ state[k].count \in Nat /\ attempt.state.count \in Nat
        /\ MaxRetries \in Nat
    BY <1>1, RemediationAssumption DEF IInv, TypeOK, State
  <2>2. CASE attempt.key = k
    <3>1. attempt # NoAttempt
      BY <2>2, RemediationAssumption DEF NoAttempt
    <3> QED
      BY <1>1, <2>1, <2>2, <3>1 DEF IInv, AttemptTrue, FailuresTrue
  <2>3. CASE attempt.key # k /\ state[k].exists
    BY <1>1, <2>1, <2>3 DEF IInv, StateTrue, FailuresTrue
  <2>4. CASE attempt.key # k /\ ~state[k].exists
    BY <1>1, <2>4 DEF IInv, FailuresTrue
  <2> QED
    BY <2>2, <2>3, <2>4
<1>2. IInv => RetriesBounded
  BY <1>1 DEF RetriesBounded
<1> QED
  BY <1>2, Invariance, PTL

\* Each escalation is preceded by MaxRetries attempts of its own.
THEOREM EarnedEscalation == Spec => []EscalationEarned
<1>1. ASSUME IInv, NEW k \in Key PROVE attempts[k] >= MaxRetries * escalations[k]
  <2>1. /\ attempts[k] \in Nat /\ state[k].count \in Nat /\ attempt.state.count \in Nat
        /\ MaxRetries * escalations[k] \in Nat
    BY <1>1, RemediationAssumption DEF IInv, TypeOK, State
  <2> QED
    BY <1>1, <2>1 DEF IInv, AttemptsTrue
<1>2. IInv => EscalationEarned
  BY <1>1 DEF EscalationEarned
<1> QED
  BY <1>2, Invariance, PTL

\* Under one leader attempts for a key are at least Cooldown apart.
THEOREM KeptCooldown == Spec => CooldownKept
<1>1. ASSUME IInv, [Next]_rvars, NEW k \in Key, attempts'[k] > attempts[k]
      PROVE  lastDone[k] = Unset \/ now >= lastDone[k] + Cooldown
  <2>1. attempts \in [Key -> Nat] /\ now \in Nat /\ lastDone[k] \in Int
    BY <1>1 DEF IInv, TypeOK, Time, Unset
  <2>2. attempts' # attempts
    BY <1>1, <2>1
  <2>3. ~NewLeader
    BY <1>1, <2>1 DEF NewLeader
  <2>4. PICK j \in Key : Start(j)
    BY <1>1, <2>2, <2>3
       DEF Next, rvars, Detected, Skipped, Escalate, Finish, Cleanup, Tick, history
  <2>5. j = k
    BY <1>1, <2>1, <2>4 DEF Start
  <2>6. ~IsInCooldown(state[k])
    BY <2>4, <2>5 DEF Start, Due
  <2>7. CASE state[k].exists
    BY <1>1, <2>1, <2>6, <2>7, RemediationAssumption DEF IInv, StateTrue, IsInCooldown, Unset
  <2>8. CASE ~state[k].exists
    BY <1>1, <2>1, <2>8, RemediationAssumption DEF IInv, StateTrue
  <2> QED
    BY <2>7, <2>8
<1>2. IInv /\ [Next]_rvars =>
        [\A k \in Key : attempts'[k] > attempts[k] =>
           lastDone[k] = Unset \/ now >= lastDone[k] + Cooldown]_rvars
  BY <1>1
<1> QED
  BY <1>2, Invariance, PTL DEF Spec, CooldownKept

=============================================================================

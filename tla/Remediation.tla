----------------------------- MODULE Remediation -----------------------------
(***************************************************************************)
(* The remediation controller (internal/remediation/controller.go) with    *)
(* the policy filter in front of it (internal/policy).  One goroutine      *)
(* takes detection results from a channel and makes attempts to remediate, *)
(* limited by a cooldown and a number of retries that it remembers per     *)
(* key; a second goroutine forgets what has been idle.  An attempt takes   *)
(* time: it resolves the owner and publishes a task, or runs actions.      *)
(* The memory belongs to one leader; the next one starts with none.        *)
(***************************************************************************)
EXTENDS Integers, Sequences

CONSTANTS
  Key,          \* types.StateKey: a scenario and a resource
  NoKey,
  Policies,     \* ClusterRemediationPolicies: [paused |-> BOOLEAN, targets |-> set of keys]
  Cooldown,     \* config DefaultCooldown
  MaxRetries,   \* config DefaultMaxRetries
  IdlePeriod,   \* 30 minutes: Cleanup forgets a state this long after its last attempt
  BufferSize,   \* capacity of detectionResultCh
  MaxTime,      \* bound: the clock stops here
  MaxLeaders    \* bound: changes of the leader

ASSUME RemediationAssumption ==
  /\ NoKey \notin Key
  /\ Cooldown \in Nat \ {0} /\ MaxRetries \in Nat \ {0}  \* config.Validate
  /\ IdlePeriod \in Nat /\ BufferSize \in Nat /\ MaxTime \in Nat /\ MaxLeaders \in Nat

VARIABLES
  results,      \* detectionResultCh
  state,        \* inMemoryRemediationStateStore.states
  attempt,      \* what processResult is doing: the key and the state it works on
  now,
  leaders,      \* changes of the leader so far
  lastDone,     \* history: end of the last attempt under this leader
  failures,     \* history: attempts of this leader that failed in a row, with no idle
                \* period between them
  attempts, escalations   \* history: attempts made and escalations, under this leader

rvars == <<results, state, attempt, now, leaders, lastDone, failures, attempts, escalations>>

history == <<lastDone, failures, attempts, escalations>>

Unset == -1

Time == Nat \cup {Unset}

\* exists is FALSE for a key that is not in the map.
State == [exists : BOOLEAN, last : Time, count : Nat, until : Time, escalated : BOOLEAN]

NoState == [exists |-> FALSE, last |-> Unset, count |-> 0, until |-> Unset, escalated |-> FALSE]

NoAttempt == [key |-> NoKey, state |-> NoState]

Init ==
  /\ results = <<>>
  /\ state = [k \in Key |-> NoState]
  /\ attempt = NoAttempt
  /\ now = 0
  /\ leaders = 0
  /\ lastDone = [k \in Key |-> Unset]
  /\ failures = [k \in Key |-> 0]
  /\ attempts = [k \in Key |-> 0]
  /\ escalations = [k \in Key |-> 0]

-----------------------------------------------------------------------------
(* Policies are loaded once, when the pipeline is built.                   *)

IsPaused == Policies # {} /\ \A p \in Policies : p.paused

\* No policies: everything is covered.
IsResourceCovered(k) == Policies = {} \/ \E p \in Policies : ~p.paused /\ k \in p.targets

-----------------------------------------------------------------------------

\* The detection engine sends a result; a full channel drops it.
Detected(k) ==
  /\ Len(results) < BufferSize
  /\ results' = Append(results, k)
  /\ UNCHANGED <<state, attempt, now, leaders, history>>

\* Mutant: After instead of Before.
IsAfterCooldown(s) == s.until # Unset /\ now > s.until

IsInCooldown(s) == s.until # Unset /\ now < s.until

\* The controller is between two results and takes the next one, for k.
Take(k) ==
  /\ attempt = NoAttempt
  /\ results # <<>>
  /\ k = Head(results)
  /\ results' = Tail(results)

Skipped(k) ==
  /\ Take(k)
  /\ IsPaused \/ ~IsResourceCovered(k) \/ IsInCooldown(state[k])
  /\ UNCHANGED <<state, attempt, now, leaders, history>>

\* A key is ready for another attempt, or for escalation.
Due(k) == ~IsPaused /\ IsResourceCovered(k) /\ ~IsInCooldown(state[k])

\* Mutant: the state is not stored after an escalation.
EscalateForgets(k) ==
  /\ Take(k)
  /\ Due(k)
  /\ state[k].count >= MaxRetries
  /\ escalations' = [escalations EXCEPT ![k] = IF state[k].escalated THEN @ ELSE @ + 1]
  /\ UNCHANGED <<state, attempt, now, leaders, lastDone, failures, attempts>>

\* The retries are used up: escalate, but only once.
Escalate(k) ==
  /\ Take(k)
  /\ Due(k)
  /\ state[k].count >= MaxRetries
  /\ state' = [state EXCEPT ![k].escalated = TRUE]
  /\ escalations' = [escalations EXCEPT ![k] = IF state[k].escalated THEN @ ELSE @ + 1]
  /\ UNCHANGED <<attempt, now, leaders, lastDone, failures, attempts>>

\* An attempt starts: publishTask, or executeActions without leader election.
Start(k) ==
  /\ Take(k)
  /\ Due(k)
  /\ state[k].count < MaxRetries
  /\ attempt' = [key |-> k, state |-> state[k]]
  /\ attempts' = [attempts EXCEPT ![k] = @ + 1]
  /\ failures' = [failures EXCEPT ![k] = IF lastDone[k] # Unset /\ now > lastDone[k] + IdlePeriod
                                         THEN 0 ELSE @]
  /\ UNCHANGED <<state, now, leaders, lastDone, escalations>>

\* Mutant: the retries are counted down from zero.
RecordedDown == [attempt.state EXCEPT !.exists = TRUE, !.last = now, !.count = @ - 1,
                                      !.until = now + Cooldown]

\* Publishing succeeds or fails, the actions succeed or stop at one that fails,
\* or there were none: the attempt counts and the cooldown starts, all the same.
Recorded == [attempt.state EXCEPT !.exists = TRUE, !.last = now, !.count = @ + 1,
                                  !.until = now + Cooldown]

\* The attempt succeeds or fails, which only the history tells apart.
Finish(ok) ==
  /\ attempt # NoAttempt
  /\ attempt' = NoAttempt
  /\ state' = [state EXCEPT ![attempt.key] = Recorded]
  /\ lastDone' = [lastDone EXCEPT ![attempt.key] = now]
  /\ failures' = [failures EXCEPT ![attempt.key] = IF ok THEN 0 ELSE @ + 1]
  /\ UNCHANGED <<results, now, leaders, attempts, escalations>>

\* Mutant: states are forgotten when their cooldown is over.
ForgottenAfterCooldown(s) == s.exists /\ now > s.until

\* cleanupLoop, at any time, also while an attempt is under way.
Forgotten(s) == s.exists /\ s.last < now - IdlePeriod /\ now > s.until

Cleanup ==
  /\ \E k \in Key : Forgotten(state[k])
  /\ state' = [k \in Key |-> IF Forgotten(state[k]) THEN NoState ELSE state[k]]
  /\ UNCHANGED <<results, attempt, now, leaders, history>>

\* The leader exits, or loses the lease; the next one builds a new pipeline.
NewLeader ==
  /\ leaders < MaxLeaders
  /\ leaders' = leaders + 1
  /\ results' = <<>>
  /\ state' = [k \in Key |-> NoState]
  /\ attempt' = NoAttempt
  /\ lastDone' = [k \in Key |-> Unset]
  /\ failures' = [k \in Key |-> 0]
  /\ attempts' = [k \in Key |-> 0]
  /\ escalations' = [k \in Key |-> 0]
  /\ UNCHANGED now

Tick ==
  /\ now < MaxTime
  /\ now' = now + 1
  /\ UNCHANGED <<results, state, attempt, leaders, history>>

Next ==
  \/ \E k \in Key : Detected(k) \/ Skipped(k) \/ Escalate(k) \/ Start(k)
  \/ \E ok \in BOOLEAN : Finish(ok)
  \/ Cleanup
  \/ NewLeader
  \/ Tick

Spec == Init /\ [][Next]_rvars

-----------------------------------------------------------------------------
(* Properties.                                                             *)

\* Type correctness of the controller's memory: counts never go below zero.
TypeOK ==
  /\ results \in Seq(Key)
  /\ state \in [Key -> State]
  /\ attempt \in [key : Key \cup {NoKey}, state : State]
  /\ now \in Nat /\ leaders \in Nat
  /\ lastDone \in [Key -> Time]
  /\ failures \in [Key -> Nat] /\ attempts \in [Key -> Nat]
  /\ escalations \in [Key -> Nat]

\* No remediation storm: under one leader an attempt starts at least Cooldown
\* after the previous one for the same key ended, although Cleanup may have
\* forgotten the state, also while that attempt was under way.
CooldownKept ==
  [][\A k \in Key : attempts'[k] > attempts[k] =>
       lastDone[k] = Unset \/ now >= lastDone[k] + Cooldown]_rvars

\* Retries are bounded: under one leader at most MaxRetries attempts for a key fail in
\* a row with no idle period between two of them, whenever Cleanup runs.
RetriesBounded == \A k \in Key : failures[k] <= MaxRetries

\* An escalation costs MaxRetries attempts of its own: neither repeated results
\* nor Cleanup can make the controller escalate again without trying again.
EscalationEarned == \A k \in Key : attempts[k] >= MaxRetries * escalations[k]

-----------------------------------------------------------------------------
(* The inductive invariant.                                                *)

\* The attempt under way is for a key with retries left.
AttemptTrue ==
  attempt # NoAttempt => /\ attempt.key \in Key
                         /\ attempt.state.count < MaxRetries
                         /\ ~attempt.state.escalated

\* A remembered state tells when the last attempt ended and how many there were.
StateTrue(k) ==
  IF state[k].exists
  THEN /\ lastDone[k] \in Nat /\ state[k].last = lastDone[k]
       /\ state[k].until = lastDone[k] + Cooldown
       /\ state[k].count <= MaxRetries
       /\ state[k].escalated => state[k].count = MaxRetries
  ELSE /\ state[k] = NoState
       /\ lastDone[k] # Unset => now > lastDone[k] + IdlePeriod /\ now > lastDone[k] + Cooldown

\* Failures in a row are remembered: no state means none, or an idle period since.
FailuresTrue(k) ==
  IF attempt.key = k THEN failures[k] <= attempt.state.count
  ELSE IF state[k].exists THEN failures[k] <= state[k].count
  ELSE failures[k] <= MaxRetries /\ (lastDone[k] = Unset => failures[k] = 0)

\* Attempts not yet paid for with an escalation are remembered.
AttemptsTrue(k) ==
  attempts[k] >= MaxRetries * escalations[k]
                 + IF attempt.key = k THEN attempt.state.count + 1
                   ELSE IF state[k].escalated THEN 0 ELSE state[k].count

\* What the controller remembers is true, also across Cleanup during an attempt;
\* it implies the safety properties (processResult, Cleanup).
IInv ==
  /\ TypeOK
  /\ AttemptTrue
  /\ \A k \in Key : StateTrue(k) /\ FailuresTrue(k) /\ AttemptsTrue(k)

=============================================================================

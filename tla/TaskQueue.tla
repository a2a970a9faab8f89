------------------------------ MODULE TaskQueue ------------------------------
(***************************************************************************)
(* The RemediationTask queue (internal/taskqueue).  The leader publishes   *)
(* tasks to the Kubernetes API server; every pod runs a Worker that        *)
(* watches the tasks, claims Pending ones by an optimistic status update   *)
(* and executes their actions; every pod also runs a Janitor that lists    *)
(* the tasks periodically, expires stuck ones and deletes old ones.        *)
(*                                                                         *)
(* Each call to the API server is one step, so that the steps of all the   *)
(* goroutines of all the pods interleave between calls.  Pods crash at any *)
(* moment and restart, watches break, and API calls fail with or without   *)
(* having been applied.                                                    *)
(***************************************************************************)
EXTENDS Integers, Sequences, FiniteSets

CONSTANTS
  Pod,                \* operator pods; every pod runs a Worker and a Janitor
  Task,               \* names of RemediationTask objects
  Goroutine,          \* bound: claimAndExecute goroutines alive at once
  NoPod, NoTask,      \* "unset" values
  ActionCount,        \* actions in a task's spec
  Second,             \* clock ticks per second: RFC3339 drops the fraction
  ActiveDeadline,     \* config.TaskQueueConfig, in ticks
  RetentionPeriod,
  TrailingRetention,
  MaxTime,            \* bound: the clock stops here
  MaxFaults,          \* bound: crashes, broken watches and failed API calls
  MaxEdits            \* bound: metadata edits by users of the cluster

ASSUME ConstantsAssumption ==
  /\ NoPod \notin Pod /\ NoTask \notin Task
  /\ ActionCount \in Nat
  /\ Second \in Nat \ {0}
  /\ ActiveDeadline \in Nat /\ RetentionPeriod \in Nat /\ TrailingRetention \in Nat
  /\ MaxTime \in Nat /\ MaxFaults \in Nat /\ MaxEdits \in Nat

VARIABLES
  store,      \* the API server's RemediationTask objects, by name
  leader,     \* the pod whose pipeline runs, or NoPod
  up,         \* the pods that run
  watching,   \* watch loops with an open watch
  inbox,      \* watch events on their way to each loop
  gor,        \* claimAndExecute goroutines of all pods
  jan,        \* the Janitor of each pod
  now,        \* the clock
  faults, edits,
  ran,        \* history: actions started for each task, by anyone
  stamped     \* history: exact time of the clock reading behind claimedAt

vars == <<store, leader, up, watching, inbox, gor, jan, now, faults, edits, ran, stamped>>

-----------------------------------------------------------------------------
(* Objects, events and process states.                                     *)

Unset == -1

Terminal == {"Completed", "Failed", "Expired"}

\* "Absent" and "Deleted" stand for no object of that name, before and after.
Phase == {"Absent", "Pending", "Running", "Deleted"} \cup Terminal

Time == Nat \cup {Unset}

Object == [phase : Phase, rv : Nat, claimedBy : Pod \cup {NoPod}, claimedAt : Time,
           completedAt : Time, createdAt : Time, done : Nat]

NoObject == [phase |-> "Absent", rv |-> 0, claimedBy |-> NoPod, claimedAt |-> Unset,
             completedAt |-> Unset, createdAt |-> Unset, done |-> 0]

EmptyStore == [t \in Task |-> NoObject]

Exists(t) == store[t].phase \notin {"Absent", "Deleted"}

\* A watch event carries the object as it was after the write.
Event == [task : Task, rv : Nat, phase : Phase]

\* The Worker of each pod runs one watch loop; main starts it on every pod, and
\* the leader's pipeline starts a second one on the same Worker.
Loop == Pod \X {"main", "pipeline"}

\* time.Format(RFC3339) drops the fraction of a second.
RFC3339(t) == (t \div Second) * Second

GState == [pc : {"idle", "claim", "exec", "get", "put"}, pod : Pod \cup {NoPod},
           task : Task \cup {NoTask}, rv : Nat, at : Time, done : Nat, ok : BOOLEAN]

Idle == [pc |-> "idle", pod |-> NoPod, task |-> NoTask, rv |-> 0, at |-> Unset,
         done |-> 0, ok |-> TRUE]

JState == [pc : {"idle", "listed", "sweep"}, snap : [Task -> Object], todo : SUBSET Task]

JIdle == [pc |-> "idle", snap |-> EmptyStore, todo |-> {}]

Init ==
  /\ store = EmptyStore
  /\ leader = NoPod
  /\ up = Pod
  /\ watching = {}
  /\ inbox = [l \in Loop |-> <<>>]
  /\ gor = [g \in Goroutine |-> Idle]
  /\ jan = [p \in Pod |-> JIdle]
  /\ now = 0
  /\ faults = 0
  /\ edits = 0
  /\ ran = [t \in Task |-> 0]
  /\ stamped = [t \in Task |-> Unset]

-----------------------------------------------------------------------------
(* The API server: a write gets a new resourceVersion and an event for     *)
(* every open watch.  An update is refused unless it carries the           *)
(* resourceVersion of the stored object.                                   *)

\* Mutants: no filter on the phase; only Added events, the first of an object.
AnyEvent(e) == TRUE

OnlyAdded(e) == e.phase = "Pending" /\ e.rv = 1

\* watchLoop skips every event but Added and Modified ones of Pending tasks.
\* Skipping changes nothing, so skipped events are not put in the inbox.
IsPendingEvent(e) == e.phase = "Pending"

UpdateAccepted(t, rv) == Exists(t) /\ store[t].rv = rv

Write(t, obj) ==
  LET e == [task |-> t, rv |-> store[t].rv + 1, phase |-> obj.phase]
  IN /\ store' = [store EXCEPT ![t] = [obj EXCEPT !.rv = e.rv]]
     /\ inbox' = [l \in Loop |-> IF l \in watching /\ IsPendingEvent(e)
                                 THEN Append(inbox[l], e) ELSE inbox[l]]

Fault ==
  /\ faults < MaxFaults
  /\ faults' = faults + 1

-----------------------------------------------------------------------------
(* The leader, its Publisher, and users who edit task metadata.            *)

\* OnStartedLeading: the pod builds and runs the pipeline.
BecomeLeader(p) ==
  /\ leader = NoPod
  /\ p \in up
  /\ leader' = p
  /\ UNCHANGED <<store, up, watching, inbox, gor, jan, now, faults, edits, ran, stamped>>

\* Publish: fire-and-forget Create; an object without a phase counts as Pending.
Publish(t) ==
  /\ leader # NoPod
  /\ store[t].phase = "Absent"
  /\ Write(t, [NoObject EXCEPT !.phase = "Pending", !.createdAt = RFC3339(now)])
  /\ UNCHANGED <<leader, up, watching, gor, jan, now, faults, edits, ran, stamped>>

\* A label or annotation is changed from outside: a Modified event, same phase.
Edit(t) ==
  /\ edits < MaxEdits
  /\ edits' = edits + 1
  /\ Exists(t)
  /\ Write(t, store[t])
  /\ UNCHANGED <<leader, up, watching, gor, jan, now, faults, ran, stamped>>

-----------------------------------------------------------------------------
(* The Worker's watch loop.                                                *)

LoopRuns(l) == l[1] \in up /\ (l[2] = "pipeline" => leader = l[1])

\* List for a resourceVersion, then watch from it: what the list returned is
\* not looked at, so only writes after this moment reach the loop.
WatchStart(l) ==
  /\ LoopRuns(l)
  /\ l \notin watching
  /\ watching' = watching \cup {l}
  /\ UNCHANGED <<store, leader, up, inbox, gor, jan, now, faults, edits, ran, stamped>>

\* The RetryWatcher gives up (its resourceVersion is too old) or List fails:
\* watchLoop returns and Run starts over; undelivered events are lost.
WatchBroken(l) ==
  /\ l \in watching
  /\ Fault
  /\ watching' = watching \ {l}
  /\ inbox' = [inbox EXCEPT ![l] = <<>>]
  /\ UNCHANGED <<store, leader, up, gor, jan, now, edits, ran, stamped>>

\* watchLoop handles one event: a Pending task gets a goroutine of its own,
\* which reads the clock for claimedAt before it calls the API server.
Receive(l) ==
  /\ l \in watching
  /\ inbox[l] # <<>>
  /\ inbox' = [inbox EXCEPT ![l] = Tail(@)]
  /\ \E g \in Goroutine :
       /\ gor[g].pc = "idle"
       /\ gor' = [gor EXCEPT ![g] = [Idle EXCEPT !.pc = "claim", !.pod = l[1],
                                                 !.task = Head(inbox[l]).task,
                                                 !.rv = Head(inbox[l]).rv, !.at = now]]
  /\ UNCHANGED <<store, leader, up, watching, jan, now, faults, edits, ran, stamped>>

-----------------------------------------------------------------------------
(* claimAndExecute, one goroutine per received event.                      *)

Claimed(g) ==
  [store[gor[g].task] EXCEPT !.phase = "Running", !.claimedBy = gor[g].pod,
                             !.claimedAt = RFC3339(gor[g].at)]

\* Mutant: a conflict is retried with the current resourceVersion.
ClaimRetried(g) == Exists(gor[g].task)

ClaimAccepted(g) == UpdateAccepted(gor[g].task, gor[g].rv)

WriteClaim(g) ==
  /\ ClaimAccepted(g)
  /\ Write(gor[g].task, Claimed(g))
  /\ stamped' = [stamped EXCEPT ![gor[g].task] = gor[g].at]

\* UpdateStatus with the event's object; any error ends the goroutine.
Claim(g) ==
  /\ gor[g].pc = "claim"
  /\ \/ /\ WriteClaim(g)
        /\ gor' = [gor EXCEPT ![g].pc = IF ActionCount = 0 THEN "get" ELSE "exec"]
     \/ /\ ~ClaimAccepted(g)
        /\ gor' = [gor EXCEPT ![g] = Idle]
        /\ UNCHANGED <<store, inbox, stamped>>
  /\ UNCHANGED <<leader, up, watching, jan, now, faults, edits, ran>>

\* The call fails before it is applied, or is applied and its answer lost.
ClaimFails(g) ==
  /\ gor[g].pc = "claim"
  /\ Fault
  /\ gor' = [gor EXCEPT ![g] = Idle]
  /\ \/ UNCHANGED <<store, inbox, stamped>>
     \/ WriteClaim(g)
  /\ UNCHANGED <<leader, up, watching, jan, now, edits, ran>>

\* One round of the loop over the sorted actions: stop on the first failure.
Execute(g) ==
  /\ gor[g].pc = "exec"
  /\ ran' = [ran EXCEPT ![gor[g].task] = @ + 1]
  /\ \/ gor' = [gor EXCEPT ![g].done = @ + 1,
                           ![g].pc = IF gor[g].done + 1 = ActionCount THEN "get" ELSE "exec"]
     \/ gor' = [gor EXCEPT ![g].ok = FALSE, ![g].pc = "get"]
  /\ UNCHANGED <<store, leader, up, watching, inbox, jan, now, faults, edits, stamped>>

\* updateTaskStatus, first call: read the task again and the clock.
Reread(g) ==
  /\ gor[g].pc = "get"
  /\ \/ /\ Exists(gor[g].task)
        /\ gor' = [gor EXCEPT ![g].pc = "put", ![g].rv = store[gor[g].task].rv, ![g].at = now]
     \/ /\ ~Exists(gor[g].task)
        /\ gor' = [gor EXCEPT ![g] = Idle]
  /\ UNCHANGED <<store, leader, up, watching, inbox, jan, now, faults, edits, ran, stamped>>

\* Mutant: the error of the loop over the actions is lost.
OutcomeCompleted(g) ==
  [store[gor[g].task] EXCEPT !.phase = "Completed", !.completedAt = RFC3339(gor[g].at),
                             !.done = gor[g].done]

Outcome(g) ==
  [store[gor[g].task] EXCEPT !.phase = IF gor[g].ok THEN "Completed" ELSE "Failed",
                             !.completedAt = RFC3339(gor[g].at), !.done = gor[g].done]

\* updateTaskStatus, second call: the phase read is not looked at.
Report(g) ==
  /\ gor[g].pc = "put"
  /\ gor' = [gor EXCEPT ![g] = Idle]
  /\ \/ /\ UpdateAccepted(gor[g].task, gor[g].rv)
        /\ Write(gor[g].task, Outcome(g))
     \/ /\ ~UpdateAccepted(gor[g].task, gor[g].rv)
        /\ UNCHANGED <<store, inbox>>
  /\ UNCHANGED <<leader, up, watching, jan, now, faults, edits, ran, stamped>>

\* Either call of updateTaskStatus fails: logged, not retried.
ReportFails(g) ==
  /\ gor[g].pc \in {"get", "put"}
  /\ Fault
  /\ gor' = [gor EXCEPT ![g] = Idle]
  /\ UNCHANGED <<store, leader, up, watching, inbox, jan, now, edits, ran, stamped>>

-----------------------------------------------------------------------------
(* The Janitor.  The cleanup interval is any time.                         *)

\* Mutants: off by one; the wrong status field.
IsStuckAtDeadline(obj, t) ==
  /\ obj.claimedAt # Unset
  /\ t >= obj.claimedAt + ActiveDeadline

IsStuckByCompletedAt(obj, t) ==
  /\ obj.completedAt # Unset
  /\ t > obj.completedAt + ActiveDeadline

IsStuck(obj, t) ==
  /\ obj.claimedAt # Unset
  /\ t > obj.claimedAt + ActiveDeadline

\* completedAt, or the creation time when it is not set.
TerminalTime(obj) == IF obj.completedAt # Unset THEN obj.completedAt ELSE obj.createdAt

\* The most recent terminal time in a list, Unset when nothing is terminal.
TLast(list) ==
  LET times == {TerminalTime(list[t]) : t \in {u \in Task : list[u].phase \in Terminal}}
  IN IF times = {} THEN Unset ELSE CHOOSE m \in times : \A n \in times : n <= m

ShouldDeleteTerminal(obj, t, tLast) ==
  IF TrailingRetention > 0 /\ tLast # Unset
  THEN TerminalTime(obj) < tLast - TrailingRetention
  ELSE t > TerminalTime(obj) + RetentionPeriod

JanitorList(p) ==
  /\ p \in up
  /\ jan[p].pc = "idle"
  /\ jan' = [jan EXCEPT ![p].pc = "listed", ![p].snap = store]
  /\ UNCHANGED <<store, leader, up, watching, inbox, gor, now, faults, edits, ran, stamped>>

\* The clock is read after the list; it and the list decide what to do.
ToExpire(list, t) == {u \in Task : list[u].phase = "Running" /\ IsStuck(list[u], t)}

ToDelete(list, t) ==
  {u \in Task : list[u].phase \in Terminal /\ ShouldDeleteTerminal(list[u], t, TLast(list))}

JanitorPlan(p) ==
  LET todo == ToExpire(jan[p].snap, now) \cup ToDelete(jan[p].snap, now)
  IN /\ jan[p].pc = "listed"
     /\ jan' = [jan EXCEPT ![p] = IF todo = {} THEN JIdle
                                  ELSE [@ EXCEPT !.pc = "sweep", !.todo = todo]]
     /\ UNCHANGED <<store, leader, up, watching, inbox, gor, now, faults, edits, ran, stamped>>

\* The sweep is done with t and goes on to the next item, or ends.
SweepNext(p, t) ==
  jan' = [jan EXCEPT ![p] = IF jan[p].todo = {t} THEN JIdle
                            ELSE [jan[p] EXCEPT !.todo = jan[p].todo \ {t}]]

Expired(t) == [store[t] EXCEPT !.phase = "Expired", !.completedAt = RFC3339(now)]

\* expireTask: a status update with the listed resourceVersion.
JanitorExpire(p, t) ==
  /\ jan[p].pc = "sweep"
  /\ t \in jan[p].todo
  /\ jan[p].snap[t].phase = "Running"
  /\ SweepNext(p, t)
  /\ \/ /\ UpdateAccepted(t, jan[p].snap[t].rv)
        /\ Write(t, Expired(t))
     \/ /\ ~UpdateAccepted(t, jan[p].snap[t].rv)
        /\ UNCHANGED <<store, inbox>>
  /\ UNCHANGED <<leader, up, watching, gor, now, faults, edits, ran, stamped>>

\* deleteTask: a Delete by name, with no precondition on the stored object.
JanitorDelete(p, t) ==
  /\ jan[p].pc = "sweep"
  /\ t \in jan[p].todo
  /\ jan[p].snap[t].phase \in Terminal
  /\ SweepNext(p, t)
  /\ \/ /\ Exists(t)
        /\ Write(t, [store[t] EXCEPT !.phase = "Deleted"])
     \/ /\ ~Exists(t)
        /\ UNCHANGED <<store, inbox>>
  /\ UNCHANGED <<leader, up, watching, gor, now, faults, edits, ran, stamped>>

\* The API call for one item fails: logged, the sweep goes on.
JanitorFails(p, t) ==
  /\ jan[p].pc = "sweep"
  /\ t \in jan[p].todo
  /\ Fault
  /\ SweepNext(p, t)
  /\ UNCHANGED <<store, leader, up, watching, inbox, gor, now, edits, ran, stamped>>

-----------------------------------------------------------------------------
(* Pods crash, also when they lose the lease (OnStoppedLeading exits), and *)
(* are restarted by Kubernetes; the clock.                                 *)

Crash(p) ==
  /\ p \in up
  /\ Fault
  /\ up' = up \ {p}
  /\ leader' = IF leader = p THEN NoPod ELSE leader
  /\ watching' = {l \in watching : l[1] # p}
  /\ inbox' = [l \in Loop |-> IF l[1] = p THEN <<>> ELSE inbox[l]]
  /\ gor' = [g \in Goroutine |-> IF gor[g].pod = p THEN Idle ELSE gor[g]]
  /\ jan' = [jan EXCEPT ![p] = JIdle]
  /\ UNCHANGED <<store, now, edits, ran, stamped>>

Restart(p) ==
  /\ p \notin up
  /\ up' = up \cup {p}
  /\ UNCHANGED <<store, leader, watching, inbox, gor, jan, now, faults, edits, ran, stamped>>

Tick ==
  /\ now < MaxTime
  /\ now' = now + 1
  /\ UNCHANGED <<store, leader, up, watching, inbox, gor, jan, faults, edits, ran, stamped>>

GoroutineStep(g) == Claim(g) \/ Execute(g) \/ Reread(g) \/ Report(g)

JanitorStep(p) ==
  \/ JanitorList(p)
  \/ JanitorPlan(p)
  \/ \E t \in Task : JanitorExpire(p, t) \/ JanitorDelete(p, t)

Next ==
  \/ \E p \in Pod : BecomeLeader(p) \/ JanitorStep(p) \/ Crash(p) \/ Restart(p)
  \/ \E t \in Task : Publish(t) \/ Edit(t)
  \/ \E l \in Loop : WatchStart(l) \/ WatchBroken(l) \/ Receive(l)
  \/ \E g \in Goroutine : GoroutineStep(g) \/ ClaimFails(g) \/ ReportFails(g)
  \/ \E p \in Pod, t \in Task : JanitorFails(p, t)
  \/ Tick

Spec == Init /\ [][Next]_vars

\* What the scheduler, the API server and Kubernetes guarantee: running loops,
\* goroutines and Janitors make progress, crashed pods are restarted, a lease
\* nobody holds is taken, and time passes.  Publishing, edits and faults are not.
Fairness ==
  /\ \A p \in Pod : WF_vars(JanitorStep(p)) /\ WF_vars(Restart(p))
  /\ WF_vars(\E p \in Pod : BecomeLeader(p))
  /\ \A l \in Loop : WF_vars(WatchStart(l)) /\ WF_vars(Receive(l))
  /\ \A g \in Goroutine : WF_vars(GoroutineStep(g))
  /\ WF_vars(Tick)

FairSpec == Spec /\ Fairness

-----------------------------------------------------------------------------
(* Properties.                                                             *)

\* Type correctness: objects, events, goroutines and Janitors stay well-formed;
\* written times are never before the epoch.
TypeOK ==
  /\ store \in [Task -> Object]
  /\ leader \in Pod \cup {NoPod}
  /\ up \in SUBSET Pod
  /\ watching \in SUBSET Loop
  /\ inbox \in [Loop -> Seq(Event)]
  /\ gor \in [Goroutine -> GState]
  /\ jan \in [Pod -> JState]
  /\ now \in Nat
  /\ faults \in Nat
  /\ edits \in Nat
  /\ ran \in [Task -> Nat]
  /\ stamped \in [Task -> Time]

\* g won the claim on t and has not finished with it.
Holds(g, t) == gor[g].task = t /\ gor[g].pc \in {"exec", "get", "put"}

\* Competing consumers: whatever watches, restarts, edits and Janitors do, no
\* two goroutines, of any pods, are past the claim of the same task
\* (worker.go claimAndExecute).
ClaimExclusive ==
  \A t \in Task : \A g, h \in Goroutine : Holds(g, t) /\ Holds(h, t) => g = h

\* No action of a task is started twice: over all pods, restarts and duplicate
\* watch loops a task starts at most as many actions as its spec lists, and
\* while a worker holds it exactly the ones that worker counted.
ActionsAtMostOnce ==
  /\ \A t \in Task : ran[t] <= ActionCount
  /\ \A g \in Goroutine : gor[g].pc = "exec" => ran[gor[g].task] = gor[g].done

\* The recorded outcome is what happened: Completed tasks had all their
\* actions run, Failed ones stopped one action after the recorded count.
OutcomeIsTrue ==
  \A t \in Task :
    /\ store[t].phase = "Completed" => ran[t] = ActionCount /\ store[t].done = ActionCount
    /\ store[t].phase = "Failed" => ran[t] = store[t].done + 1

\* Nothing a worker or a Janitor read long ago undoes an outcome: a task is only
\* started when it is Pending, and once its worker has recorded Completed or
\* Failed, no claim, late report or expiry replaces that, its count or its time
\* (claimAndExecute, updateTaskStatus, expireTask).  A Failed task may be made
\* Pending again: the documented life of a task has a retry, the code has none.
OutcomeStands ==
  [][\A t \in Task :
       /\ store[t].phase # "Running" /\ store'[t].phase = "Running" => store[t].phase = "Pending"
       /\ store[t].phase = "Completed" => store'[t].phase \in {"Completed", "Deleted"}
       /\ store[t].phase = "Failed" => store'[t].phase \in {"Failed", "Deleted", "Pending"}
       /\ store[t].phase \in {"Completed", "Failed"} /\ store'[t].phase = store[t].phase =>
            store'[t].done = store[t].done /\ store'[t].completedAt = store[t].completedAt]_vars

\* The Janitor only removes terminal tasks, although it decides on a list that
\* may be arbitrarily old and deletes without a precondition.
OnlyTerminalDeleted ==
  [][\A t \in Task : store[t].phase # "Deleted" /\ store'[t].phase = "Deleted"
                       => store[t].phase \in Terminal]_vars

\* A task is expired only when ActiveDeadline has passed since its worker read
\* the clock for claimedAt, short of the fraction of a second that RFC3339 drops.
NotExpiredEarly ==
  [][\A t \in Task : store[t].phase = "Running" /\ store'[t].phase = "Expired"
                       => now + Second > stamped[t] + ActiveDeadline + 1]_vars

\* Once no more faults come, a Pending task whose event reached an open watch
\* is claimed: neither a full pool of goroutines nor the conflicts between the
\* two loops of the leader, other pods and users' edits can starve it.
DeliveredIsClaimed ==
  \A t \in Task :
    /\ faults = MaxFaults
    /\ store[t].phase = "Pending"
    /\ \E l \in watching : \E i \in DOMAIN inbox[l] : inbox[l][i].task = t
    ~> store[t].phase # "Pending"

\* No task stays Running: its worker reports, or, when the worker is gone or its
\* report was lost, some Janitor expires it (claims so late that the bounded
\* clock cannot pass their deadline are left out).
RunningIsResolved ==
  \A t \in Task :
    store[t].phase = "Running" /\ store[t].claimedAt + ActiveDeadline < MaxTime
    ~> store[t].phase # "Running"

-----------------------------------------------------------------------------
(* The inductive invariant: why a resourceVersion is enough.               *)

\* A resourceVersion seen earlier is not newer than the stored one, and if it is
\* still the stored one the task still is as it was seen: Pending.
SeenPending(objs, t, rv) ==
  /\ t \in Task
  /\ rv <= objs[t].rv
  /\ rv = objs[t].rv => objs[t].phase = "Pending"

\* Events under way and goroutines about to claim have seen a Pending task.
EventsTrue == \A l \in Loop : \A i \in 1..Len(inbox[l]) :
                SeenPending(store, inbox[l][i].task, inbox[l][i].rv)

ClaimsTrue == \A g \in Goroutine : gor[g].pc = "claim" =>
                /\ SeenPending(store, gor[g].task, gor[g].rv)
                /\ gor[g].pod \in Pod /\ gor[g].at \in Nat
                /\ gor[g].done = 0 /\ gor[g].ok

\* What a holder of a task knows: nobody else has recorded an outcome, and the
\* actions started are the ones it started.
HoldersTrue == \A g \in Goroutine : gor[g].pc \in {"exec", "get", "put"} =>
                 /\ gor[g].task \in Task
                 /\ store[gor[g].task].phase \in {"Running", "Expired", "Deleted"}
                 /\ gor[g].pc = "exec" => /\ gor[g].ok /\ gor[g].done < ActionCount
                                          /\ ran[gor[g].task] = gor[g].done
                 /\ gor[g].pc # "exec" /\ gor[g].ok =>
                      gor[g].done = ActionCount /\ ran[gor[g].task] = ActionCount
                 /\ gor[g].pc # "exec" /\ ~gor[g].ok => ran[gor[g].task] = gor[g].done + 1
                 /\ gor[g].pc = "put" => gor[g].at \in Nat

\* A Janitor's list is old, but what it holds with the stored resourceVersion is
\* the stored object, and what it saw terminal is terminal or deleted.
SnapshotsTrue ==
  \A p \in Pod : jan[p].pc # "idle" => \A t \in Task :
    /\ jan[p].snap[t].rv <= store[t].rv
    /\ jan[p].snap[t].rv = store[t].rv => jan[p].snap[t] = store[t]
    /\ jan[p].snap[t].phase \in Terminal => store[t].phase \in Terminal \cup {"Deleted"}

\* The Janitor acts on what its list and the clock justify.
PlansTrue ==
  \A p \in Pod : \A t \in jan[p].todo :
    /\ jan[p].pc = "sweep"
    /\ jan[p].snap[t].phase \in Terminal \cup {"Running"}
    /\ jan[p].snap[t].phase = "Running" => IsStuck(jan[p].snap[t], now)

\* No action runs before the claim, and never more than the spec lists.
RanTrue == \A t \in Task :
             /\ ran[t] <= ActionCount
             /\ store[t].phase \in {"Absent", "Pending"} => ran[t] = 0

StampsTrue == \A t \in Task : store[t].phase = "Running" =>
                stamped[t] \in Nat /\ store[t].claimedAt = RFC3339(stamped[t])

\* What everybody remembers of the store is still true as far as they rely on it
\* (claimAndExecute, updateTaskStatus, sweep); it implies the safety properties.
IInv ==
  /\ TypeOK
  /\ EventsTrue
  /\ ClaimsTrue
  /\ HoldersTrue
  /\ ClaimExclusive
  /\ SnapshotsTrue
  /\ PlansTrue
  /\ RanTrue
  /\ StampsTrue
  /\ OutcomeIsTrue

-----------------------------------------------------------------------------
(* Refinement of the abstract life of tasks.                               *)

TaskPhase == [t \in Task |-> store[t].phase]

Claimant == [t \in Task |-> store[t].claimedBy]

Held == {t \in Task : \E g \in Goroutine : Holds(g, t)}

Lifecycle == INSTANCE TaskLifecycle WITH phase <- TaskPhase, claimedBy <- Claimant, held <- Held

\* Every step of pods, watches, goroutines and Janitors is a step of the
\* abstract lifecycle of tasks (or changes nothing of it).
ImplementsLifecycle == Lifecycle!Spec

-----------------------------------------------------------------------------
(* What comments of the repository say and the code does not do.           *)

\* A task that is not claimed in time becomes Expired
\* (api/v1alpha1/remediationtask_types.go:30-31), so none stays Pending.
PendingIsResolved == \A t \in Task : store[t].phase = "Pending" ~> store[t].phase # "Pending"

=============================================================================

--------------------------- MODULE TaskQueueProofs ---------------------------
(***************************************************************************)
(* The inductive invariant IInv of TaskQueue and what follows from it, for *)
(* any number of pods, tasks, goroutines, actions, faults and edits.       *)
(***************************************************************************)
EXTENDS TaskQueue, FoldLemmas, SequenceTheorems, TLAPS

-----------------------------------------------------------------------------
(* Facts about the definitions.                                            *)

\* Formatting a time with RFC3339 loses less than a second and never moves it
\* forward (worker.go:185, 338, janitor.go:210).
LEMMA RFC3339Fact ==
  ASSUME NEW t \in Nat
  PROVE  RFC3339(t) \in Nat /\ RFC3339(t) <= t /\ t < RFC3339(t) + Second
<1>1. Second \in Nat /\ Second > 0
  BY ConstantsAssumption
<1>2. t = Second * (t \div Second) + (t % Second) /\ t % Second \in 0..(Second - 1)
      /\ t \div Second \in Nat
  BY <1>1, SMT
<1>3. RFC3339(t) = t - (t % Second)
  BY <1>1, <1>2, SMT DEF RFC3339
<1>4. QED
  BY <1>1, <1>2, <1>3, SMT

\* A write makes the stored object newer, touches no other task, and its event
\* reaches the open watches (the API server; publisher.go:127, worker.go:193).
LEMMA WriteFact ==
  ASSUME TypeOK, NEW t \in Task, NEW obj \in Object, Write(t, obj)
  PROVE  /\ store' = [store EXCEPT ![t] = [obj EXCEPT !.rv = store[t].rv + 1]]
         /\ store' \in [Task -> Object]
         /\ inbox' \in [Loop -> Seq(Event)]
<1> DEFINE e == [task |-> t, rv |-> store[t].rv + 1, phase |-> obj.phase]
<1>1. store[t].rv + 1 \in Nat
  BY DEF TypeOK, Object
<1>2. e \in Event
  BY <1>1 DEF Event, Object
<1>3. store' = [store EXCEPT ![t] = [obj EXCEPT !.rv = store[t].rv + 1]]
  BY DEF Write
<1>4. store' \in [Task -> Object]
  BY <1>1, <1>3 DEF TypeOK, Object
<1>5. inbox' = [l \in Loop |-> IF l \in watching /\ IsPendingEvent(e)
                               THEN Append(inbox[l], e) ELSE inbox[l]]
  BY DEF Write
<1>6. ASSUME NEW l \in Loop
      PROVE  (IF l \in watching /\ IsPendingEvent(e) THEN Append(inbox[l], e) ELSE inbox[l]) \in Seq(Event)
  BY <1>2 DEF TypeOK
<1>7. inbox' \in [Loop -> Seq(Event)]
  BY <1>5, <1>6
<1> QED
  BY <1>3, <1>4, <1>7

\* What was seen Pending before a write is either outdated by it or untouched.
LEMMA WriteSeen ==
  ASSUME TypeOK, NEW t \in Task, NEW obj \in Object, Write(t, obj),
         NEW u, NEW rv \in Nat, SeenPending(store, u, rv)
  PROVE  SeenPending(store', u, rv)
<1>1. store' = [store EXCEPT ![t] = [obj EXCEPT !.rv = store[t].rv + 1]]
  BY WriteFact
<1> QED
  BY <1>1 DEF SeenPending, TypeOK, Object

\* A write keeps events truthful: older events are now outdated, and an event is
\* only sent for a Pending object.
LEMMA WriteEvents ==
  ASSUME TypeOK, EventsTrue, NEW t \in Task, NEW obj \in Object, Write(t, obj)
  PROVE  EventsTrue'
<1> DEFINE e == [task |-> t, rv |-> store[t].rv + 1, phase |-> obj.phase]
<1>1. store' = [store EXCEPT ![t] = [obj EXCEPT !.rv = store[t].rv + 1]]
  BY WriteFact
<1>2. inbox' = [l \in Loop |-> IF l \in watching /\ IsPendingEvent(e)
                               THEN Append(inbox[l], e) ELSE inbox[l]]
  BY DEF Write
<1>3. ASSUME NEW u, NEW rv \in Nat, SeenPending(store, u, rv)
      PROVE  SeenPending(store', u, rv)
  BY <1>3, WriteSeen
<1>4. IsPendingEvent(e) => SeenPending(store', e.task, e.rv)
  BY <1>1 DEF SeenPending, TypeOK, Object, IsPendingEvent
<1>5. SUFFICES ASSUME NEW l \in Loop, NEW i \in 1..Len(inbox'[l])
               PROVE  SeenPending(store', inbox'[l][i].task, inbox'[l][i].rv)
  BY DEF EventsTrue
<1>6. inbox[l] \in Seq(Event)
  BY DEF TypeOK
<1>7. CASE inbox'[l] = inbox[l]
  <2>1. inbox[l][i] \in Event /\ SeenPending(store, inbox[l][i].task, inbox[l][i].rv)
    BY <1>5, <1>6, <1>7 DEF EventsTrue
  <2> QED
    BY <1>3, <1>7, <2>1 DEF Event
<1>8. CASE inbox'[l] = Append(inbox[l], e) /\ IsPendingEvent(e)
  <2>1. CASE i \in 1..Len(inbox[l])
    <3>1. inbox'[l][i] = inbox[l][i] /\ inbox[l][i] \in Event
      BY <1>6, <1>8, <2>1
    <3>2. SeenPending(store, inbox[l][i].task, inbox[l][i].rv)
      BY <2>1 DEF EventsTrue
    <3> QED
      BY <1>3, <3>1, <3>2 DEF Event
  <2>2. CASE i = Len(inbox[l]) + 1
    <3>1. inbox'[l][i] = e
      BY <1>6, <1>8, <2>2
    <3> QED
      BY <1>4, <1>8, <3>1
  <2> QED
    BY <1>5, <1>6, <1>8, <2>1, <2>2
<1> QED
  BY <1>2, <1>5, <1>7, <1>8

\* A write that does not lead back out of the terminal phases keeps the lists of
\* all Janitors truthful (janitor.go sweep).
LEMMA WriteSnapshots ==
  ASSUME TypeOK, SnapshotsTrue, NEW t \in Task, NEW obj \in Object, Write(t, obj),
         store[t].phase \in Terminal => obj.phase \in Terminal \cup {"Deleted"},
         store[t].phase # "Deleted",
         \A p \in Pod : jan'[p].pc # "idle" => jan[p].pc # "idle" /\ jan'[p].snap = jan[p].snap
  PROVE  SnapshotsTrue'
<1>1. SUFFICES ASSUME NEW p \in Pod, jan'[p].pc # "idle", NEW u \in Task
               PROVE  /\ jan'[p].snap[u].rv <= store'[u].rv
                      /\ jan'[p].snap[u].rv = store'[u].rv => jan'[p].snap[u] = store'[u]
                      /\ jan'[p].snap[u].phase \in Terminal =>
                           store'[u].phase \in Terminal \cup {"Deleted"}
  BY DEF SnapshotsTrue
<1>2. /\ jan'[p].snap = jan[p].snap
      /\ jan[p].snap[u].rv <= store[u].rv
      /\ jan[p].snap[u].rv = store[u].rv => jan[p].snap[u] = store[u]
      /\ jan[p].snap[u].phase \in Terminal => store[u].phase \in Terminal \cup {"Deleted"}
  BY <1>1 DEF SnapshotsTrue
<1>3. jan[p].snap[u].rv \in Nat /\ store[u].rv \in Nat
  BY DEF TypeOK, JState, Object
<1>4. CASE u = t
  <2>1. store'[u].rv = store[u].rv + 1 /\ store'[u].phase = obj.phase
    BY <1>4, WriteFact DEF TypeOK, Object
  <2> QED
    BY <1>2, <1>3, <1>4, <2>1
<1>5. CASE u # t
  <2>1. store'[u] = store[u]
    BY <1>5, WriteFact DEF TypeOK
  <2> QED
    BY <1>2, <1>3, <2>1
<1> QED
  BY <1>4, <1>5

-----------------------------------------------------------------------------
(* Each action preserves the inductive invariant.                          *)

\* The invariant holds at the start: no tasks, events, goroutines or lists.
LEMMA InitIInv == Init => IInv
<1> SUFFICES ASSUME Init PROVE IInv
  OBVIOUS
<1>1. TypeOK
  BY DEF Init, TypeOK, EmptyStore, NoObject, Object, Phase, Time, Unset, Idle, GState, JIdle,
         JState, Loop
<1>2. EventsTrue
  BY DEF Init, EventsTrue
<1>3. ClaimsTrue /\ HoldersTrue /\ ClaimExclusive
  BY DEF Init, ClaimsTrue, HoldersTrue, ClaimExclusive, Holds, Idle
<1>4. SnapshotsTrue /\ PlansTrue
  BY DEF Init, SnapshotsTrue, PlansTrue, JIdle
<1>5. RanTrue /\ StampsTrue /\ OutcomeIsTrue
  BY ConstantsAssumption DEF Init, RanTrue, StampsTrue, OutcomeIsTrue, EmptyStore, NoObject
<1> QED
  BY <1>1, <1>2, <1>3, <1>4, <1>5 DEF IInv

\* Leadership, restarts and new watches change nothing the invariant is about.
LEMMA PodSteps ==
  ASSUME IInv, NEW p \in Pod, NEW l \in Loop, BecomeLeader(p) \/ Restart(p) \/ WatchStart(l)
  PROVE  IInv'
<1>1. UNCHANGED <<store, inbox, gor, jan, now, faults, edits, ran, stamped>>
  BY DEF BecomeLeader, Restart, WatchStart
<1>2. TypeOK'
  BY <1>1 DEF IInv, TypeOK, BecomeLeader, Restart, WatchStart
<1>3. (EventsTrue /\ ClaimsTrue /\ HoldersTrue /\ ClaimExclusive)'
  BY <1>1 DEF IInv, EventsTrue, ClaimsTrue, HoldersTrue, ClaimExclusive, Holds
<1>4. (SnapshotsTrue /\ PlansTrue)'
  BY <1>1 DEF IInv, SnapshotsTrue, PlansTrue
<1>5. (RanTrue /\ StampsTrue /\ OutcomeIsTrue)'
  BY <1>1 DEF IInv, RanTrue, StampsTrue, OutcomeIsTrue
<1> QED
  BY <1>2, <1>3, <1>4, <1>5 DEF IInv

\* A stuck task stays stuck when time passes.
LEMMA TickStep ==
  ASSUME IInv, Tick
  PROVE  IInv'
<1>1. UNCHANGED <<store, leader, up, watching, inbox, gor, jan, faults, edits, ran, stamped>>
      /\ now' = now + 1 /\ now \in Nat
  BY DEF Tick, IInv, TypeOK
<1>2. TypeOK'
  BY <1>1 DEF IInv, TypeOK
<1>3. (EventsTrue /\ ClaimsTrue /\ HoldersTrue /\ ClaimExclusive)'
  BY <1>1 DEF IInv, EventsTrue, ClaimsTrue, HoldersTrue, ClaimExclusive, Holds
<1>4. SnapshotsTrue'
  BY <1>1 DEF IInv, SnapshotsTrue
<1>5. PlansTrue'
  <2>1. ASSUME NEW p \in Pod, NEW t \in jan[p].todo, IsStuck(jan[p].snap[t], now)
        PROVE  IsStuck(jan[p].snap[t], now')
    <3>1. jan[p].snap[t].claimedAt \in Int
      BY DEF IInv, TypeOK, JState, Object, Time, Unset
    <3> QED
      BY <1>1, <2>1, <3>1, ConstantsAssumption DEF IsStuck
  <2> QED
    BY <1>1, <2>1 DEF IInv, PlansTrue
<1>6. (RanTrue /\ StampsTrue /\ OutcomeIsTrue)'
  BY <1>1 DEF IInv, RanTrue, StampsTrue, OutcomeIsTrue
<1> QED
  BY <1>2, <1>3, <1>4, <1>5, <1>6 DEF IInv

\* A broken watch only loses events.
LEMMA WatchBrokenStep ==
  ASSUME IInv, NEW l \in Loop, WatchBroken(l)
  PROVE  IInv'
<1>1. UNCHANGED <<store, leader, up, gor, jan, now, edits, ran, stamped>>
      /\ inbox' = [inbox EXCEPT ![l] = <<>>]
      /\ watching' = watching \ {l} /\ faults' = faults + 1
  BY DEF WatchBroken, Fault
<1>2. TypeOK'
  BY <1>1 DEF IInv, TypeOK
<1>3. EventsTrue'
  BY <1>1 DEF IInv, TypeOK, EventsTrue
<1>4. (ClaimsTrue /\ HoldersTrue /\ ClaimExclusive)'
  BY <1>1 DEF IInv, ClaimsTrue, HoldersTrue, ClaimExclusive, Holds
<1>5. (SnapshotsTrue /\ PlansTrue)'
  BY <1>1 DEF IInv, SnapshotsTrue, PlansTrue
<1>6. (RanTrue /\ StampsTrue /\ OutcomeIsTrue)'
  BY <1>1 DEF IInv, RanTrue, StampsTrue, OutcomeIsTrue
<1> QED
  BY <1>2, <1>3, <1>4, <1>5, <1>6 DEF IInv

\* watchLoop hands what the event says to a new goroutine.
LEMMA ReceiveStep ==
  ASSUME IInv, NEW l \in Loop, Receive(l)
  PROVE  IInv'
<1> DEFINE e == Head(inbox[l])
           new == [Idle EXCEPT !.pc = "claim", !.pod = l[1], !.task = e.task, !.rv = e.rv, !.at = now]
<1>1. /\ UNCHANGED <<store, leader, up, watching, jan, now, faults, edits, ran, stamped>>
      /\ inbox[l] # <<>>
      /\ inbox' = [inbox EXCEPT ![l] = Tail(inbox[l])]
  BY DEF Receive
<1>2. PICK g \in Goroutine : gor[g].pc = "idle" /\ gor' = [gor EXCEPT ![g] = new]
  BY DEF Receive
<1>3. inbox[l] \in Seq(Event) /\ gor \in [Goroutine -> GState] /\ now \in Nat
  BY DEF IInv, TypeOK
<1>4. e = inbox[l][1] /\ 1 \in 1..Len(inbox[l]) /\ e \in Event
  BY <1>1, <1>3
<1>5. SeenPending(store, e.task, e.rv)
  BY <1>4 DEF IInv, EventsTrue
<1>tl. /\ Len(Tail(inbox[l])) = Len(inbox[l]) - 1 /\ Len(inbox[l]) \in Nat
       /\ \A i \in 1..Len(Tail(inbox[l])) : Tail(inbox[l])[i] = inbox[l][i + 1]
  BY <1>1, <1>3, HeadTailProperties
<1>6. new \in GState /\ new.pc = "claim" /\ new.task = e.task /\ new.rv = e.rv
      /\ new.pod \in Pod /\ new.at \in Nat /\ new.done = 0 /\ new.ok
  BY <1>3, <1>4 DEF GState, Idle, Event, Time, Loop
<1>7. TypeOK'
  <2>1. gor' \in [Goroutine -> GState]
    BY <1>2, <1>3, <1>6
  <2>2. inbox' \in [Loop -> Seq(Event)]
    BY <1>1, <1>3 DEF IInv, TypeOK
  <2> QED
    BY <1>1, <2>1, <2>2 DEF IInv, TypeOK
<1>8. EventsTrue'
  <2>1. SUFFICES ASSUME NEW m \in Loop, NEW i \in 1..Len(inbox'[m])
                 PROVE  SeenPending(store, inbox'[m][i].task, inbox'[m][i].rv)
    BY <1>1 DEF EventsTrue
  <2>2. CASE m = l
    <3>1. inbox'[m] = Tail(inbox[l])
      BY <1>1, <2>2 DEF IInv, TypeOK
    <3>2. Len(inbox'[m]) = Len(inbox[l]) - 1 /\ Len(inbox[l]) \in Nat
      BY <1>tl, <3>1
    <3>3. i \in 1..(Len(inbox[l]) - 1)
      BY <2>1, <3>2
    <3>4. i + 1 \in 1..Len(inbox[l])
      BY <3>2, <3>3
    <3>5. inbox'[m][i] = inbox[l][i + 1]
      BY <1>tl, <3>1, <3>2, <3>3
    <3> QED
      BY <3>4, <3>5 DEF IInv, EventsTrue
  <2>3. CASE m # l
    <3>1. inbox'[m] = inbox[m]
      BY <1>1, <2>3 DEF IInv, TypeOK
    <3> QED
      BY <2>1, <3>1 DEF IInv, EventsTrue
  <2> QED
    BY <2>2, <2>3
<1>9. ClaimsTrue'
  BY <1>1, <1>2, <1>3, <1>5, <1>6 DEF IInv, ClaimsTrue
<1>10. HoldersTrue'
  BY <1>1, <1>2, <1>3, <1>6 DEF IInv, HoldersTrue
<1>11. ClaimExclusive'
  BY <1>2, <1>3, <1>6 DEF IInv, ClaimExclusive, Holds
<1>12. (SnapshotsTrue /\ PlansTrue)'
  BY <1>1 DEF IInv, SnapshotsTrue, PlansTrue
<1>13. (RanTrue /\ StampsTrue /\ OutcomeIsTrue)'
  BY <1>1 DEF IInv, RanTrue, StampsTrue, OutcomeIsTrue
<1> QED
  BY <1>7, <1>8, <1>9, <1>10, <1>11, <1>12, <1>13 DEF IInv

\* An action runs for the holder of the task and for nobody else.
LEMMA ExecuteStep ==
  ASSUME IInv, NEW g \in Goroutine, Execute(g)
  PROVE  IInv'
<1> DEFINE t == gor[g].task
<1>1. /\ UNCHANGED <<store, leader, up, watching, inbox, jan, now, faults, edits, stamped>>
      /\ gor[g].pc = "exec"
      /\ ran' = [ran EXCEPT ![t] = ran[t] + 1]
  BY DEF Execute
<1>2. /\ gor \in [Goroutine -> GState] /\ ran \in [Task -> Nat]
      /\ t \in Task /\ gor[g].done < ActionCount /\ ran[t] = gor[g].done /\ gor[g].done \in Nat
      /\ store[t].phase \in {"Running", "Expired", "Deleted"}
  BY <1>1 DEF IInv, TypeOK, HoldersTrue, GState
<1>3. PICK new \in GState :
        /\ gor' = [gor EXCEPT ![g] = new]
        /\ new.task = t /\ new.pc \in {"exec", "get"}
        /\ new.pc = "exec" => new.ok /\ new.done < ActionCount /\ new.done = gor[g].done + 1
        /\ new.pc # "exec" /\ new.ok => new.done = ActionCount /\ new.done = gor[g].done + 1
        /\ new.pc # "exec" /\ ~new.ok => new.done = gor[g].done
  <2>1. CASE gor' = [gor EXCEPT ![g].done = gor[g].done + 1,
                                ![g].pc = IF gor[g].done + 1 = ActionCount THEN "get" ELSE "exec"]
    <3> DEFINE pc == IF gor[g].done + 1 = ActionCount THEN "get" ELSE "exec"
               w == [gor[g] EXCEPT !.done = gor[g].done + 1, !.pc = pc]
    <3>0. pc \in {"get", "exec"} /\ gor[g] \in GState
      BY <1>2
    <3>1. gor[g].done + 1 \in Nat
      BY <1>2
    <3> HIDE DEF pc
    <3>2. w \in GState /\ w.task = t /\ w.done = gor[g].done + 1 /\ w.ok = gor[g].ok /\ w.pc = pc
      BY <3>0, <3>1 DEF GState
    <3>5. gor' = [gor EXCEPT ![g] = w]
      BY <1>2, <2>1 DEF pc
    <3>3. gor[g].done + 1 <= ActionCount
      BY <1>2, ConstantsAssumption
    <3>4. gor[g].ok
      BY <1>1 DEF IInv, HoldersTrue
    <3> QED
      <4> HIDE DEF w
      <4>1. pc = "exec" => gor[g].done + 1 < ActionCount
        BY <1>2, <3>3, ConstantsAssumption DEF pc
      <4>2. pc = "get" => gor[g].done + 1 = ActionCount
        BY DEF pc
      <4> QED
        BY <3>0, <3>2, <3>4, <3>5, <4>1, <4>2
  <2>2. CASE gor' = [gor EXCEPT ![g].ok = FALSE, ![g].pc = "get"]
    <3> DEFINE w == [gor[g] EXCEPT !.ok = FALSE, !.pc = "get"]
    <3>1. w \in GState /\ gor' = [gor EXCEPT ![g] = w]
      BY <1>2, <2>2 DEF GState
    <3>2. w.task = t /\ w.done = gor[g].done /\ w.ok = FALSE /\ w.pc = "get"
      BY <1>2 DEF GState
    <3> QED
      BY <3>1, <3>2
  <2> QED
    BY <2>1, <2>2 DEF Execute
<1>4. TypeOK'
  BY <1>1, <1>2, <1>3 DEF IInv, TypeOK
<1>5. EventsTrue'
  BY <1>1 DEF IInv, EventsTrue
<1>6. ClaimsTrue'
  BY <1>1, <1>2, <1>3 DEF IInv, ClaimsTrue
<1>7. HoldersTrue'
  <2>1. SUFFICES ASSUME NEW h \in Goroutine, gor'[h].pc \in {"exec", "get", "put"}
                 PROVE  /\ gor'[h].task \in Task
                        /\ store[gor'[h].task].phase \in {"Running", "Expired", "Deleted"}
                        /\ gor'[h].pc = "exec" => /\ gor'[h].ok /\ gor'[h].done < ActionCount
                                                  /\ ran'[gor'[h].task] = gor'[h].done
                        /\ gor'[h].pc # "exec" /\ gor'[h].ok =>
                             gor'[h].done = ActionCount /\ ran'[gor'[h].task] = ActionCount
                        /\ gor'[h].pc # "exec" /\ ~gor'[h].ok =>
                             ran'[gor'[h].task] = gor'[h].done + 1
                        /\ gor'[h].pc = "put" => gor'[h].at \in Nat
    BY <1>1 DEF HoldersTrue
  <2>2. CASE h = g
    <3>1. gor'[h] = new /\ ran'[t] = gor[g].done + 1
      BY <1>1, <1>2, <1>3, <2>2
    <3> QED
      BY <1>2, <1>3, <3>1
  <2>3. CASE h # g
    <3>1. gor'[h] = gor[h]
      BY <1>2, <1>3, <2>3
    <3>2. gor[h].task \in Task /\ gor[h].task # t
      BY <1>1, <2>1, <2>3, <3>1 DEF IInv, ClaimExclusive, Holds, HoldersTrue
    <3>3. ran'[gor[h].task] = ran[gor[h].task]
      BY <1>1, <1>2, <3>2
    <3> QED
      BY <2>1, <3>1, <3>3 DEF IInv, HoldersTrue
  <2> QED
    BY <2>2, <2>3
<1>8. ClaimExclusive'
  BY <1>1, <1>2, <1>3 DEF IInv, ClaimExclusive, Holds
<1>9. (SnapshotsTrue /\ PlansTrue)'
  BY <1>1 DEF IInv, SnapshotsTrue, PlansTrue
<1>10. (RanTrue /\ StampsTrue /\ OutcomeIsTrue)'
  BY <1>1, <1>2, ConstantsAssumption DEF IInv, RanTrue, StampsTrue, OutcomeIsTrue
<1> QED
  BY <1>4, <1>5, <1>6, <1>7, <1>8, <1>9, <1>10 DEF IInv

\* Goroutines that end take nothing from the others.
LEMMA GoroutinesEnd ==
  ASSUME IInv, UNCHANGED <<store, ran>>, gor' \in [Goroutine -> GState],
         \A h \in Goroutine : gor'[h] = gor[h] \/ gor'[h] = Idle
  PROVE  (ClaimsTrue /\ HoldersTrue /\ ClaimExclusive)'
<1>1. Idle.pc = "idle"
  BY DEF Idle
<1>2. ClaimsTrue'
  BY <1>1 DEF IInv, ClaimsTrue
<1>3. HoldersTrue'
  BY <1>1 DEF IInv, HoldersTrue
<1>4. ClaimExclusive'
  BY <1>1 DEF IInv, ClaimExclusive, Holds
<1> QED
  BY <1>2, <1>3, <1>4

\* A write by anyone, with goroutines perhaps ending: claims on the task become
\* outdated, and its holder, if there still is one, is not overtaken by an
\* outcome or a new claim.
LEMMA GoroutinesWrite ==
  ASSUME IInv, NEW t \in Task, NEW obj \in Object, Write(t, obj),
         UNCHANGED ran, gor' \in [Goroutine -> GState],
         \A h \in Goroutine : gor'[h] = gor[h] \/ gor'[h] = Idle,
         \A h \in Goroutine : gor'[h].pc \in {"exec", "get", "put"} /\ gor'[h].task = t
                               => obj.phase \in {"Running", "Expired", "Deleted"}
  PROVE  (ClaimsTrue /\ HoldersTrue /\ ClaimExclusive)'
<1>1. Idle.pc = "idle"
  BY DEF Idle
<1>2. TypeOK
  BY DEF IInv
<1>3. ClaimsTrue'
  <2>1. SUFFICES ASSUME NEW h \in Goroutine, gor'[h].pc = "claim"
                 PROVE  /\ SeenPending(store', gor'[h].task, gor'[h].rv)
                        /\ gor'[h].pod \in Pod /\ gor'[h].at \in Nat
                        /\ gor'[h].done = 0 /\ gor'[h].ok
    BY DEF ClaimsTrue
  <2>2. gor'[h] = gor[h]
    BY <1>1, <2>1
  <2>3. gor[h].rv \in Nat
    BY DEF IInv, TypeOK, GState
  <2>4. SeenPending(store, gor[h].task, gor[h].rv)
    BY <2>1, <2>2 DEF IInv, ClaimsTrue
  <2>5. SeenPending(store', gor[h].task, gor[h].rv)
    BY <1>2, <2>3, <2>4, WriteSeen
  <2> QED
    BY <2>1, <2>2, <2>5 DEF IInv, ClaimsTrue
<1>4. HoldersTrue'
  <2>1. SUFFICES ASSUME NEW h \in Goroutine, gor'[h].pc \in {"exec", "get", "put"}
                 PROVE  gor'[h] = gor[h] /\ store'[gor[h].task].phase \in {"Running", "Expired", "Deleted"}
    BY DEF IInv, HoldersTrue
  <2>2. gor'[h] = gor[h]
    BY <1>1, <2>1
  <2>3. gor[h].task \in Task /\ store[gor[h].task].phase \in {"Running", "Expired", "Deleted"}
    BY <2>1, <2>2 DEF IInv, HoldersTrue
  <2>4. store' = [store EXCEPT ![t] = [obj EXCEPT !.rv = store[t].rv + 1]]
    BY <1>2, WriteFact
  <2>5. store'[t].phase = obj.phase
    BY <1>2, <2>4 DEF TypeOK, Object
  <2>6. gor[h].task # t => store'[gor[h].task] = store[gor[h].task]
    BY <1>2, <2>3, <2>4 DEF TypeOK
  <2> QED
    BY <2>1, <2>2, <2>3, <2>5, <2>6
<1>5. ClaimExclusive'
  BY <1>1 DEF IInv, ClaimExclusive, Holds
<1> QED
  BY <1>3, <1>4, <1>5

\* The worker reads its task again before it reports.
LEMMA RereadStep ==
  ASSUME IInv, NEW g \in Goroutine, Reread(g)
  PROVE  IInv'
<1>1. UNCHANGED <<store, leader, up, watching, inbox, jan, now, faults, edits, ran, stamped>>
      /\ gor[g].pc = "get"
  BY DEF Reread
<1>2. gor \in [Goroutine -> GState] /\ now \in Nat /\ store \in [Task -> Object]
      /\ gor[g].task \in Task
  BY <1>1 DEF IInv, TypeOK, HoldersTrue
<1>3. gor' \in [Goroutine -> GState] /\ (ClaimsTrue /\ HoldersTrue /\ ClaimExclusive)'
  <2>1. CASE gor' = [gor EXCEPT ![g] = Idle]
    <3>1. gor' \in [Goroutine -> GState]
      BY <1>2, <2>1 DEF Idle, GState, Time
    <3> QED
      BY <1>1, <1>2, <2>1, <3>1, GoroutinesEnd
  <2>2. CASE gor' = [gor EXCEPT ![g].pc = "put", ![g].rv = store[gor[g].task].rv, ![g].at = now]
    <3> DEFINE w == [gor[g] EXCEPT !.pc = "put", !.rv = store[gor[g].task].rv, !.at = now]
    <3>1. gor[g] \in GState /\ store[gor[g].task].rv \in Nat /\ now \in Time
      BY <1>2 DEF Object, Time
    <3>2. w \in GState /\ w.pc = "put" /\ w.task = gor[g].task /\ w.done = gor[g].done
          /\ w.ok = gor[g].ok /\ w.at = now
      BY <3>1 DEF GState
    <3>3. gor' = [gor EXCEPT ![g] = w]
      BY <1>2, <2>2
    <3> HIDE DEF w
    <3>4. gor' \in [Goroutine -> GState]
      BY <1>2, <3>2, <3>3
    <3>5. ClaimsTrue'
      BY <1>1, <1>2, <3>2, <3>3 DEF IInv, ClaimsTrue
    <3>6. HoldersTrue'
      BY <1>1, <1>2, <3>2, <3>3 DEF IInv, HoldersTrue
    <3>7. ClaimExclusive'
      BY <1>1, <1>2, <3>2, <3>3 DEF IInv, ClaimExclusive, Holds
    <3> QED
      BY <3>4, <3>5, <3>6, <3>7
  <2> QED
    BY <2>1, <2>2 DEF Reread
<1>4. TypeOK'
  BY <1>1, <1>3 DEF IInv, TypeOK
<1>5. (EventsTrue /\ SnapshotsTrue /\ PlansTrue)'
  BY <1>1 DEF IInv, EventsTrue, SnapshotsTrue, PlansTrue
<1>6. (RanTrue /\ StampsTrue /\ OutcomeIsTrue)'
  BY <1>1 DEF IInv, RanTrue, StampsTrue, OutcomeIsTrue
<1> QED
  BY <1>3, <1>4, <1>5, <1>6 DEF IInv

\* A goroutine that ends without having written anything.
LEMMA QuietEnd ==
  ASSUME IInv, NEW g \in Goroutine, gor' = [gor EXCEPT ![g] = Idle],
         UNCHANGED <<store, leader, up, watching, inbox, jan, now, edits, ran, stamped>>,
         faults' \in Nat
  PROVE  IInv'
<1>1. gor' \in [Goroutine -> GState] /\ \A h \in Goroutine : gor'[h] = gor[h] \/ gor'[h] = Idle
  BY DEF IInv, TypeOK, Idle, GState, Time
<1>2. TypeOK'
  BY <1>1 DEF IInv, TypeOK
<1>3. (ClaimsTrue /\ HoldersTrue /\ ClaimExclusive)'
  BY <1>1, GoroutinesEnd
<1>4. (EventsTrue /\ SnapshotsTrue /\ PlansTrue)'
  BY DEF IInv, EventsTrue, SnapshotsTrue, PlansTrue
<1>5. (RanTrue /\ StampsTrue /\ OutcomeIsTrue)'
  BY DEF IInv, RanTrue, StampsTrue, OutcomeIsTrue
<1> QED
  BY <1>2, <1>3, <1>4, <1>5 DEF IInv

\* updateTaskStatus gives up: the task stays as it is.
LEMMA ReportFailsStep ==
  ASSUME IInv, NEW g \in Goroutine, ReportFails(g)
  PROVE  IInv'
<1>1. /\ gor' = [gor EXCEPT ![g] = Idle]
      /\ UNCHANGED <<store, leader, up, watching, inbox, jan, now, edits, ran, stamped>>
      /\ faults' \in Nat
  BY DEF ReportFails, Fault, IInv, TypeOK
<1> QED
  BY <1>1, QuietEnd

\* What every write to a stored or new object preserves, whoever writes: t is
\* not deleted, does not leave the terminal phases, a Pending task has run
\* nothing, a Running one has the claim's stamp, an outcome is true.
LEMMA WriteStep ==
  ASSUME IInv, NEW t \in Task, NEW obj \in Object, Write(t, obj),
         UNCHANGED <<leader, up, watching, now, ran>>,
         gor' \in [Goroutine -> GState], jan' \in [Pod -> JState],
         faults' \in Nat, edits' \in Nat, stamped' \in [Task -> Time],
         (ClaimsTrue /\ HoldersTrue /\ ClaimExclusive)', PlansTrue',
         \A p \in Pod : jan'[p].pc # "idle" => jan[p].pc # "idle" /\ jan'[p].snap = jan[p].snap,
         store[t].phase # "Deleted",
         store[t].phase \in Terminal => obj.phase \in Terminal \cup {"Deleted"},
         obj.phase \in {"Absent", "Pending"} => ran[t] = 0,
         obj.phase = "Running" => stamped'[t] \in Nat /\ obj.claimedAt = RFC3339(stamped'[t]),
         \A u \in Task : u # t => stamped'[u] = stamped[u],
         obj.phase = "Completed" => ran[t] = ActionCount /\ obj.done = ActionCount,
         obj.phase = "Failed" => ran[t] = obj.done + 1
  PROVE  IInv'
<1>1. TypeOK /\ SnapshotsTrue /\ EventsTrue
  BY DEF IInv
<1>2. /\ store' = [store EXCEPT ![t] = [obj EXCEPT !.rv = store[t].rv + 1]]
      /\ store' \in [Task -> Object] /\ inbox' \in [Loop -> Seq(Event)]
  BY <1>1, WriteFact
<1>3. /\ store'[t].phase = obj.phase /\ store'[t].done = obj.done
      /\ store'[t].claimedAt = obj.claimedAt
      /\ \A u \in Task : u # t => store'[u] = store[u]
  BY <1>1, <1>2 DEF TypeOK, Object
<1>4. TypeOK'
  BY <1>1, <1>2 DEF TypeOK
<1>5. EventsTrue'
  BY <1>1, WriteEvents
<1>6. SnapshotsTrue'
  BY <1>1, WriteSnapshots
<1>7. RanTrue'
  BY <1>3 DEF IInv, RanTrue
<1>8. StampsTrue'
  BY <1>3 DEF IInv, StampsTrue
<1>9. OutcomeIsTrue'
  BY <1>3 DEF IInv, OutcomeIsTrue
<1> QED
  BY <1>4, <1>5, <1>6, <1>7, <1>8, <1>9 DEF IInv

\* Publish creates the object of a task nobody can have seen yet.
LEMMA PublishStep ==
  ASSUME IInv, NEW t \in Task, Publish(t)
  PROVE  IInv'
<1> DEFINE obj == [NoObject EXCEPT !.phase = "Pending", !.createdAt = RFC3339(now)]
<1>1. /\ store[t].phase = "Absent" /\ Write(t, obj)
      /\ UNCHANGED <<leader, up, watching, gor, jan, now, faults, edits, ran, stamped>>
  BY DEF Publish
<1>2. TypeOK /\ now \in Nat
  BY DEF IInv, TypeOK
<1>3. RFC3339(now) \in Nat
  BY <1>2, RFC3339Fact
<1>4. obj \in Object /\ obj.phase = "Pending"
  BY <1>3 DEF NoObject, Object, Phase, Time, Unset
<1>5. ran[t] = 0
  BY <1>1 DEF IInv, RanTrue
<1>6. PlansTrue'
  BY <1>1 DEF IInv, PlansTrue
<1>7. \A h \in Goroutine : ~(gor[h].pc \in {"exec", "get", "put"} /\ gor[h].task = t)
  BY <1>1 DEF IInv, HoldersTrue
<1>8. /\ gor' \in [Goroutine -> GState] /\ jan' \in [Pod -> JState]
      /\ faults' \in Nat /\ edits' \in Nat /\ stamped' \in [Task -> Time]
  BY <1>1 DEF IInv, TypeOK
<1> HIDE DEF obj
<1>9. (ClaimsTrue /\ HoldersTrue /\ ClaimExclusive)'
  BY <1>1, <1>4, <1>7, <1>8, GoroutinesWrite
<1> QED
  BY <1>1, <1>4, <1>5, <1>6, <1>8, <1>9, WriteStep DEF Terminal

\* An edit of metadata changes nothing but the resourceVersion.
LEMMA EditStep ==
  ASSUME IInv, NEW t \in Task, Edit(t)
  PROVE  IInv'
<1>1. /\ store[t].phase \notin {"Absent", "Deleted"} /\ Write(t, store[t])
      /\ UNCHANGED <<leader, up, watching, gor, jan, now, faults, ran, stamped>>
      /\ edits' = edits + 1
  BY DEF Edit, Exists
<1>2. store[t] \in Object
  BY DEF IInv, TypeOK
<1>3. PlansTrue'
  BY <1>1 DEF IInv, PlansTrue
<1>4. /\ gor' \in [Goroutine -> GState] /\ jan' \in [Pod -> JState]
      /\ faults' \in Nat /\ edits' \in Nat /\ stamped' \in [Task -> Time]
  BY <1>1 DEF IInv, TypeOK
<1>5. \A h \in Goroutine : gor[h].pc \in {"exec", "get", "put"} /\ gor[h].task = t
                             => store[t].phase \in {"Running", "Expired", "Deleted"}
  BY DEF IInv, HoldersTrue
<1>6. (ClaimsTrue /\ HoldersTrue /\ ClaimExclusive)'
  BY <1>1, <1>2, <1>4, <1>5, GoroutinesWrite
<1>7. /\ store[t].phase = "Pending" => ran[t] = 0
      /\ store[t].phase = "Running" => stamped[t] \in Nat /\ store[t].claimedAt = RFC3339(stamped[t])
      /\ store[t].phase = "Completed" => ran[t] = ActionCount /\ store[t].done = ActionCount
      /\ store[t].phase = "Failed" => ran[t] = store[t].done + 1
  BY DEF IInv, RanTrue, StampsTrue, OutcomeIsTrue
<1> QED
  BY <1>1, <1>2, <1>3, <1>4, <1>6, <1>7, WriteStep

\* The heart of the matter: an accepted claim finds the task Pending, so nobody
\* holds it and nothing of it has run (worker.go:193).
LEMMA AcceptedClaim ==
  ASSUME IInv, NEW g \in Goroutine, gor[g].pc = "claim", WriteClaim(g)
  PROVE  LET t == gor[g].task IN
         /\ t \in Task /\ store[t].phase = "Pending" /\ ran[t] = 0
         /\ Claimed(g) \in Object /\ Write(t, Claimed(g))
         /\ Claimed(g).phase = "Running" /\ Claimed(g).claimedAt = RFC3339(gor[g].at)
         /\ stamped' = [stamped EXCEPT ![t] = gor[g].at] /\ gor[g].at \in Nat
         /\ \A h \in Goroutine : ~(gor[h].pc \in {"exec", "get", "put"} /\ gor[h].task = t)
<1> DEFINE t == gor[g].task
<1>1. /\ SeenPending(store, t, gor[g].rv) /\ gor[g].pod \in Pod /\ gor[g].at \in Nat
  BY DEF IInv, ClaimsTrue
<1>2. store[t].rv = gor[g].rv /\ Write(t, Claimed(g)) /\ stamped' = [stamped EXCEPT ![t] = gor[g].at]
  BY DEF WriteClaim, ClaimAccepted, UpdateAccepted
<1>3. t \in Task /\ store[t].phase = "Pending"
  BY <1>1, <1>2 DEF SeenPending
<1>4. ran[t] = 0
  BY <1>3 DEF IInv, RanTrue
<1>5. RFC3339(gor[g].at) \in Nat
  BY <1>1, RFC3339Fact
<1>6. store[t] \in Object
  BY <1>3 DEF IInv, TypeOK
<1>7. /\ Claimed(g) \in Object /\ Claimed(g).phase = "Running"
      /\ Claimed(g).claimedAt = RFC3339(gor[g].at)
  BY <1>1, <1>5, <1>6 DEF Claimed, Object, Phase, Time
<1>8. \A h \in Goroutine : ~(gor[h].pc \in {"exec", "get", "put"} /\ gor[h].task = t)
  BY <1>3 DEF IInv, HoldersTrue
<1> QED
  BY <1>1, <1>2, <1>3, <1>4, <1>7, <1>8

\* A claim whose answer is lost leaves a Running task that nobody works on.
LEMMA ClaimFailsStep ==
  ASSUME IInv, NEW g \in Goroutine, ClaimFails(g)
  PROVE  IInv'
<1> DEFINE t == gor[g].task
<1>1. /\ gor[g].pc = "claim" /\ gor' = [gor EXCEPT ![g] = Idle] /\ faults' \in Nat
      /\ UNCHANGED <<leader, up, watching, jan, now, edits, ran>>
  BY DEF ClaimFails, Fault, IInv, TypeOK
<1>2. CASE UNCHANGED <<store, inbox, stamped>>
  BY <1>1, <1>2, QuietEnd
<1>3. CASE WriteClaim(g)
  <2>1. /\ t \in Task /\ store[t].phase = "Pending" /\ ran[t] = 0
        /\ Claimed(g) \in Object /\ Write(t, Claimed(g))
        /\ Claimed(g).phase = "Running" /\ Claimed(g).claimedAt = RFC3339(gor[g].at)
        /\ stamped' = [stamped EXCEPT ![t] = gor[g].at] /\ gor[g].at \in Nat
    BY <1>1, <1>3, AcceptedClaim
  <2>2. /\ gor' \in [Goroutine -> GState] /\ jan' \in [Pod -> JState] /\ edits' \in Nat
        /\ \A h \in Goroutine : gor'[h] = gor[h] \/ gor'[h] = Idle
    BY <1>1 DEF IInv, TypeOK, Idle, GState, Time
  <2>3. stamped' \in [Task -> Time] /\ stamped'[t] = gor[g].at
        /\ \A u \in Task : u # t => stamped'[u] = stamped[u]
    BY <2>1 DEF IInv, TypeOK, Time
  <2>4. (ClaimsTrue /\ HoldersTrue /\ ClaimExclusive)'
    BY <1>1, <2>1, <2>2, GoroutinesWrite
  <2>5. PlansTrue'
    BY <1>1 DEF IInv, PlansTrue
  <2> QED
    BY <1>1, <2>1, <2>2, <2>3, <2>4, <2>5, WriteStep DEF Terminal
<1> QED
  BY <1>2, <1>3 DEF ClaimFails

\* The claim of a Pending task makes its goroutine the only holder.
LEMMA ClaimStep ==
  ASSUME IInv, NEW g \in Goroutine, Claim(g)
  PROVE  IInv'
<1> DEFINE t == gor[g].task
<1>1. gor[g].pc = "claim" /\ UNCHANGED <<leader, up, watching, jan, now, faults, edits, ran>>
  BY DEF Claim
<1>2. CASE gor' = [gor EXCEPT ![g] = Idle] /\ UNCHANGED <<store, inbox, stamped>>
  <2>1. faults' \in Nat
    BY <1>1 DEF IInv, TypeOK
  <2> QED
    BY <1>1, <1>2, <2>1, QuietEnd
<1>3. CASE /\ WriteClaim(g)
           /\ gor' = [gor EXCEPT ![g].pc = IF ActionCount = 0 THEN "get" ELSE "exec"]
  <2> DEFINE pc == IF ActionCount = 0 THEN "get" ELSE "exec"
             w == [gor[g] EXCEPT !.pc = pc]
  <2>1. /\ t \in Task /\ store[t].phase = "Pending" /\ ran[t] = 0
        /\ Claimed(g) \in Object /\ Write(t, Claimed(g))
        /\ Claimed(g).phase = "Running" /\ Claimed(g).claimedAt = RFC3339(gor[g].at)
        /\ stamped' = [stamped EXCEPT ![t] = gor[g].at] /\ gor[g].at \in Nat
        /\ \A h \in Goroutine : ~(gor[h].pc \in {"exec", "get", "put"} /\ gor[h].task = t)
    BY <1>1, <1>3, AcceptedClaim
  <2>2. TypeOK /\ gor \in [Goroutine -> GState]
    BY DEF IInv, TypeOK
  <2>3. pc \in {"get", "exec"} /\ (pc = "get" => ActionCount = 0) /\ (pc = "exec" => ActionCount > 0)
    BY ConstantsAssumption
  <2>4. gor' = [gor EXCEPT ![g] = w]
    BY <1>3, <2>2
  <2> HIDE DEF pc
  <2>5. w \in GState /\ w.pc = pc /\ w.task = t /\ w.done = gor[g].done /\ w.ok = gor[g].ok
    BY <2>2, <2>3 DEF GState
  <2>6. gor[g].done = 0 /\ gor[g].ok
    BY <1>1 DEF IInv, ClaimsTrue
  <2> HIDE DEF w
  <2>7. gor' \in [Goroutine -> GState] /\ gor'[g] = w
        /\ \A h \in Goroutine : h # g => gor'[h] = gor[h]
    BY <2>2, <2>4, <2>5
  <2>8. store' = [store EXCEPT ![t] = [Claimed(g) EXCEPT !.rv = store[t].rv + 1]]
    BY <2>1, <2>2, WriteFact
  <2>9. store'[t].phase = "Running" /\ \A u \in Task : u # t => store'[u] = store[u]
    BY <2>1, <2>2, <2>8 DEF TypeOK, Object
  <2>10. ClaimsTrue'
    <3>1. SUFFICES ASSUME NEW h \in Goroutine, gor'[h].pc = "claim"
                   PROVE  gor'[h] = gor[h] /\ SeenPending(store', gor[h].task, gor[h].rv)
      BY DEF IInv, ClaimsTrue
    <3>2. h # g /\ gor'[h] = gor[h]
      BY <2>3, <2>5, <2>7, <3>1
    <3>3. SeenPending(store, gor[h].task, gor[h].rv) /\ gor[h].rv \in Nat
      BY <3>1, <3>2 DEF IInv, ClaimsTrue, TypeOK, GState
    <3> QED
      BY <2>1, <2>2, <3>2, <3>3, WriteSeen
  <2>11. HoldersTrue'
    <3>1. SUFFICES ASSUME NEW h \in Goroutine, gor'[h].pc \in {"exec", "get", "put"}
                   PROVE  /\ gor'[h].task \in Task
                          /\ store'[gor'[h].task].phase \in {"Running", "Expired", "Deleted"}
                          /\ gor'[h].pc = "exec" => /\ gor'[h].ok /\ gor'[h].done < ActionCount
                                                    /\ ran[gor'[h].task] = gor'[h].done
                          /\ gor'[h].pc # "exec" /\ gor'[h].ok =>
                               gor'[h].done = ActionCount /\ ran[gor'[h].task] = ActionCount
                          /\ gor'[h].pc # "exec" /\ ~gor'[h].ok =>
                               ran[gor'[h].task] = gor'[h].done + 1
                          /\ gor'[h].pc = "put" => gor'[h].at \in Nat
      BY <1>1 DEF HoldersTrue
    <3>2. CASE h = g
      BY <2>1, <2>3, <2>5, <2>6, <2>7, <2>9, <3>2
    <3>3. CASE h # g
      <4>1. gor'[h] = gor[h] /\ gor[h].task \in Task /\ gor[h].task # t
        BY <2>1, <2>7, <3>1, <3>3 DEF IInv, HoldersTrue
      <4> QED
        BY <2>9, <3>1, <4>1 DEF IInv, HoldersTrue
    <3> QED
      BY <3>2, <3>3
  <2>12. ClaimExclusive'
    BY <2>1, <2>5, <2>7 DEF IInv, ClaimExclusive, Holds
  <2>13. PlansTrue'
    BY <1>1 DEF IInv, PlansTrue
  <2>14. stamped' \in [Task -> Time] /\ stamped'[t] = gor[g].at
         /\ \A u \in Task : u # t => stamped'[u] = stamped[u]
    BY <2>1 DEF IInv, TypeOK, Time
  <2>15. jan' \in [Pod -> JState] /\ edits' \in Nat /\ faults' \in Nat
    BY <1>1 DEF IInv, TypeOK
  <2> QED
    BY <1>1, <2>1, <2>7, <2>10, <2>11, <2>12, <2>13, <2>14, <2>15, WriteStep DEF Terminal
<1> QED
  BY <1>2, <1>3 DEF Claim

\* The object updateTaskStatus writes.
LEMMA OutcomeFact ==
  ASSUME IInv, NEW g \in Goroutine, gor[g].task \in Task, gor[g].at \in Nat
  PROVE  /\ Outcome(g) \in Object /\ Outcome(g).done = gor[g].done
         /\ Outcome(g).claimedBy = store[gor[g].task].claimedBy
         /\ Outcome(g).phase \in {"Completed", "Failed"}
         /\ Outcome(g).phase = "Completed" <=> gor[g].ok
<1> DEFINE ph == IF gor[g].ok THEN "Completed" ELSE "Failed"
<1>1. ph \in {"Completed", "Failed"} /\ (ph = "Completed" <=> gor[g].ok)
  OBVIOUS
<1>2. RFC3339(gor[g].at) \in Nat
  BY RFC3339Fact
<1>3. store[gor[g].task] \in Object /\ gor[g] \in GState
  BY DEF IInv, TypeOK
<1>4. Outcome(g) = [store[gor[g].task] EXCEPT !.phase = ph, !.completedAt = RFC3339(gor[g].at),
                                              !.done = gor[g].done]
  BY DEF Outcome
<1> HIDE DEF ph
<1> QED
  BY <1>1, <1>2, <1>3, <1>4 DEF Object, Phase, Terminal, Time, GState

\* The report of the holder is the only outcome ever written, and a true one.
LEMMA ReportStep ==
  ASSUME IInv, NEW g \in Goroutine, Report(g)
  PROVE  IInv'
<1> DEFINE t == gor[g].task
<1>1. /\ gor[g].pc = "put" /\ gor' = [gor EXCEPT ![g] = Idle]
      /\ UNCHANGED <<leader, up, watching, jan, now, faults, edits, ran, stamped>>
  BY DEF Report
<1>2. CASE UNCHANGED <<store, inbox>>
  <2>1. faults' \in Nat
    BY <1>1 DEF IInv, TypeOK
  <2> QED
    BY <1>1, <1>2, <2>1, QuietEnd
<1>3. CASE Write(t, Outcome(g)) /\ UpdateAccepted(t, gor[g].rv)
  <2>1. /\ t \in Task /\ gor[g].at \in Nat
        /\ gor[g].ok => gor[g].done = ActionCount /\ ran[t] = ActionCount
        /\ ~gor[g].ok => ran[t] = gor[g].done + 1
    BY <1>1 DEF IInv, HoldersTrue
  <2>2. store[t] \in Object /\ gor[g] \in GState /\ store[t].phase # "Deleted"
    BY <1>3, <2>1 DEF IInv, TypeOK, UpdateAccepted, Exists
  <2>6. /\ Outcome(g) \in Object /\ Outcome(g).done = gor[g].done
        /\ Outcome(g).phase \in {"Completed", "Failed"}
        /\ Outcome(g).phase = "Completed" <=> gor[g].ok
    BY <2>1, OutcomeFact
  <2>7. /\ gor' \in [Goroutine -> GState] /\ jan' \in [Pod -> JState] /\ edits' \in Nat
        /\ faults' \in Nat /\ stamped' \in [Task -> Time]
        /\ \A h \in Goroutine : gor'[h] = gor[h] \/ gor'[h] = Idle
    BY <1>1 DEF IInv, TypeOK, Idle, GState, Time
  <2>8. \A h \in Goroutine : ~(gor'[h].pc \in {"exec", "get", "put"} /\ gor'[h].task = t)
    <3>1. ASSUME NEW h \in Goroutine, gor'[h].pc \in {"exec", "get", "put"}, gor'[h].task = t
          PROVE  FALSE
      <4>1. h # g
        BY <1>1, <3>1 DEF IInv, TypeOK, Idle
      <4>2. gor'[h] = gor[h]
        BY <1>1, <4>1 DEF IInv, TypeOK
      <4> QED
        BY <1>1, <2>1, <3>1, <4>1, <4>2 DEF IInv, ClaimExclusive, Holds
    <3> QED
      BY <3>1
  <2>9. (ClaimsTrue /\ HoldersTrue /\ ClaimExclusive)'
    BY <1>1, <1>3, <2>1, <2>6, <2>7, <2>8, GoroutinesWrite
  <2>10. PlansTrue'
    BY <1>1 DEF IInv, PlansTrue
  <2> QED
    BY <1>1, <1>3, <2>1, <2>2, <2>6, <2>7, <2>9, <2>10, WriteStep DEF Terminal
<1> QED
  BY <1>2, <1>3 DEF Report

\* A fresh list is true; the plan made from it is justified by it.
LEMMA JanitorListStep ==
  ASSUME IInv, NEW p \in Pod, JanitorList(p)
  PROVE  IInv'
<1> DEFINE w == [jan[p] EXCEPT !.pc = "listed", !.snap = store]
<1>1. /\ UNCHANGED <<store, leader, up, watching, inbox, gor, now, faults, edits, ran, stamped>>
      /\ jan[p].pc = "idle"
  BY DEF JanitorList
<1>2. jan \in [Pod -> JState] /\ store \in [Task -> Object] /\ jan[p].todo = {}
  BY <1>1 DEF IInv, TypeOK, PlansTrue
<1>3. jan' = [jan EXCEPT ![p] = w]
  BY <1>2 DEF JanitorList
<1>4. w \in JState /\ w.snap = store /\ w.todo = {}
  BY <1>2 DEF JState
<1> HIDE DEF w
<1>5. TypeOK'
  BY <1>1, <1>2, <1>3, <1>4 DEF IInv, TypeOK
<1>6. SnapshotsTrue'
  <2>1. SUFFICES ASSUME NEW q \in Pod, jan'[q].pc # "idle", NEW t \in Task
                 PROVE  /\ jan'[q].snap[t].rv <= store[t].rv
                        /\ jan'[q].snap[t].rv = store[t].rv => jan'[q].snap[t] = store[t]
                        /\ jan'[q].snap[t].phase \in Terminal =>
                             store[t].phase \in Terminal \cup {"Deleted"}
    BY <1>1 DEF SnapshotsTrue
  <2>2. CASE q = p
    BY <1>2, <1>3, <1>4, <2>2 DEF Object
  <2>3. CASE q # p
    BY <1>2, <1>3, <2>1, <2>3 DEF IInv, SnapshotsTrue
  <2> QED
    BY <2>2, <2>3
<1>7. PlansTrue'
  BY <1>1, <1>2, <1>3, <1>4 DEF IInv, PlansTrue
<1>8. (EventsTrue /\ ClaimsTrue /\ HoldersTrue /\ ClaimExclusive)'
  BY <1>1 DEF IInv, EventsTrue, ClaimsTrue, HoldersTrue, ClaimExclusive, Holds
<1>9. (RanTrue /\ StampsTrue /\ OutcomeIsTrue)'
  BY <1>1 DEF IInv, RanTrue, StampsTrue, OutcomeIsTrue
<1> QED
  BY <1>5, <1>6, <1>7, <1>8, <1>9 DEF IInv

\* Steps of a Janitor that only change its own state: it keeps its list or drops
\* it, and what remains to be done was justified.
LEMMA JanitorQuiet ==
  ASSUME IInv, jan' \in [Pod -> JState], faults' \in Nat, PlansTrue',
         UNCHANGED <<store, leader, up, watching, inbox, gor, now, edits, ran, stamped>>,
         \A p \in Pod : jan'[p].pc # "idle" => jan[p].pc # "idle" /\ jan'[p].snap = jan[p].snap
  PROVE  IInv'
<1>1. TypeOK'
  BY DEF IInv, TypeOK
<1>2. SnapshotsTrue'
  BY DEF IInv, SnapshotsTrue
<1>3. (EventsTrue /\ ClaimsTrue /\ HoldersTrue /\ ClaimExclusive)'
  BY DEF IInv, EventsTrue, ClaimsTrue, HoldersTrue, ClaimExclusive, Holds
<1>4. (RanTrue /\ StampsTrue /\ OutcomeIsTrue)'
  BY DEF IInv, RanTrue, StampsTrue, OutcomeIsTrue
<1> QED
  BY <1>1, <1>2, <1>3, <1>4 DEF IInv

\* An idle Janitor has nothing to do.
LEMMA JIdleFact == JIdle \in JState /\ JIdle.pc = "idle" /\ JIdle.todo = {}
BY DEF JIdle, JState, EmptyStore, NoObject, Object, Phase, Time, Unset

\* sweep plans to expire stuck Running tasks and to delete terminal ones only.
LEMMA JanitorPlanStep ==
  ASSUME IInv, NEW p \in Pod, JanitorPlan(p)
  PROVE  IInv'
<1> DEFINE todo == ToExpire(jan[p].snap, now) \cup ToDelete(jan[p].snap, now)
           w == [jan[p] EXCEPT !.pc = "sweep", !.todo = todo]
<1>1. /\ UNCHANGED <<store, leader, up, watching, inbox, gor, now, faults, edits, ran, stamped>>
      /\ jan[p].pc = "listed"
  BY DEF JanitorPlan
<1>2. jan \in [Pod -> JState] /\ faults' \in Nat
  BY <1>1 DEF IInv, TypeOK
<1>3. /\ todo \in SUBSET Task
      /\ \A t \in todo : /\ jan[p].snap[t].phase \in Terminal \cup {"Running"}
                         /\ jan[p].snap[t].phase = "Running" => IsStuck(jan[p].snap[t], now)
  BY DEF ToExpire, ToDelete, Terminal
<1>4. jan' = [jan EXCEPT ![p] = JIdle] \/ jan' = [jan EXCEPT ![p] = w]
  BY <1>2 DEF JanitorPlan
<1> HIDE DEF todo
<1>5. w \in JState /\ w.pc = "sweep" /\ w.todo = todo /\ w.snap = jan[p].snap
  BY <1>2, <1>3 DEF JState
<1> HIDE DEF w
<1>6. jan' \in [Pod -> JState]
  BY <1>2, <1>4, <1>5, JIdleFact
<1>7. \A q \in Pod : jan'[q].pc # "idle" => jan[q].pc # "idle" /\ jan'[q].snap = jan[q].snap
  BY <1>1, <1>2, <1>4, <1>5, JIdleFact
<1>8. PlansTrue'
  <2>1. SUFFICES ASSUME NEW q \in Pod, NEW t \in jan'[q].todo
                 PROVE  /\ jan'[q].pc = "sweep"
                        /\ jan'[q].snap[t].phase \in Terminal \cup {"Running"}
                        /\ jan'[q].snap[t].phase = "Running" => IsStuck(jan'[q].snap[t], now)
    BY <1>1 DEF PlansTrue
  <2>2. CASE q = p
    <3>1. jan'[q] = w
      BY <1>2, <1>4, <2>1, <2>2, JIdleFact
    <3> QED
      BY <1>3, <1>5, <2>1, <3>1
  <2>3. CASE q # p
    <3>1. jan'[q] = jan[q]
      BY <1>2, <1>4, <2>3
    <3> QED
      BY <2>1, <3>1 DEF IInv, PlansTrue
  <2> QED
    BY <2>2, <2>3
<1> QED
  BY <1>1, <1>2, <1>6, <1>7, <1>8, JanitorQuiet

\* Going on to the next item keeps the list and a part of the plan.
LEMMA SweepNextFact ==
  ASSUME IInv, NEW p \in Pod, NEW t \in jan[p].todo, SweepNext(p, t), UNCHANGED now
  PROVE  /\ jan' \in [Pod -> JState]
         /\ PlansTrue'
         /\ \A q \in Pod : jan'[q].pc # "idle" => jan[q].pc # "idle" /\ jan'[q].snap = jan[q].snap
<1> DEFINE w == [jan[p] EXCEPT !.todo = jan[p].todo \ {t}]
<1>1. jan \in [Pod -> JState] /\ jan[p].pc = "sweep"
  BY DEF IInv, TypeOK, PlansTrue
<1>2. jan' = [jan EXCEPT ![p] = JIdle] \/ jan' = [jan EXCEPT ![p] = w]
  BY <1>1 DEF SweepNext
<1>3. w \in JState /\ w.pc = "sweep" /\ w.todo = jan[p].todo \ {t} /\ w.snap = jan[p].snap
  BY <1>1 DEF JState
<1> HIDE DEF w
<1>4. jan' \in [Pod -> JState]
  BY <1>1, <1>2, <1>3, JIdleFact
<1>5. \A q \in Pod : jan'[q].pc # "idle" => jan[q].pc # "idle" /\ jan'[q].snap = jan[q].snap
  BY <1>1, <1>2, <1>3, JIdleFact
<1>6. ASSUME NEW q \in Pod, NEW u \in jan'[q].todo
      PROVE  jan'[q].pc = jan[q].pc /\ jan'[q].snap = jan[q].snap /\ u \in jan[q].todo
  BY <1>1, <1>2, <1>3, <1>6, JIdleFact
<1>7. PlansTrue'
  BY <1>6 DEF IInv, PlansTrue
<1> QED
  BY <1>4, <1>5, <1>7

\* A failed call of the Janitor leaves the task as it is.
LEMMA JanitorFailsStep ==
  ASSUME IInv, NEW p \in Pod, NEW t \in Task, JanitorFails(p, t)
  PROVE  IInv'
<1>1. /\ t \in jan[p].todo /\ SweepNext(p, t) /\ faults' \in Nat
      /\ UNCHANGED <<store, leader, up, watching, inbox, gor, now, edits, ran, stamped>>
  BY DEF JanitorFails, Fault, IInv, TypeOK
<1> QED
  BY <1>1, SweepNextFact, JanitorQuiet

\* The object expireTask writes.
LEMMA ExpiredFact ==
  ASSUME IInv, NEW t \in Task
  PROVE  /\ Expired(t) \in Object /\ Expired(t).phase = "Expired"
         /\ Expired(t).claimedBy = store[t].claimedBy
<1>1. RFC3339(now) \in Nat /\ store[t] \in Object
  BY RFC3339Fact DEF IInv, TypeOK
<1> QED
  BY <1>1 DEF Expired, Object, Phase, Terminal, Time

\* expireTask writes only what it listed: a stuck Running task, still Running.
LEMMA JanitorExpireStep ==
  ASSUME IInv, NEW p \in Pod, NEW t \in Task, JanitorExpire(p, t)
  PROVE  IInv'
<1>1. /\ t \in jan[p].todo /\ SweepNext(p, t) /\ jan[p].snap[t].phase = "Running"
      /\ UNCHANGED <<leader, up, watching, gor, now, faults, edits, ran, stamped>>
  BY DEF JanitorExpire
<1>2. /\ jan' \in [Pod -> JState] /\ PlansTrue'
      /\ \A q \in Pod : jan'[q].pc # "idle" => jan[q].pc # "idle" /\ jan'[q].snap = jan[q].snap
  BY <1>1, SweepNextFact
<1>3. /\ gor' \in [Goroutine -> GState] /\ faults' \in Nat /\ edits' \in Nat
      /\ stamped' \in [Task -> Time] /\ now \in Nat /\ store[t] \in Object
  BY <1>1 DEF IInv, TypeOK
<1>4. CASE UNCHANGED <<store, inbox>>
  BY <1>1, <1>2, <1>3, <1>4, JanitorQuiet
<1>5. CASE UpdateAccepted(t, jan[p].snap[t].rv) /\ Write(t, Expired(t))
  <2>1. store[t].phase = "Running"
    <3>1. jan[p].pc # "idle" /\ store[t].rv = jan[p].snap[t].rv
      BY <1>1, <1>5 DEF IInv, PlansTrue, UpdateAccepted
    <3> QED
      BY <1>1, <3>1 DEF IInv, SnapshotsTrue
  <2>3. Expired(t) \in Object /\ Expired(t).phase = "Expired"
    BY ExpiredFact
  <2>4. (ClaimsTrue /\ HoldersTrue /\ ClaimExclusive)'
    BY <1>1, <1>3, <1>5, <2>3, GoroutinesWrite
  <2> QED
    BY <1>1, <1>2, <1>3, <1>5, <2>1, <2>3, <2>4, WriteStep DEF Terminal
<1> QED
  BY <1>4, <1>5 DEF JanitorExpire

\* deleteTask removes a task that was terminal when listed, and still is.
LEMMA JanitorDeleteStep ==
  ASSUME IInv, NEW p \in Pod, NEW t \in Task, JanitorDelete(p, t)
  PROVE  IInv'
<1> DEFINE obj == [store[t] EXCEPT !.phase = "Deleted"]
<1>1. /\ t \in jan[p].todo /\ SweepNext(p, t) /\ jan[p].snap[t].phase \in Terminal
      /\ UNCHANGED <<leader, up, watching, gor, now, faults, edits, ran, stamped>>
  BY DEF JanitorDelete
<1>2. /\ jan' \in [Pod -> JState] /\ PlansTrue'
      /\ \A q \in Pod : jan'[q].pc # "idle" => jan[q].pc # "idle" /\ jan'[q].snap = jan[q].snap
  BY <1>1, SweepNextFact
<1>3. /\ gor' \in [Goroutine -> GState] /\ faults' \in Nat /\ edits' \in Nat
      /\ stamped' \in [Task -> Time] /\ store[t] \in Object
  BY <1>1 DEF IInv, TypeOK
<1>4. CASE UNCHANGED <<store, inbox>>
  BY <1>1, <1>2, <1>3, <1>4, JanitorQuiet
<1>5. CASE Exists(t) /\ Write(t, obj)
  <2>1. obj \in Object /\ obj.phase = "Deleted"
    BY <1>3 DEF Object, Phase
  <2>2. store[t].phase # "Deleted"
    BY <1>5 DEF Exists
  <2> HIDE DEF obj
  <2>3. (ClaimsTrue /\ HoldersTrue /\ ClaimExclusive)'
    BY <1>1, <1>3, <1>5, <2>1, GoroutinesWrite
  <2> QED
    BY <1>1, <1>2, <1>3, <1>5, <2>1, <2>2, <2>3, WriteStep DEF Terminal
<1> QED
  BY <1>4, <1>5 DEF JanitorDelete

\* A crash loses goroutines, events and the Janitor's list, nothing else.
LEMMA CrashStep ==
  ASSUME IInv, NEW p \in Pod, Crash(p)
  PROVE  IInv'
<1>1. /\ UNCHANGED <<store, now, edits, ran, stamped>>
      /\ faults' \in Nat /\ up' \in SUBSET Pod /\ leader' \in Pod \cup {NoPod}
      /\ watching' \in SUBSET Loop
  BY DEF Crash, Fault, IInv, TypeOK
<1>2. jan' = [jan EXCEPT ![p] = JIdle] /\ jan \in [Pod -> JState]
  BY DEF Crash, IInv, TypeOK
<1>3. inbox' = [l \in Loop |-> IF l[1] = p THEN <<>> ELSE inbox[l]] /\ inbox \in [Loop -> Seq(Event)]
  BY DEF Crash, IInv, TypeOK
<1>4. gor' \in [Goroutine -> GState] /\ \A h \in Goroutine : gor'[h] = gor[h] \/ gor'[h] = Idle
  BY DEF Crash, IInv, TypeOK, Idle, GState, Time
<1>5. inbox' \in [Loop -> Seq(Event)] /\ \A l \in Loop : inbox'[l] = inbox[l] \/ inbox'[l] = <<>>
  BY <1>3
<1>6. jan' \in [Pod -> JState] /\ \A q \in Pod : jan'[q] = jan[q] \/ jan'[q] = JIdle
  BY <1>2, JIdleFact
<1>7. TypeOK'
  BY <1>1, <1>4, <1>5, <1>6 DEF IInv, TypeOK
<1>8. EventsTrue'
  BY <1>1, <1>5 DEF IInv, EventsTrue
<1>9. (ClaimsTrue /\ HoldersTrue /\ ClaimExclusive)'
  BY <1>1, <1>4, GoroutinesEnd
<1>10. SnapshotsTrue'
  BY <1>1, <1>6, JIdleFact DEF IInv, SnapshotsTrue
<1>11. PlansTrue'
  BY <1>1, <1>6, JIdleFact DEF IInv, PlansTrue
<1>12. (RanTrue /\ StampsTrue /\ OutcomeIsTrue)'
  BY <1>1 DEF IInv, RanTrue, StampsTrue, OutcomeIsTrue
<1> QED
  BY <1>7, <1>8, <1>9, <1>10, <1>11, <1>12 DEF IInv

-----------------------------------------------------------------------------
(* The theorems.                                                           *)

\* Every step of the task queue preserves the inductive invariant.
LEMMA NextIInv == IInv /\ [Next]_vars => IInv'
<1> SUFFICES ASSUME IInv, [Next]_vars PROVE IInv'
  OBVIOUS
<1>1. ASSUME NEW p \in Pod, BecomeLeader(p) \/ JanitorStep(p) \/ Crash(p) \/ Restart(p)
      PROVE  IInv'
  <2>1. CASE BecomeLeader(p) \/ Restart(p)
    <3>1. <<p, "main">> \in Loop
      BY DEF Loop
    <3> QED
      BY <2>1, <3>1, PodSteps
  <2>2. CASE JanitorList(p)
    BY <2>2, JanitorListStep
  <2>3. CASE JanitorPlan(p)
    BY <2>3, JanitorPlanStep
  <2>4. ASSUME NEW t \in Task, JanitorExpire(p, t) \/ JanitorDelete(p, t)
        PROVE  IInv'
    BY <2>4, JanitorExpireStep, JanitorDeleteStep
  <2>5. CASE Crash(p)
    BY <2>5, CrashStep
  <2> QED
    BY <1>1, <2>1, <2>2, <2>3, <2>4, <2>5 DEF JanitorStep
<1>2. ASSUME NEW t \in Task, Publish(t) \/ Edit(t)
      PROVE  IInv'
  BY <1>2, PublishStep, EditStep
<1>3. ASSUME NEW l \in Loop, WatchStart(l) \/ WatchBroken(l) \/ Receive(l)
      PROVE  IInv'
  <2>1. CASE WatchStart(l)
    <3>1. l[1] \in Pod
      BY DEF Loop
    <3> QED
      BY <2>1, <3>1, PodSteps
  <2>2. CASE WatchBroken(l)
    BY <2>2, WatchBrokenStep
  <2>3. CASE Receive(l)
    BY <2>3, ReceiveStep
  <2> QED
    BY <1>3, <2>1, <2>2, <2>3
<1>4. ASSUME NEW g \in Goroutine, GoroutineStep(g) \/ ClaimFails(g) \/ ReportFails(g)
      PROVE  IInv'
  BY <1>4, ClaimStep, ExecuteStep, RereadStep, ReportStep, ClaimFailsStep, ReportFailsStep
     DEF GoroutineStep
<1>5. ASSUME NEW p \in Pod, NEW t \in Task, JanitorFails(p, t)
      PROVE  IInv'
  BY <1>5, JanitorFailsStep
<1>6. CASE Tick
  BY <1>6, TickStep
<1>7. CASE UNCHANGED vars
  <2>1. UNCHANGED <<store, leader, up, watching, inbox, gor, jan, now, faults, edits, ran, stamped>>
    BY <1>7 DEF vars
  <2>2. TypeOK'
    BY <2>1 DEF IInv, TypeOK
  <2>3. (EventsTrue /\ ClaimsTrue /\ HoldersTrue /\ ClaimExclusive)'
    BY <2>1 DEF IInv, EventsTrue, ClaimsTrue, HoldersTrue, ClaimExclusive, Holds
  <2>4. (SnapshotsTrue /\ PlansTrue)'
    BY <2>1 DEF IInv, SnapshotsTrue, PlansTrue
  <2>5. (RanTrue /\ StampsTrue /\ OutcomeIsTrue)'
    BY <2>1 DEF IInv, RanTrue, StampsTrue, OutcomeIsTrue
  <2> QED
    BY <2>2, <2>3, <2>4, <2>5 DEF IInv
<1> QED
  BY <1>1, <1>2, <1>3, <1>4, <1>5, <1>6, <1>7 DEF Next

\* The inductive invariant holds in every reachable state: what events, Janitors
\* and goroutines remember stays true of the store as far as they rely on it.
THEOREM Invariance == Spec => []IInv
BY InitIInv, NextIInv, PTL DEF Spec

\* Type correctness of the task queue.
THEOREM TypeCorrect == Spec => []TypeOK
<1>1. IInv => TypeOK
  BY DEF IInv
<1> QED
  BY <1>1, Invariance, PTL

\* claimAndExecute: no two goroutines of any pods ever hold the same task.
THEOREM OneHolder == Spec => []ClaimExclusive
<1>1. IInv => ClaimExclusive
  BY DEF IInv
<1> QED
  BY <1>1, Invariance, PTL

\* No action of a task is started twice, whatever crashes, lost answers, broken
\* watches and duplicate watch loops do.
THEOREM AtMostOnce == Spec => []ActionsAtMostOnce
<1>1. IInv => ActionsAtMostOnce
  BY DEF IInv, RanTrue, HoldersTrue, ActionsAtMostOnce
<1> QED
  BY <1>1, Invariance, PTL

\* A Completed or Failed status tells what the actions really did.
THEOREM TrueOutcome == Spec => []OutcomeIsTrue
<1>1. IInv => OutcomeIsTrue
  BY DEF IInv
<1> QED
  BY <1>1, Invariance, PTL

-----------------------------------------------------------------------------
(* What a step may do to a task.                                           *)

\* The moves between phases, with what justifies an expiry.
DatesStay(t) ==
  store'[t].createdAt = store[t].createdAt /\ store'[t].completedAt = store[t].completedAt

Move(t) ==
  /\ store'[t] = store[t] \/ store'[t].rv = store[t].rv + 1
  /\ \/ /\ store'[t].phase = store[t].phase /\ store'[t].claimedBy = store[t].claimedBy
        /\ store'[t].done = store[t].done /\ DatesStay(t)
     \/ /\ store[t].phase = "Absent" /\ store'[t].phase = "Pending"
        /\ store'[t].createdAt = RFC3339(now) /\ store'[t].completedAt = Unset
     \/ store[t].phase = "Pending" /\ store'[t].phase = "Running" /\ DatesStay(t)
     \/ /\ store[t].phase = "Running" /\ store'[t].phase = "Expired"
        /\ now + Second > stamped[t] + ActiveDeadline + 1
        /\ store'[t].createdAt = store[t].createdAt /\ store'[t].completedAt = RFC3339(now)
     \/ /\ store[t].phase \in {"Running", "Expired"} /\ store'[t].phase \in {"Completed", "Failed"}
        /\ store'[t].createdAt = store[t].createdAt
        /\ \E g \in Goroutine : /\ gor[g].pc = "put" /\ gor[g].task = t /\ gor[g].rv = store[t].rv
                                /\ store'[t].completedAt = RFC3339(gor[g].at)
     \/ /\ store[t].phase \in Terminal /\ store'[t].phase = "Deleted" /\ DatesStay(t)
        /\ \E p \in Pod : JanitorDelete(p, t)

\* A write of t gives it the new object with the next version, and no other task.
LEMMA WritePhase ==
  ASSUME IInv, NEW t \in Task, NEW obj \in Object, Write(t, obj)
  PROVE  /\ store'[t].phase = obj.phase /\ store'[t].claimedBy = obj.claimedBy
         /\ store'[t].done = obj.done /\ store'[t].createdAt = obj.createdAt
         /\ store'[t].completedAt = obj.completedAt /\ store'[t].rv = store[t].rv + 1
         /\ \A u \in Task : u # t => store'[u] = store[u]
<1>1. TypeOK
  BY DEF IInv
<1>2. store' = [store EXCEPT ![t] = [obj EXCEPT !.rv = store[t].rv + 1]]
  BY <1>1, WriteFact
<1> QED
  BY <1>1, <1>2 DEF TypeOK, Object

\* Whoever writes, whatever it had read before, the task makes one of the moves.
LEMMA Moves ==
  ASSUME IInv, [Next]_vars, NEW u \in Task
  PROVE  Move(u)
<1>1. CASE UNCHANGED store
  BY <1>1 DEF Move, DatesStay
<1>2. ASSUME NEW t \in Task, Publish(t)
      PROVE  Move(u)
  <2> DEFINE obj == [NoObject EXCEPT !.phase = "Pending", !.createdAt = RFC3339(now)]
  <2>1. RFC3339(now) \in Nat
    BY RFC3339Fact DEF IInv, TypeOK
  <2>2. /\ obj \in Object /\ obj.phase = "Pending" /\ Write(t, obj) /\ store[t].phase = "Absent"
        /\ obj.createdAt = RFC3339(now) /\ obj.completedAt = Unset
    BY <1>2, <2>1 DEF Publish, NoObject, Object, Phase, Time, Unset
  <2> HIDE DEF obj
  <2> QED
    BY <2>2, WritePhase DEF Move, DatesStay
<1>3. ASSUME NEW t \in Task, Edit(t)
      PROVE  Move(u)
  <2>1. store[t] \in Object /\ Write(t, store[t])
    BY <1>3 DEF Edit, IInv, TypeOK
  <2> QED
    BY <2>1, WritePhase DEF Move, DatesStay
<1>4. ASSUME NEW g \in Goroutine, gor[g].pc = "claim", WriteClaim(g)
      PROVE  Move(u)
  <2> DEFINE t == gor[g].task
  <2>1. /\ t \in Task /\ store[t].phase = "Pending" /\ Claimed(g) \in Object
        /\ Write(t, Claimed(g)) /\ Claimed(g).phase = "Running"
    BY <1>4, AcceptedClaim
  <2>2. Claimed(g).createdAt = store[t].createdAt /\ Claimed(g).completedAt = store[t].completedAt
    BY <2>1 DEF Claimed, IInv, TypeOK, Object
  <2> HIDE DEF t
  <2> QED
    BY <2>1, <2>2, WritePhase DEF Move, DatesStay
<1>5. ASSUME NEW g \in Goroutine, Report(g), UpdateAccepted(gor[g].task, gor[g].rv),
             Write(gor[g].task, Outcome(g))
      PROVE  Move(u)
  <2>1. /\ gor[g].pc = "put" /\ gor[g].task \in Task /\ gor[g].at \in Nat
        /\ store[gor[g].task].phase \in {"Running", "Expired", "Deleted"}
    BY <1>5 DEF Report, IInv, HoldersTrue
  <2>2. store[gor[g].task].phase \in {"Running", "Expired"}
    BY <1>5, <2>1 DEF UpdateAccepted, Exists
  <2>3. Outcome(g) \in Object /\ Outcome(g).phase \in {"Completed", "Failed"}
    BY <2>1, OutcomeFact
  <2>4. /\ Outcome(g).createdAt = store[gor[g].task].createdAt
        /\ Outcome(g).completedAt = RFC3339(gor[g].at) /\ gor[g].rv = store[gor[g].task].rv
    BY <1>5, <2>1 DEF Outcome, UpdateAccepted, IInv, TypeOK, Object
  <2>5. CASE u = gor[g].task
    BY <1>5, <2>1, <2>2, <2>3, <2>4, <2>5, WritePhase DEF Move
  <2>6. CASE u # gor[g].task
    BY <1>5, <2>1, <2>3, <2>6, WritePhase DEF Move, DatesStay
  <2> QED
    BY <2>5, <2>6
<1>6. ASSUME NEW p \in Pod, NEW t \in Task, JanitorExpire(p, t),
             UpdateAccepted(t, jan[p].snap[t].rv), Write(t, Expired(t))
      PROVE  Move(u)
  <2>1. /\ jan[p].snap[t] = store[t] /\ store[t].phase = "Running" /\ IsStuck(store[t], now)
    <3>1. jan[p].pc # "idle" /\ t \in jan[p].todo /\ jan[p].snap[t].phase = "Running"
          /\ store[t].rv = jan[p].snap[t].rv
      BY <1>6 DEF JanitorExpire, UpdateAccepted
    <3>2. jan[p].snap[t] = store[t]
      BY <3>1 DEF IInv, SnapshotsTrue
    <3> QED
      BY <3>1, <3>2 DEF IInv, PlansTrue
  <2>2. stamped[t] \in Nat /\ store[t].claimedAt = RFC3339(stamped[t])
    BY <2>1 DEF IInv, StampsTrue
  <2>3. now + Second > stamped[t] + ActiveDeadline + 1
    <3>1. /\ RFC3339(stamped[t]) \in Nat /\ stamped[t] < RFC3339(stamped[t]) + Second
          /\ now > RFC3339(stamped[t]) + ActiveDeadline /\ now \in Nat
      BY <2>1, <2>2, RFC3339Fact DEF IsStuck, IInv, TypeOK
    <3> QED
      BY <2>2, <3>1, ConstantsAssumption
  <2>4. Expired(t) \in Object /\ Expired(t).phase = "Expired"
    BY ExpiredFact
  <2>5. Expired(t).createdAt = store[t].createdAt /\ Expired(t).completedAt = RFC3339(now)
    BY DEF Expired, IInv, TypeOK, Object
  <2> QED
    BY <1>6, <2>1, <2>3, <2>4, <2>5, WritePhase DEF Move, DatesStay
<1>7. ASSUME NEW p \in Pod, NEW t \in Task, JanitorDelete(p, t), Exists(t),
             Write(t, [store[t] EXCEPT !.phase = "Deleted"])
      PROVE  Move(u)
  <2> DEFINE obj == [store[t] EXCEPT !.phase = "Deleted"]
  <2>1. jan[p].pc # "idle" /\ jan[p].snap[t].phase \in Terminal
    BY <1>7 DEF JanitorDelete
  <2>2. store[t].phase \in Terminal
    BY <1>7, <2>1 DEF IInv, SnapshotsTrue, Exists
  <2>3. /\ obj \in Object /\ obj.phase = "Deleted"
        /\ obj.createdAt = store[t].createdAt /\ obj.completedAt = store[t].completedAt
    BY DEF IInv, TypeOK, Object, Phase
  <2>4. Write(t, obj)
    BY <1>7
  <2> HIDE DEF obj
  <2> QED
    BY <1>7, <2>2, <2>3, <2>4, WritePhase DEF Move, DatesStay
<1>8. ASSUME NEW p \in Pod, BecomeLeader(p) \/ JanitorStep(p) \/ Crash(p) \/ Restart(p)
      PROVE  Move(u)
  <2>1. CASE BecomeLeader(p) \/ JanitorList(p) \/ JanitorPlan(p) \/ Crash(p) \/ Restart(p)
    BY <1>1, <2>1 DEF BecomeLeader, JanitorList, JanitorPlan, Crash, Restart
  <2>2. ASSUME NEW t \in Task, JanitorExpire(p, t) PROVE Move(u)
    BY <1>1, <1>6, <2>2 DEF JanitorExpire
  <2>3. ASSUME NEW t \in Task, JanitorDelete(p, t) PROVE Move(u)
    BY <1>1, <1>7, <2>3 DEF JanitorDelete
  <2> QED
    BY <1>8, <2>1, <2>2, <2>3 DEF JanitorStep
<1>9. ASSUME NEW l \in Loop, WatchStart(l) \/ WatchBroken(l) \/ Receive(l)
      PROVE  Move(u)
  BY <1>1, <1>9 DEF WatchStart, WatchBroken, Receive
<1>10. ASSUME NEW g \in Goroutine, GoroutineStep(g) \/ ClaimFails(g) \/ ReportFails(g)
       PROVE  Move(u)
  <2>1. CASE Claim(g) \/ ClaimFails(g)
    BY <1>1, <1>4, <2>1 DEF Claim, ClaimFails
  <2>2. CASE Execute(g) \/ Reread(g) \/ ReportFails(g)
    BY <1>1, <2>2 DEF Execute, Reread, ReportFails
  <2>3. CASE Report(g)
    BY <1>1, <1>5, <2>3 DEF Report
  <2> QED
    BY <1>10, <2>1, <2>2, <2>3 DEF GoroutineStep
<1>11. CASE (\E p \in Pod, t \in Task : JanitorFails(p, t)) \/ Tick \/ UNCHANGED vars
  BY <1>1, <1>11 DEF JanitorFails, Tick, vars
<1> QED
  BY <1>2, <1>3, <1>8, <1>9, <1>10, <1>11 DEF Next

\* What a worker recorded of its task stands, although workers and Janitors act on
\* what they read long ago (claimAndExecute, updateTaskStatus, expireTask).
THEOREM OutcomeKept == Spec => OutcomeStands
<1>1. ASSUME IInv, [Next]_vars, NEW t \in Task
      PROVE  /\ store[t].phase # "Running" /\ store'[t].phase = "Running" => store[t].phase = "Pending"
             /\ store[t].phase = "Completed" => store'[t].phase \in {"Completed", "Deleted"}
             /\ store[t].phase = "Failed" => store'[t].phase \in {"Failed", "Deleted", "Pending"}
             /\ store[t].phase \in {"Completed", "Failed"} /\ store'[t].phase = store[t].phase =>
                  store'[t].done = store[t].done /\ store'[t].completedAt = store[t].completedAt
  <2>1. Move(t)
    BY <1>1, Moves
  <2> QED
    BY <2>1 DEF Move, DatesStay, Terminal
<1>2. IInv /\ [Next]_vars =>
        [\A t \in Task :
           /\ store[t].phase # "Running" /\ store'[t].phase = "Running" => store[t].phase = "Pending"
           /\ store[t].phase = "Completed" => store'[t].phase \in {"Completed", "Deleted"}
           /\ store[t].phase = "Failed" => store'[t].phase \in {"Failed", "Deleted", "Pending"}
           /\ store[t].phase \in {"Completed", "Failed"} /\ store'[t].phase = store[t].phase =>
                store'[t].done = store[t].done /\ store'[t].completedAt = store[t].completedAt]_vars
  BY <1>1
<1> QED
  BY <1>2, Invariance, PTL DEF Spec, OutcomeStands

\* deleteTask, which has no precondition, never removes a Pending or Running task.
THEOREM DeletesTerminal == Spec => OnlyTerminalDeleted
<1>1. ASSUME IInv, [Next]_vars
      PROVE  [\A t \in Task : store[t].phase # "Deleted" /\ store'[t].phase = "Deleted"
                                => store[t].phase \in Terminal]_vars
  <2>1. \A t \in Task : Move(t)
    BY <1>1, Moves
  <2> QED
    BY <2>1 DEF Move, Terminal
<1> QED
  BY <1>1, Invariance, PTL DEF Spec, OnlyTerminalDeleted

\* A worker has its ActiveDeadline, short of less than a second, before a Janitor
\* takes the task from it.
THEOREM DeadlineKept == Spec => NotExpiredEarly
<1>1. ASSUME IInv, [Next]_vars
      PROVE  [\A t \in Task : store[t].phase = "Running" /\ store'[t].phase = "Expired"
                                => now + Second > stamped[t] + ActiveDeadline + 1]_vars
  <2>1. \A t \in Task : Move(t)
    BY <1>1, Moves
  <2> QED
    BY <2>1 DEF Move, Terminal
<1> QED
  BY <1>1, Invariance, PTL DEF Spec, NotExpiredEarly

-----------------------------------------------------------------------------
(* The Janitors of all pods together keep a history.                       *)

\* The history of terminal tasks has not become empty.  TrailingRetention is meant
\* to keep the tail of the activity (config.go:386-391), so some task at least.
HistoryIsKept ==
  (\E t \in Task : store[t].phase = "Deleted") => \E t \in Task : store[t].phase \in Terminal

\* No Janitor deletes a task whose worker reported on it anew, after it had been
\* expired, since the Janitor listed it (deleteTask does not look).
DeletesAsListed ==
  [][\A p \in Pod, t \in Task : JanitorDelete(p, t) /\ Exists(t) =>
       TerminalTime(jan[p].snap[t]) = TerminalTime(store[t])]_vars

\* Times are set, and not ahead of the clock; a report that will be accepted does
\* not go back behind the time it replaces.
TimesTrue ==
  /\ \A t \in Task :
       /\ store[t].phase # "Absent" => store[t].createdAt \in Nat
       /\ store[t].createdAt <= RFC3339(now) /\ store[t].completedAt <= RFC3339(now)
  /\ \A g \in Goroutine : gor[g].pc = "put" =>
       /\ gor[g].at <= now
       /\ gor[g].rv <= store[gor[g].task].rv
       /\ gor[g].rv = store[gor[g].task].rv =>
            TerminalTime(store[gor[g].task]) <= RFC3339(gor[g].at)

\* Why the Janitors do not empty the history: of every terminal task on a list there
\* is one as recent in the store, and one more recent on the list if it is to go.
Retained ==
  \A p \in Pod : \A t \in Task : jan[p].snap[t].phase \in Terminal =>
    /\ jan[p].snap[t].createdAt \in Nat
    /\ \E u \in Task : /\ store[u].phase \in Terminal
                        /\ TerminalTime(jan[p].snap[t]) <= TerminalTime(store[u])
    /\ t \in jan[p].todo =>
         \E u \in Task : /\ jan[p].snap[u].phase \in Terminal
                        /\ TerminalTime(jan[p].snap[t]) < TerminalTime(jan[p].snap[u])

\* Formatting keeps the order of times.
LEMMA RFC3339Order ==
  ASSUME NEW a \in Nat, NEW b \in Nat, a <= b
  PROVE  RFC3339(a) <= RFC3339(b)
<1> DEFINE q == a \div Second
           r == b \div Second
<1>1. Second \in Nat /\ Second > 0
  BY ConstantsAssumption
<1>2. q \in Nat /\ r \in Nat
  BY <1>1, SMT
<1>3. RFC3339(a) = q * Second /\ RFC3339(b) = r * Second
  BY DEF RFC3339
<1>4. q * Second <= a /\ b < r * Second + Second
  BY <1>3, RFC3339Fact
<1> HIDE DEF q, r
<1>5. CASE q <= r
  <2>1. q * Second <= r * Second
    BY <1>1, <1>2, <1>5, SMT
  <2> QED
    BY <1>3, <2>1
<1>6. CASE r + 1 <= q
  <2>1. (r + 1) * Second <= q * Second /\ (r + 1) * Second = r * Second + Second
    BY <1>1, <1>2, <1>6, SMT
  <2>2. q * Second \in Nat /\ r * Second \in Nat
    BY <1>1, <1>2, SMT
  <2> HIDE DEF q, r
  <2> QED
    BY <1>1, <1>4, <2>1, <2>2, SMT
<1> QED
  BY <1>2, <1>5, <1>6

\* sweep plans to delete a terminal task only when its list has a more recent one
\* (janitor.go shouldDeleteTerminal).
LEMMA DeletesOlder ==
  ASSUME IsFiniteSet(Task), TrailingRetention > 0,
         NEW list \in [Task -> Object], NEW clock \in Nat,
         \A v \in Task : list[v].phase \in Terminal => list[v].createdAt \in Nat,
         NEW t \in ToDelete(list, clock)
  PROVE  \E u \in Task : /\ list[u].phase \in Terminal
                        /\ TerminalTime(list[t]) < TerminalTime(list[u])
<1> DEFINE done == {v \in Task : list[v].phase \in Terminal}
           times == {TerminalTime(list[v]) : v \in done}
<1>1. ASSUME NEW v \in done PROVE TerminalTime(list[v]) \in Nat
  <2>1. list[v] \in Object /\ list[v].createdAt \in Nat
    OBVIOUS
  <2> QED
    BY <2>1 DEF TerminalTime, Object, Time, Unset
<1>2. IsFiniteSet(done) /\ t \in done
  BY FS_Subset DEF ToDelete
<1>3. IsFiniteSet(times)
  <2> DEFINE f == [v \in done |-> TerminalTime(list[v])]
  <2>1. f \in Surjection(done, times)
    BY DEF Surjection
  <2> HIDE DEF f, done, times
  <2> QED
    BY <1>2, <2>1, FS_Surjection
<1>4. times \subseteq Nat /\ times # {}
  BY <1>1, <1>2
<1>5. \E m \in times : \A n \in times : n <= m
  <2>1. times \subseteq Int
    BY <1>4
  <2> HIDE DEF times
  <2> QED
    BY <1>3, <1>4, <2>1, FiniteMax
<1>6. TLast(list) \in times
  <2>1. TLast(list) = CHOOSE m \in times : \A n \in times : n <= m
    BY <1>4 DEF TLast
  <2> HIDE DEF times
  <2> QED
    BY <1>5, <2>1
<1>7. PICK u \in done : TLast(list) = TerminalTime(list[u])
  BY <1>6
<1>8. TerminalTime(list[u]) \in Nat /\ TerminalTime(list[t]) \in Nat /\ TrailingRetention \in Nat
  BY <1>1, <1>2, ConstantsAssumption
<1>9. TerminalTime(list[t]) < TLast(list) - TrailingRetention
  BY <1>7, <1>8 DEF ToDelete, ShouldDeleteTerminal, Unset
<1> QED
  BY <1>7, <1>8, <1>9

\* What can happen to a Janitor's memory: nothing; it ends, or its pod; it lists; it
\* plans; or it goes on with its plan.
Sweeping(p) ==
  \/ jan'[p] = jan[p]
  \/ jan'[p] = JIdle
  \/ /\ jan[p].pc = "idle" /\ jan'[p] = [jan[p] EXCEPT !.pc = "listed", !.snap = store]
     /\ UNCHANGED store
  \/ /\ jan[p].pc = "listed" /\ jan'[p].pc = "sweep" /\ jan'[p].snap = jan[p].snap
     /\ jan'[p].todo = ToExpire(jan[p].snap, now) \cup ToDelete(jan[p].snap, now)
     /\ UNCHANGED store
  \/ /\ jan[p].pc = "sweep" /\ jan'[p].pc = "sweep" /\ jan'[p].snap = jan[p].snap
     /\ jan'[p].todo \subseteq jan[p].todo

\* Only its own steps and a crash of its pod change what a Janitor remembers.
LEMMA JanitorMemory ==
  ASSUME IInv, [Next]_vars, NEW p \in Pod
  PROVE  Sweeping(p)
<1>1. jan \in [Pod -> JState]
  BY DEF IInv, TypeOK
<1>2. CASE UNCHANGED jan
  BY <1>2 DEF Sweeping
<1>3. ASSUME NEW q \in Pod, JanitorList(q)
      PROVE  Sweeping(p)
  BY <1>1, <1>3 DEF JanitorList, JState, Sweeping
<1>4. ASSUME NEW q \in Pod, JanitorPlan(q)
      PROVE  Sweeping(p)
  BY <1>1, <1>4 DEF JanitorPlan, JState, Sweeping
<1>5. ASSUME NEW q \in Pod, NEW t \in Task, jan[q].pc = "sweep", SweepNext(q, t)
      PROVE  Sweeping(p)
  BY <1>1, <1>5 DEF SweepNext, JState, Sweeping
<1>6. ASSUME NEW q \in Pod, Crash(q)
      PROVE  Sweeping(p)
  BY <1>1, <1>6 DEF Crash, Sweeping
<1>7. ASSUME NEW q \in Pod, BecomeLeader(q) \/ JanitorStep(q) \/ Crash(q) \/ Restart(q)
      PROVE  Sweeping(p)
  <2>1. CASE BecomeLeader(q) \/ Restart(q)
    BY <1>2, <2>1 DEF BecomeLeader, Restart
  <2>2. ASSUME NEW t \in Task, JanitorExpire(q, t) \/ JanitorDelete(q, t) PROVE Sweeping(p)
    BY <1>5, <2>2 DEF JanitorExpire, JanitorDelete
  <2> QED
    BY <1>3, <1>4, <1>6, <1>7, <2>1, <2>2 DEF JanitorStep
<1>8. CASE \E t \in Task : Publish(t) \/ Edit(t)
  BY <1>2, <1>8 DEF Publish, Edit
<1>9. CASE \E l \in Loop : WatchStart(l) \/ WatchBroken(l) \/ Receive(l)
  BY <1>2, <1>9 DEF WatchStart, WatchBroken, Receive
<1>10. ASSUME NEW g \in Goroutine, GoroutineStep(g) \/ ClaimFails(g) \/ ReportFails(g)
       PROVE  Sweeping(p)
  BY <1>2, <1>10 DEF GoroutineStep, Claim, Execute, Reread, Report, ClaimFails, ReportFails
<1>11. ASSUME NEW q \in Pod, NEW t \in Task, JanitorFails(q, t)
       PROVE  Sweeping(p)
  BY <1>5, <1>11 DEF JanitorFails
<1>12. CASE Tick \/ UNCHANGED vars
  BY <1>2, <1>12 DEF Tick, vars
<1> QED
  BY <1>7, <1>8, <1>9, <1>10, <1>11, <1>12 DEF Next

\* What can happen to a goroutine that is about to report: it was, or it reads the
\* task and the clock now; the clock does not go back.
LEMMA Reporters ==
  ASSUME IInv, [Next]_vars, NEW g \in Goroutine, gor'[g].pc = "put"
  PROVE  \/ gor'[g] = gor[g] /\ now <= now'
         \/ /\ gor'[g].at = now /\ gor'[g].task \in Task
            /\ gor'[g].rv = store[gor'[g].task].rv /\ UNCHANGED <<store, now>>
<1>1. gor \in [Goroutine -> GState] /\ now \in Nat
  BY DEF IInv, TypeOK
<1>2. CASE UNCHANGED <<gor, now>>
  BY <1>1, <1>2
<1>3. CASE Tick
  BY <1>1, <1>3 DEF Tick
<1>4. ASSUME NEW h \in Goroutine, GoroutineStep(h) \/ ClaimFails(h) \/ ReportFails(h)
      PROVE  \/ gor'[g] = gor[g] /\ now <= now'
             \/ /\ gor'[g].at = now /\ gor'[g].task \in Task
                /\ gor'[g].rv = store[gor'[g].task].rv /\ UNCHANGED <<store, now>>
  <2>1. Idle.pc = "idle"
    BY DEF Idle
  <2>2. CASE Claim(h) \/ Execute(h) \/ Report(h) \/ ClaimFails(h) \/ ReportFails(h)
    <3>1. now' = now
      BY <2>2 DEF Claim, Execute, Report, ClaimFails, ReportFails
    <3>2. CASE g = h
      BY <1>1, <2>1, <2>2, <3>2 DEF Claim, Execute, Report, ClaimFails, ReportFails, GState
    <3>3. CASE g # h
      BY <1>1, <2>2, <3>1, <3>3 DEF Claim, Execute, Report, ClaimFails, ReportFails
    <3> QED
      BY <3>2, <3>3
  <2>3. CASE Reread(h)
    <3>1. CASE g = h
      <4>1. gor[g].task \in Task
        BY <2>3, <3>1 DEF Reread, IInv, HoldersTrue
      <4> QED
        BY <1>1, <2>1, <2>3, <3>1, <4>1 DEF Reread, GState
    <3>2. CASE g # h
      BY <1>1, <2>3, <3>2 DEF Reread
    <3> QED
      BY <3>1, <3>2
  <2> QED
    BY <1>4, <2>2, <2>3 DEF GoroutineStep
<1>5. ASSUME NEW l \in Loop, Receive(l)
      PROVE  gor'[g] = gor[g] /\ now <= now'
  BY <1>1, <1>5 DEF Receive, Idle
<1>6. ASSUME NEW p \in Pod, Crash(p)
      PROVE  gor'[g] = gor[g] /\ now <= now'
  BY <1>1, <1>6 DEF Crash, Idle
<1>7. CASE \E p \in Pod : BecomeLeader(p) \/ JanitorStep(p) \/ Restart(p)
  BY <1>2, <1>7 DEF BecomeLeader, JanitorStep, JanitorList, JanitorPlan, JanitorExpire,
                    JanitorDelete, Restart
<1>8. CASE \/ \E t \in Task : Publish(t) \/ Edit(t)
           \/ \E l \in Loop : WatchStart(l) \/ WatchBroken(l)
           \/ \E p \in Pod, t \in Task : JanitorFails(p, t)
           \/ UNCHANGED vars
  BY <1>2, <1>8 DEF Publish, Edit, WatchStart, WatchBroken, JanitorFails, vars
<1> QED
  BY <1>3, <1>4, <1>5, <1>6, <1>7, <1>8 DEF Next

\* The clock does not go back.
LEMMA ClockForward ==
  ASSUME IInv, [Next]_vars
  PROVE  now \in Nat /\ now' \in Nat /\ now <= now'
<1>1. now \in Nat /\ now' \in Nat
  BY NextIInv DEF IInv, TypeOK
<1>2. CASE UNCHANGED now
  BY <1>1, <1>2
<1>3. CASE Tick
  BY <1>1, <1>3 DEF Tick
<1>4. CASE \E p \in Pod : BecomeLeader(p) \/ JanitorStep(p) \/ Crash(p) \/ Restart(p)
  BY <1>2, <1>4 DEF BecomeLeader, JanitorStep, JanitorList, JanitorPlan, JanitorExpire,
                    JanitorDelete, Crash, Restart
<1>5. CASE \E g \in Goroutine : GoroutineStep(g) \/ ClaimFails(g) \/ ReportFails(g)
  BY <1>2, <1>5 DEF GoroutineStep, Claim, Execute, Reread, Report, ClaimFails, ReportFails
<1>6. CASE \/ \E t \in Task : Publish(t) \/ Edit(t)
           \/ \E l \in Loop : WatchStart(l) \/ WatchBroken(l) \/ Receive(l)
           \/ \E p \in Pod, t \in Task : JanitorFails(p, t)
           \/ UNCHANGED vars
  BY <1>2, <1>6 DEF Publish, Edit, WatchStart, WatchBroken, Receive, JanitorFails, vars
<1> QED
  BY <1>1, <1>3, <1>4, <1>5, <1>6 DEF Next

\* Times stay set and behind the clock.
LEMMA TimesStep ==
  ASSUME IInv, TimesTrue, [Next]_vars
  PROVE  TimesTrue'
<1>1. /\ now \in Nat /\ now' \in Nat /\ now <= now'
      /\ RFC3339(now) \in Nat /\ RFC3339(now') \in Nat /\ RFC3339(now) <= RFC3339(now')
  BY ClockForward, RFC3339Fact, RFC3339Order
<1>2. store \in [Task -> Object] /\ store' \in [Task -> Object]
  BY NextIInv DEF IInv, TypeOK
<1>3. ASSUME NEW t \in Task
      PROVE  /\ store'[t].phase # "Absent" => store'[t].createdAt \in Nat
             /\ store'[t].createdAt <= RFC3339(now') /\ store'[t].completedAt <= RFC3339(now')
  <2>1. /\ store[t].phase # "Absent" => store[t].createdAt \in Nat
        /\ store[t].createdAt <= RFC3339(now) /\ store[t].completedAt <= RFC3339(now)
        /\ store[t].createdAt \in Int /\ store[t].completedAt \in Int
    BY <1>2 DEF TimesTrue, Object, Time, Unset
  <2>2. ASSUME NEW g \in Goroutine, gor[g].pc = "put"
        PROVE  RFC3339(gor[g].at) \in Nat /\ RFC3339(gor[g].at) <= RFC3339(now)
    <3>1. gor[g].at \in Nat /\ gor[g].at <= now
      BY <2>2 DEF IInv, HoldersTrue, TimesTrue
    <3> QED
      BY <1>1, <3>1, RFC3339Fact, RFC3339Order
  <2>3. Move(t)
    BY Moves
  <2> QED
    BY <1>1, <2>1, <2>2, <2>3 DEF Move, DatesStay, Terminal, Unset
<1>4. ASSUME NEW g \in Goroutine, gor'[g].pc = "put"
      PROVE  /\ gor'[g].at <= now'
             /\ gor'[g].rv <= store'[gor'[g].task].rv
             /\ gor'[g].rv = store'[gor'[g].task].rv =>
                  TerminalTime(store'[gor'[g].task]) <= RFC3339(gor'[g].at)
  <2>1. CASE gor'[g] = gor[g]
    <3>1. /\ gor[g].pc = "put" /\ gor[g].task \in Task /\ gor[g].at \in Nat
          /\ gor[g].at <= now /\ gor[g].rv <= store[gor[g].task].rv
          /\ gor[g].rv = store[gor[g].task].rv =>
               TerminalTime(store[gor[g].task]) <= RFC3339(gor[g].at)
      BY <1>4, <2>1 DEF IInv, HoldersTrue, TimesTrue
    <3>2. gor[g].rv \in Nat /\ store[gor[g].task].rv \in Nat
      BY <1>2, <3>1 DEF IInv, TypeOK, GState, Object
    <3>3. \/ store'[gor[g].task] = store[gor[g].task]
          \/ store'[gor[g].task].rv = store[gor[g].task].rv + 1
      BY <3>1, Moves DEF Move
    <3> QED
      BY <1>1, <2>1, <3>1, <3>2, <3>3
  <2>2. CASE /\ gor'[g].at = now /\ gor'[g].task \in Task
             /\ gor'[g].rv = store[gor'[g].task].rv /\ UNCHANGED <<store, now>>
    <3> DEFINE t == gor'[g].task
    <3>1. store'[t] = store[t] /\ store[t].rv \in Nat /\ now' = now
      BY <1>2, <2>2 DEF Object
    <3>2. TerminalTime(store[t]) <= RFC3339(now)
      BY <2>2 DEF TimesTrue, TerminalTime
    <3> QED
      BY <1>1, <2>2, <3>1, <3>2
  <2> QED
    BY <1>4, <2>1, <2>2, Reporters
<1> QED
  BY <1>3, <1>4 DEF TimesTrue

\* A terminal task that is not deleted stays terminal and gets no older; one that is
\* deleted leaves a more recent one behind.
LEMMA Outlived ==
  ASSUME IInv, TimesTrue, Retained, [Next]_vars, NEW t \in Task, store[t].phase \in Terminal,
         \A p \in Pod : JanitorDelete(p, t) /\ Exists(t) =>
           TerminalTime(jan[p].snap[t]) = TerminalTime(store[t])
  PROVE  \E u \in Task : /\ store'[u].phase \in Terminal
                        /\ TerminalTime(store[t]) <= TerminalTime(store'[u])
<1>1. ASSUME NEW u \in Task, store[u].phase \in Terminal
      PROVE  TerminalTime(store[u]) \in Nat
  <2>1. store[u] \in Object /\ store[u].createdAt \in Nat
    BY <1>1 DEF IInv, TypeOK, TimesTrue, Terminal
  <2> QED
    BY <2>1 DEF TerminalTime, Object, Time, Unset
<1>2. ASSUME NEW u \in Task, store[u].phase \in Terminal, store'[u].phase # "Deleted"
      PROVE  store'[u].phase \in Terminal /\ TerminalTime(store[u]) <= TerminalTime(store'[u])
  <2>1. TerminalTime(store[u]) \in Nat
    BY <1>1, <1>2
  <2>2. CASE store'[u].phase = store[u].phase /\ DatesStay(u)
    BY <1>2, <2>1, <2>2 DEF DatesStay, TerminalTime
  <2>3. CASE /\ store'[u].phase \in {"Completed", "Failed"}
             /\ \E g \in Goroutine : /\ gor[g].pc = "put" /\ gor[g].task = u
                                     /\ gor[g].rv = store[u].rv
                                     /\ store'[u].completedAt = RFC3339(gor[g].at)
    <3>1. PICK g \in Goroutine : /\ gor[g].pc = "put" /\ gor[g].task = u
                                 /\ gor[g].rv = store[u].rv
                                 /\ store'[u].completedAt = RFC3339(gor[g].at)
      BY <2>3
    <3>2. gor[g].at \in Nat /\ TerminalTime(store[u]) <= RFC3339(gor[g].at)
      BY <3>1 DEF IInv, HoldersTrue, TimesTrue
    <3>3. RFC3339(gor[g].at) \in Nat
      BY <3>2, RFC3339Fact
    <3> QED
      BY <2>3, <3>1, <3>2, <3>3 DEF TerminalTime, Terminal, Unset
  <2>4. Move(u)
    BY Moves
  <2> QED
    BY <1>2, <2>2, <2>3, <2>4 DEF Move, Terminal
<1>3. CASE store'[t].phase # "Deleted"
  BY <1>2, <1>3
<1>4. CASE store'[t].phase = "Deleted"
  <2>1. PICK p \in Pod : JanitorDelete(p, t)
    <3>1. Move(t)
      BY Moves
    <3> QED
      BY <1>4, <3>1 DEF Move, Terminal
  <2>2. /\ t \in jan[p].todo /\ jan[p].snap[t].phase \in Terminal
        /\ TerminalTime(jan[p].snap[t]) = TerminalTime(store[t])
    BY <2>1 DEF JanitorDelete, Exists, Terminal
  <2>3. PICK w \in Task : /\ jan[p].snap[w].phase \in Terminal
                          /\ TerminalTime(store[t]) < TerminalTime(jan[p].snap[w])
    BY <2>2 DEF Retained
  <2>4. PICK u \in Task : /\ store[u].phase \in Terminal
                          /\ TerminalTime(jan[p].snap[w]) <= TerminalTime(store[u])
    BY <2>3 DEF Retained
  <2>5. TerminalTime(jan[p].snap[w]) \in Int /\ TerminalTime(store[t]) \in Nat
        /\ TerminalTime(store[u]) \in Nat
    <3>1. jan[p].snap[w] \in Object
      BY DEF IInv, TypeOK, JState
    <3> QED
      BY <1>1, <2>4, <3>1 DEF TerminalTime, Object, Time, Unset
  <2>6. u # t
    BY <2>3, <2>4, <2>5
  <2>7. store'[u].phase # "Deleted"
    <3>1. \A v \in Task : v # t => store'[v] = store[v]
      BY <2>1 DEF JanitorDelete, Write, IInv, TypeOK
    <3> QED
      BY <2>1, <2>4, <2>6, <3>1 DEF Terminal
  <2>8. store'[u].phase \in Terminal /\ TerminalTime(store[u]) <= TerminalTime(store'[u])
    BY <1>2, <2>4, <2>7
  <2>9. TerminalTime(store'[u]) \in Int
    <3>1. store'[u] \in Object
      BY NextIInv DEF IInv, TypeOK
    <3> QED
      BY <3>1 DEF TerminalTime, Object, Time, Unset
  <2> QED
    BY <2>3, <2>4, <2>5, <2>8, <2>9
<1> QED
  BY <1>3, <1>4

\* Lists and plans go on being outlived by a terminal task in the store.
LEMMA RetainedStep ==
  ASSUME IsFiniteSet(Task), TrailingRetention > 0, IInv, TimesTrue, Retained, [Next]_vars,
         \A p \in Pod, t \in Task : JanitorDelete(p, t) /\ Exists(t) =>
           TerminalTime(jan[p].snap[t]) = TerminalTime(store[t])
  PROVE  Retained'
<1> SUFFICES ASSUME NEW p \in Pod, NEW t \in Task, jan'[p].snap[t].phase \in Terminal
             PROVE  /\ jan'[p].snap[t].createdAt \in Nat
                    /\ \E u \in Task : /\ store'[u].phase \in Terminal
                                        /\ TerminalTime(jan'[p].snap[t]) <= TerminalTime(store'[u])
                    /\ t \in jan'[p].todo =>
                         \E u \in Task : /\ jan'[p].snap[u].phase \in Terminal
                                        /\ TerminalTime(jan'[p].snap[t]) < TerminalTime(jan'[p].snap[u])
  BY DEF Retained
<1>1. /\ jan[p] \in JState /\ now \in Nat /\ Sweeping(p)
      /\ store \in [Task -> Object] /\ store' \in [Task -> Object]
  BY JanitorMemory, NextIInv DEF IInv, TypeOK
<1>2. jan[p].pc # "sweep" => jan[p].todo = {}
  BY DEF IInv, PlansTrue
<1>3. jan'[p] # JIdle
  BY DEF JIdle, EmptyStore, NoObject, Terminal
<1>4. ASSUME NEW obj \in Object PROVE TerminalTime(obj) \in Int
  BY DEF TerminalTime, Object, Time, Unset
\* Whatever was as recent as the listed task has a successor.
<1>5. ASSUME NEW obj \in Object, NEW v \in Task, store[v].phase \in Terminal,
             TerminalTime(obj) <= TerminalTime(store[v])
      PROVE  \E u \in Task : /\ store'[u].phase \in Terminal
                            /\ TerminalTime(obj) <= TerminalTime(store'[u])
  <2>1. PICK u \in Task : /\ store'[u].phase \in Terminal
                          /\ TerminalTime(store[v]) <= TerminalTime(store'[u])
    BY <1>5, Outlived
  <2>2. TerminalTime(obj) \in Int /\ TerminalTime(store[v]) \in Int /\ TerminalTime(store'[u]) \in Int
    BY <1>1, <1>4
  <2> QED
    BY <1>5, <2>1, <2>2
<1>6. CASE /\ jan[p].pc = "idle" /\ jan'[p] = [jan[p] EXCEPT !.pc = "listed", !.snap = store]
           /\ UNCHANGED store
  <2>1. jan'[p].snap = store /\ jan'[p].todo = {} /\ store' = store
    BY <1>1, <1>2, <1>6 DEF JState
  <2>2. store[t].createdAt \in Nat /\ TerminalTime(store[t]) \in Int
    BY <1>1, <1>4, <2>1 DEF TimesTrue, Terminal
  <2> QED
    BY <2>1, <2>2
<1>7. CASE jan'[p].snap = jan[p].snap
  <2>1. /\ jan[p].snap[t] \in Object /\ jan[p].snap[t].createdAt \in Nat
        /\ \E u \in Task : /\ store[u].phase \in Terminal
                            /\ TerminalTime(jan[p].snap[t]) <= TerminalTime(store[u])
    BY <1>1, <1>7 DEF Retained, JState
  <2>2. \E u \in Task : /\ store'[u].phase \in Terminal
                        /\ TerminalTime(jan[p].snap[t]) <= TerminalTime(store'[u])
    BY <1>5, <2>1
  <2>3. ASSUME t \in jan'[p].todo
        PROVE  \E u \in Task : /\ jan[p].snap[u].phase \in Terminal
                              /\ TerminalTime(jan[p].snap[t]) < TerminalTime(jan[p].snap[u])
    <3>1. CASE t \in jan[p].todo
      BY <1>7, <3>1 DEF Retained
    <3>2. CASE t \in ToExpire(jan[p].snap, now) \cup ToDelete(jan[p].snap, now)
      <4>1. t \in ToDelete(jan[p].snap, now)
        BY <1>7, <3>2 DEF ToExpire, Terminal
      <4>2. \A v \in Task : jan[p].snap[v].phase \in Terminal => jan[p].snap[v].createdAt \in Nat
        BY DEF Retained
      <4>3. jan[p].snap \in [Task -> Object]
        BY <1>1 DEF JState
      <4> QED
        BY <1>1, <4>1, <4>2, <4>3, DeletesOlder
    <3> QED
      BY <1>1, <1>2, <1>3, <2>3, <3>1, <3>2 DEF Sweeping, JState
  <2> QED
    BY <1>7, <2>1, <2>2, <2>3
<1> QED
  BY <1>1, <1>3, <1>6, <1>7 DEF Sweeping

\* With TrailingRetention the Janitors of any number of pods, listing and sweeping at
\* any time against each other, late reports and crashes, never delete the whole
\* history, as long as each task they delete is still as they listed it
\* (janitor.go sweep; without that, two Janitors can: see the README).
THEOREM HistoryKept ==
  ASSUME IsFiniteSet(Task), TrailingRetention > 0
  PROVE  Spec /\ DeletesAsListed => []HistoryIsKept
<1> DEFINE AsListed == \A p \in Pod, t \in Task : JanitorDelete(p, t) /\ Exists(t) =>
                         TerminalTime(jan[p].snap[t]) = TerminalTime(store[t])
<1>1. Init => TimesTrue /\ Retained /\ HistoryIsKept
  <2> SUFFICES ASSUME Init PROVE TimesTrue /\ Retained /\ HistoryIsKept
    OBVIOUS
  <2>1. RFC3339(now) \in Nat
    BY RFC3339Fact DEF Init
  <2>2. TimesTrue
    BY <2>1 DEF Init, TimesTrue, EmptyStore, NoObject, Idle, Unset
  <2>3. Retained /\ HistoryIsKept
    BY DEF Init, Retained, HistoryIsKept, EmptyStore, NoObject, JIdle, Terminal
  <2> QED
    BY <2>2, <2>3
<1>2. ASSUME IInv, TimesTrue, Retained, HistoryIsKept, [Next]_vars, [AsListed]_vars
      PROVE  TimesTrue' /\ Retained' /\ HistoryIsKept'
  <2>1. AsListed
    <3>1. CASE UNCHANGED vars
      <4>1. ASSUME NEW p \in Pod, NEW t \in Task, Exists(t) PROVE ~JanitorDelete(p, t)
        <5>1. store[t] \in Object /\ store \in [Task -> Object] /\ store' = store
          BY <1>2, <3>1 DEF vars, IInv, TypeOK
        <5> DEFINE obj == [store[t] EXCEPT !.phase = "Deleted"]
        <5>2. obj \in Object /\ obj.phase = "Deleted"
          BY <5>1 DEF Object, Phase
        <5>3. JanitorDelete(p, t) => Write(t, obj)
          BY <4>1 DEF JanitorDelete
        <5> HIDE DEF obj
        <5> QED
          BY <1>2, <4>1, <5>1, <5>2, <5>3, WritePhase DEF Exists
      <4> QED
        BY <4>1
    <3> QED
      BY <1>2, <3>1
  <2>2. TimesTrue' /\ Retained'
    BY <1>2, <2>1, TimesStep, RetainedStep
  <2>3. ASSUME NEW t \in Task, store'[t].phase = "Deleted"
        PROVE  \E u \in Task : store'[u].phase \in Terminal
    <3>1. PICK u \in Task : store[u].phase \in Terminal
      <4>1. CASE store[t].phase = "Deleted"
        BY <1>2, <4>1 DEF HistoryIsKept
      <4>2. CASE store[t].phase # "Deleted"
        BY <1>2, <2>3, <4>2, Moves DEF Move, Terminal
      <4> QED
        BY <4>1, <4>2
    <3> QED
      BY <1>2, <2>1, <3>1, Outlived
  <2> QED
    BY <2>2, <2>3 DEF HistoryIsKept
<1>3. DeletesAsListed <=> [][AsListed]_vars
  BY DEF DeletesAsListed
<1> HIDE DEF AsListed
<1> QED
  BY <1>1, <1>2, <1>3, Invariance, PTL DEF Spec

-----------------------------------------------------------------------------
(* The task queue implements the abstract life of tasks.                   *)

\* A task that was never published has never been claimed.
AbsentIsNew == \A t \in Task : store[t].phase = "Absent" => store[t].claimedBy = NoPod

\* No object comes to bear a claim before it is published.
LEMMA AbsentInvariance == Spec => []AbsentIsNew
<1>1. Init => AbsentIsNew
  BY DEF Init, AbsentIsNew, EmptyStore, NoObject
<1>2. IInv /\ AbsentIsNew /\ [Next]_vars => AbsentIsNew'
  <2>1. ASSUME IInv, AbsentIsNew, [Next]_vars, NEW t \in Task, store'[t].phase = "Absent"
        PROVE  store'[t].claimedBy = NoPod
    <3>1. Move(t)
      BY <2>1, Moves
    <3> QED
      BY <2>1, <3>1 DEF Move, AbsentIsNew
  <2> QED
    BY <2>1 DEF AbsentIsNew
<1> QED
  BY <1>1, <1>2, Invariance, PTL DEF Spec

\* A write seen through the refinement mapping.
LEMMA WriteMapped ==
  ASSUME IInv, NEW t \in Task, NEW obj \in Object, Write(t, obj)
  PROVE  /\ TaskPhase' = [TaskPhase EXCEPT ![t] = obj.phase]
         /\ Claimant' = [Claimant EXCEPT ![t] = obj.claimedBy]
         /\ obj.claimedBy = store[t].claimedBy => Claimant' = Claimant
         /\ TaskPhase[t] = store[t].phase
<1>1. /\ store'[t].phase = obj.phase /\ store'[t].claimedBy = obj.claimedBy
      /\ \A u \in Task : u # t => store'[u] = store[u]
  BY WritePhase
<1> QED
  BY <1>1 DEF TaskPhase, Claimant

\* A goroutine that ends gives up exactly the task it held.
LEMMA EndMapped ==
  ASSUME IInv, NEW g \in Goroutine, gor' = [gor EXCEPT ![g] = Idle]
  PROVE  /\ gor[g].pc = "claim" => Held' = Held
         /\ gor[g].pc \in {"exec", "get", "put"} =>
              gor[g].task \in Held /\ Held' = Held \ {gor[g].task}
<1>1. gor'[g] = Idle /\ \A h \in Goroutine : h # g => gor'[h] = gor[h]
  BY DEF IInv, TypeOK
<1>2. Idle.pc = "idle"
  BY DEF Idle
<1>3. \A t \in Task : ~Holds(g, t)'
  BY <1>1, <1>2 DEF Holds
<1>4. \A h \in Goroutine, t \in Task : h # g => (Holds(h, t)' <=> Holds(h, t))
  BY <1>1 DEF Holds
<1>5. CASE gor[g].pc = "claim"
  <2>1. \A t \in Task : ~Holds(g, t)
    BY <1>5 DEF Holds
  <2> QED
    BY <1>3, <1>4, <1>5, <2>1 DEF Held
<1>6. CASE gor[g].pc \in {"exec", "get", "put"}
  <2>1. gor[g].task \in Task /\ Holds(g, gor[g].task)
    BY <1>6 DEF IInv, HoldersTrue, Holds
  <2>2. \A h \in Goroutine : h # g => ~Holds(h, gor[g].task)
    BY <2>1 DEF IInv, ClaimExclusive
  <2>3. \A t \in Task : t # gor[g].task => ~Holds(g, t)
    BY DEF Holds
  <2> QED
    BY <1>3, <1>4, <1>6, <2>1, <2>2, <2>3 DEF Held
<1> QED
  BY <1>5, <1>6

\* Claims are visible in the abstract specification as Claim, whether or not the
\* claimant learns of its success (worker.go claimAndExecute).
LEMMA ClaimMapped ==
  ASSUME IInv, NEW g \in Goroutine, Claim(g) \/ ClaimFails(g)
  PROVE  [Lifecycle!Next]_<<TaskPhase, Claimant, Held, ran>>
<1> DEFINE t == gor[g].task
<1>1. gor[g].pc = "claim" /\ ran' = ran
  BY DEF Claim, ClaimFails
<1>2. CASE UNCHANGED store /\ gor' = [gor EXCEPT ![g] = Idle]
  BY <1>1, <1>2, EndMapped DEF TaskPhase, Claimant
<1>3. CASE WriteClaim(g)
  <2>1. /\ t \in Task /\ store[t].phase = "Pending" /\ Claimed(g) \in Object
        /\ Write(t, Claimed(g)) /\ Claimed(g).phase = "Running"
    BY <1>1, <1>3, AcceptedClaim
  <2>2. gor[g].pod \in Pod /\ Claimed(g).claimedBy = gor[g].pod
    <3>1. gor[g].pod \in Pod /\ store[t] \in Object
      BY <1>1, <2>1 DEF IInv, ClaimsTrue, TypeOK
    <3> QED
      BY <3>1 DEF Claimed, Object
  <2>3. /\ TaskPhase' = [TaskPhase EXCEPT ![t] = "Running"] /\ TaskPhase[t] = "Pending"
        /\ Claimant' = [Claimant EXCEPT ![t] = gor[g].pod]
    BY <2>1, <2>2, WriteMapped
  <2>4. Held' \in {Held, Held \cup {t}}
    <3>1. CASE gor' = [gor EXCEPT ![g] = Idle]
      BY <1>1, <3>1, EndMapped
    <3>2. CASE gor' = [gor EXCEPT ![g].pc = IF ActionCount = 0 THEN "get" ELSE "exec"]
      <4>1. /\ gor'[g].pc \in {"get", "exec"} /\ gor'[g].task = t
            /\ \A h \in Goroutine : h # g => gor'[h] = gor[h]
        BY <3>2 DEF IInv, TypeOK, GState
      <4>2. \A u \in Task : (Holds(g, u)' <=> u = t) /\ ~Holds(g, u)
        BY <1>1, <4>1 DEF Holds
      <4>3. \A h \in Goroutine, u \in Task : h # g => (Holds(h, u)' <=> Holds(h, u))
        BY <4>1 DEF Holds
      <4>4. Held' = Held \cup {t}
        BY <2>1, <4>2, <4>3 DEF Held
      <4> QED
        BY <4>4
    <3> QED
      BY <1>1, <3>1, <3>2 DEF Claim, ClaimFails, ClaimAccepted, WriteClaim
  <2>5. Lifecycle!Claim(t, gor[g].pod)
    BY <1>1, <2>3, <2>4 DEF Lifecycle!Claim
  <2> QED
    BY <2>1, <2>2, <2>5 DEF Lifecycle!Next
<1> QED
  BY <1>2, <1>3 DEF Claim, ClaimFails

\* Actions and reports of a holder are Perform and Finish, a lost report is Lose.
LEMMA HolderMapped ==
  ASSUME IInv, NEW g \in Goroutine, Execute(g) \/ Reread(g) \/ Report(g) \/ ReportFails(g)
  PROVE  [Lifecycle!Next]_<<TaskPhase, Claimant, Held, ran>>
<1> DEFINE t == gor[g].task
<1>1. gor[g].pc \in {"exec", "get", "put"}
  BY DEF Execute, Reread, Report, ReportFails
<1>2. /\ t \in Task /\ t \in Held
      /\ store[t].phase \in {"Running", "Expired", "Deleted"}
  BY <1>1 DEF IInv, HoldersTrue, Held, Holds
<1>3. CASE UNCHANGED <<store, ran>> /\ gor' = [gor EXCEPT ![g] = Idle]
  <2>1. Held' = Held \ {t} /\ TaskPhase' = TaskPhase /\ Claimant' = Claimant
    BY <1>1, <1>3, EndMapped DEF TaskPhase, Claimant
  <2>2. Lifecycle!Lose({t}) /\ {t} \in SUBSET Held
    BY <1>2, <1>3, <2>1 DEF Lifecycle!Lose
  <2> QED
    BY <2>2 DEF Lifecycle!Next
<1>4. CASE Execute(g)
  <2>1. /\ gor'[g].pc \in {"exec", "get"} /\ gor'[g].task = t
        /\ \A h \in Goroutine : h # g => gor'[h] = gor[h]
    BY <1>4 DEF Execute, IInv, TypeOK, GState
  <2>2. \A h \in Goroutine, u \in Task : Holds(h, u)' <=> Holds(h, u)
    BY <1>1, <2>1 DEF Holds
  <2>3. Held' = Held
    BY <2>2 DEF Held
  <2>4. ran[t] < ActionCount
    BY <1>4 DEF Execute, IInv, HoldersTrue
  <2>5. Lifecycle!Perform(t)
    BY <1>2, <1>4, <2>3, <2>4 DEF Execute, Lifecycle!Perform, TaskPhase, Claimant
  <2> QED
    BY <1>2, <2>5 DEF Lifecycle!Next
<1>5. CASE UNCHANGED <<store, ran>> /\ gor' = [gor EXCEPT ![g].pc = "put", ![g].rv = store[t].rv, ![g].at = now]
  <2>1. /\ gor'[g].pc = "put" /\ gor'[g].task = t
        /\ \A h \in Goroutine : h # g => gor'[h] = gor[h]
    BY <1>5 DEF IInv, TypeOK, GState
  <2>2. \A h \in Goroutine, u \in Task : Holds(h, u)' <=> Holds(h, u)
    BY <1>1, <2>1 DEF Holds
  <2>3. Held' = Held /\ TaskPhase' = TaskPhase /\ Claimant' = Claimant
    BY <1>5, <2>2 DEF Held, TaskPhase, Claimant
  <2> QED
    BY <1>5, <2>3
<1>6. CASE Report(g) /\ UpdateAccepted(t, gor[g].rv) /\ Write(t, Outcome(g))
  <2>1. /\ gor[g].pc = "put" /\ ran' = ran /\ gor' = [gor EXCEPT ![g] = Idle]
        /\ store[t].phase \in {"Running", "Expired"}
    BY <1>2, <1>6 DEF Report, UpdateAccepted, Exists
  <2>2. /\ gor[g].at \in Nat
        /\ gor[g].ok => ran[t] = ActionCount
        /\ ~gor[g].ok => ran[t] = gor[g].done + 1
        /\ gor[g].done \in Nat
    BY <2>1 DEF IInv, HoldersTrue, TypeOK, GState
  <2>3. /\ Outcome(g) \in Object /\ Outcome(g).claimedBy = store[t].claimedBy
        /\ Outcome(g).phase \in {"Completed", "Failed"}
        /\ Outcome(g).phase = "Completed" <=> gor[g].ok
    BY <1>2, <2>2, OutcomeFact
  <2>4. /\ TaskPhase' = [TaskPhase EXCEPT ![t] = Outcome(g).phase]
        /\ TaskPhase[t] \in {"Running", "Expired"} /\ Claimant' = Claimant
    BY <1>2, <1>6, <2>1, <2>3, WriteMapped
  <2>5. Held' = Held \ {t}
    BY <2>1, EndMapped
  <2>6. Outcome(g).phase = "Failed" => ran[t] > 0
    BY <2>2, <2>3
  <2>7. Lifecycle!Finish(t, Outcome(g).phase)
    BY <1>2, <2>1, <2>2, <2>3, <2>4, <2>5, <2>6 DEF Lifecycle!Finish
  <2> QED
    BY <1>2, <2>3, <2>7 DEF Lifecycle!Next
<1> QED
  BY <1>3, <1>4, <1>5, <1>6 DEF Reread, Report, ReportFails

\* Janitors act as Expire and Delete, whatever their lists say.
LEMMA JanitorMapped ==
  ASSUME IInv, NEW p \in Pod, NEW t \in Task, JanitorExpire(p, t) \/ JanitorDelete(p, t)
  PROVE  [Lifecycle!Next]_<<TaskPhase, Claimant, Held, ran>>
<1>1. ran' = ran /\ gor' = gor
  BY DEF JanitorExpire, JanitorDelete
<1>2. Held' = Held
  BY <1>1 DEF Held, Holds
<1>3. CASE UNCHANGED store
  BY <1>1, <1>2, <1>3 DEF TaskPhase, Claimant
<1>4. CASE JanitorExpire(p, t) /\ UpdateAccepted(t, jan[p].snap[t].rv) /\ Write(t, Expired(t))
  <2>1. store[t].phase = "Running"
    BY <1>4 DEF JanitorExpire, UpdateAccepted, IInv, SnapshotsTrue
  <2>2. TaskPhase' = [TaskPhase EXCEPT ![t] = "Expired"] /\ TaskPhase[t] = "Running"
        /\ Claimant' = Claimant
    BY <1>4, <2>1, ExpiredFact, WriteMapped
  <2>3. Lifecycle!Expire(t)
    BY <1>1, <1>2, <2>2 DEF Lifecycle!Expire
  <2> QED
    BY <2>3 DEF Lifecycle!Next
<1>5. CASE JanitorDelete(p, t) /\ Exists(t) /\ Write(t, [store[t] EXCEPT !.phase = "Deleted"])
  <2> DEFINE obj == [store[t] EXCEPT !.phase = "Deleted"]
  <2>1. store[t].phase \in Terminal
    BY <1>5 DEF JanitorDelete, IInv, SnapshotsTrue, Exists
  <2>2. obj \in Object /\ obj.phase = "Deleted" /\ obj.claimedBy = store[t].claimedBy
    BY DEF IInv, TypeOK, Object, Phase
  <2>3. Write(t, obj)
    BY <1>5
  <2> HIDE DEF obj
  <2>4. TaskPhase' = [TaskPhase EXCEPT ![t] = "Deleted"] /\ TaskPhase[t] \in Terminal
        /\ Claimant' = Claimant
    BY <2>1, <2>2, <2>3, WriteMapped
  <2>5. Lifecycle!Delete(t)
    BY <1>1, <1>2, <2>4 DEF Lifecycle!Delete, Lifecycle!Final, Terminal
  <2> QED
    BY <2>5 DEF Lifecycle!Next
<1> QED
  BY <1>3, <1>4, <1>5 DEF JanitorExpire, JanitorDelete

\* Publish is Create, an edit of metadata is invisible.
LEMMA ObjectMapped ==
  ASSUME IInv, AbsentIsNew, NEW t \in Task, Publish(t) \/ Edit(t)
  PROVE  [Lifecycle!Next]_<<TaskPhase, Claimant, Held, ran>>
<1>1. ran' = ran /\ gor' = gor
  BY DEF Publish, Edit
<1>2. Held' = Held
  BY <1>1 DEF Held, Holds
<1>3. CASE Publish(t)
  <2> DEFINE obj == [NoObject EXCEPT !.phase = "Pending", !.createdAt = RFC3339(now)]
  <2>1. RFC3339(now) \in Nat
    BY RFC3339Fact DEF IInv, TypeOK
  <2>2. obj \in Object /\ obj.phase = "Pending" /\ obj.claimedBy = NoPod /\ Write(t, obj)
    BY <1>3, <2>1 DEF Publish, NoObject, Object, Phase, Time, Unset
  <2>3. store[t].phase = "Absent" /\ store[t].claimedBy = NoPod
    BY <1>3 DEF Publish, AbsentIsNew
  <2> HIDE DEF obj
  <2>4. TaskPhase' = [TaskPhase EXCEPT ![t] = "Pending"] /\ TaskPhase[t] = "Absent"
        /\ Claimant' = Claimant
    BY <2>2, <2>3, WriteMapped
  <2>5. Lifecycle!Create(t)
    BY <1>1, <1>2, <2>4 DEF Lifecycle!Create
  <2> QED
    BY <2>5 DEF Lifecycle!Next
<1>4. CASE Edit(t)
  <2>1. store[t] \in Object /\ Write(t, store[t])
    BY <1>4 DEF Edit, IInv, TypeOK
  <2>2. TaskPhase' = TaskPhase /\ Claimant' = Claimant
    BY <2>1, WritePhase DEF TaskPhase, Claimant
  <2> QED
    BY <1>1, <1>2, <2>2
<1> QED
  BY <1>3, <1>4

\* A crash loses all the claims of the pod.
LEMMA CrashMapped ==
  ASSUME IInv, NEW p \in Pod, Crash(p)
  PROVE  [Lifecycle!Next]_<<TaskPhase, Claimant, Held, ran>>
<1>1. TaskPhase' = TaskPhase /\ Claimant' = Claimant /\ ran' = ran
  BY DEF Crash, TaskPhase, Claimant
<1>2. \A h \in Goroutine, u \in Task : Holds(h, u)' => Holds(h, u)
  BY DEF Crash, Holds, Idle
<1>3. Held' \subseteq Held
  BY <1>2 DEF Held
<1>4. Lifecycle!Lose(Held \ Held') /\ Held \ Held' \in SUBSET Held
  BY <1>1, <1>3 DEF Lifecycle!Lose
<1> QED
  BY <1>4 DEF Lifecycle!Next

\* The task queue of watches, resource versions, goroutines and Janitors is an
\* implementation of TaskLifecycle.
THEOREM Refinement == Spec => ImplementsLifecycle
<1>1. Init => Lifecycle!Init
  BY DEF Init, Lifecycle!Init, TaskPhase, Claimant, Held, Holds, EmptyStore, NoObject, Idle
<1>2. ASSUME IInv, AbsentIsNew, [Next]_vars
      PROVE  [Lifecycle!Next]_<<TaskPhase, Claimant, Held, ran>>
  <2>1. CASE UNCHANGED <<store, gor, ran>>
    BY <2>1 DEF TaskPhase, Claimant, Held, Holds
  <2>2. ASSUME NEW p \in Pod, BecomeLeader(p) \/ JanitorStep(p) \/ Crash(p) \/ Restart(p)
        PROVE  [Lifecycle!Next]_<<TaskPhase, Claimant, Held, ran>>
    BY <1>2, <2>1, <2>2, CrashMapped, JanitorMapped
       DEF BecomeLeader, JanitorStep, JanitorList, JanitorPlan, Restart
  <2>3. ASSUME NEW l \in Loop, WatchStart(l) \/ WatchBroken(l) \/ Receive(l)
        PROVE  [Lifecycle!Next]_<<TaskPhase, Claimant, Held, ran>>
    <3>1. CASE WatchStart(l) \/ WatchBroken(l)
      BY <2>1, <3>1 DEF WatchStart, WatchBroken
    <3>2. CASE Receive(l)
      <4>1. /\ UNCHANGED <<store, ran>>
            /\ \A h \in Goroutine : gor'[h] = gor[h] \/ (gor[h].pc = "idle" /\ gor'[h].pc = "claim")
        BY <1>2, <3>2 DEF Receive, IInv, TypeOK, Idle
      <4>2. \A h \in Goroutine, u \in Task : Holds(h, u)' <=> Holds(h, u)
        BY <4>1 DEF Holds
      <4> QED
        BY <4>1, <4>2 DEF TaskPhase, Claimant, Held
    <3> QED
      BY <2>3, <3>1, <3>2
  <2>4. CASE (\E p \in Pod, t \in Task : JanitorFails(p, t)) \/ Tick \/ UNCHANGED vars
    BY <2>1, <2>4 DEF JanitorFails, Tick, vars
  <2> QED
    BY <1>2, <2>2, <2>3, <2>4, ObjectMapped, ClaimMapped, HolderMapped DEF Next, GoroutineStep
<1>3. IInv /\ AbsentIsNew /\ [Next]_vars => [Lifecycle!Next]_Lifecycle!lvars
  BY <1>2 DEF Lifecycle!lvars
<1> QED
  BY <1>1, <1>3, Invariance, AbsentInvariance, PTL
     DEF Spec, ImplementsLifecycle, Lifecycle!Spec

=============================================================================

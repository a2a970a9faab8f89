--------------------------- MODULE OperatorProofs ---------------------------
(***************************************************************************)
(* Leadership and pipeline of the operator's processes, for any number of  *)
(* pods, signals and faults.                                               *)
(***************************************************************************)
EXTENDS Operator, TLAPS

\* No process is up.
LEMMA InitIInv == Init => IInv
BY OperatorAssumption DEF Init, IInv, TypeOK, MemoryTrue, Up

\* The end of a process leaves nothing of its memory, and the others alone.
LEMMA EndsStep ==
  ASSUME IInv, NEW p \in Pod, Ends(p), leader' = leader, mode' = mode, label' \subseteq Pod,
         signals' \in 0..MaxSignals, faults' \in 0..MaxFaults
  PROVE  IInv'
BY DEF Ends, IInv, TypeOK, MemoryTrue, Up

\* The steps of main and of the pipeline's goroutine.
LEMMA PipelineSteps ==
  ASSUME IInv, NEW p \in Pod, NEW ok \in BOOLEAN,
         \/ Boot(p) \/ PipelineReady(p) \/ MonitorFails(p) \/ InitiateShutdown(p) \/ Acquire(p)
         \/ AddLabel(p, ok) \/ NewPipeline(p, ok) \/ ShutdownComplete(p, ok)
  PROVE  IInv'
<1>1. CASE Boot(p)
  BY <1>1 DEF Boot, IInv, TypeOK, MemoryTrue, Up
<1>2. CASE PipelineReady(p)
  BY <1>2 DEF PipelineReady, IInv, TypeOK, MemoryTrue, Up
<1>3. CASE InitiateShutdown(p)
  BY <1>3 DEF InitiateShutdown, Cancel, IInv, TypeOK, MemoryTrue, Up
<1>4. CASE Acquire(p)
  BY <1>4, OperatorAssumption DEF Acquire, IInv, TypeOK, MemoryTrue, Up
<1>5. CASE AddLabel(p, ok)
  BY <1>5, OperatorAssumption DEF AddLabel, Fault, IInv, TypeOK, MemoryTrue, Up
<1>6. CASE NewPipeline(p, ok)
  <2>1. faults' \in 0..MaxFaults
    BY <1>6, OperatorAssumption DEF NewPipeline, Fault, IInv, TypeOK
  <2>2. CASE ok
    BY <1>6, <2>1, <2>2 DEF NewPipeline, IInv, TypeOK, MemoryTrue, Up
  <2>3. CASE ~ok
    BY <1>6, <2>1, <2>3, EndsStep DEF NewPipeline, IInv, TypeOK
  <2> QED
    BY <2>2, <2>3
<1>7. CASE ShutdownComplete(p, ok)
  <2>1. faults' \in 0..MaxFaults
    BY <1>7, OperatorAssumption DEF ShutdownComplete, Fault, IInv, TypeOK
  <2>2. CASE mode = "standalone" \/ ~ok
    BY <1>7, <2>1, <2>2, EndsStep DEF ShutdownComplete, IInv, TypeOK
  <2>3. CASE ~(mode = "standalone" \/ ~ok)
    BY <1>7, <2>1, <2>3 DEF ShutdownComplete, IInv, TypeOK, MemoryTrue, Up
  <2> QED
    BY <2>2, <2>3
<1>8. CASE MonitorFails(p)
  BY <1>8, OperatorAssumption DEF MonitorFails, Fault, IInv, TypeOK, MemoryTrue, Up
<1> QED
  BY <1>1, <1>2, <1>3, <1>4, <1>5, <1>6, <1>7, <1>8

\* The steps of the leader election, of the lease and of Kubernetes.
LEMMA ElectionSteps ==
  ASSUME IInv, NEW p \in Pod, NEW ok \in BOOLEAN,
         \/ Release(p, ok) \/ RenewFails(p) \/ CancelLeader(p) \/ OnStoppedLeading(p, ok) \/ Exit(p)
         \/ Signal(p) \/ Crash(p) \/ Killed(p)
  PROVE  IInv'
<1>1. CASE Release(p, ok)
  BY <1>1, OperatorAssumption DEF Release, Fault, IInv, TypeOK, MemoryTrue, Up
<1>2. CASE RenewFails(p)
  BY <1>2, OperatorAssumption DEF RenewFails, Fault, IInv, TypeOK, MemoryTrue, Up
<1>3. CASE OnStoppedLeading(p, ok)
  BY <1>3, OperatorAssumption DEF OnStoppedLeading, Fault, IInv, TypeOK, MemoryTrue, Up
<1>4. CASE Exit(p)
  BY <1>4, EndsStep DEF Exit, IInv, TypeOK
<1>5. CASE Signal(p)
  BY <1>5, OperatorAssumption DEF Signal, IInv, TypeOK, MemoryTrue, Up
<1>6. CASE Crash(p)
  <2>1. faults' \in 0..MaxFaults
    BY <1>6, OperatorAssumption DEF Crash, Fault, IInv, TypeOK
  <2> QED
    BY <1>6, <2>1, EndsStep DEF Crash, IInv, TypeOK
<1>7. CASE Killed(p)
  BY <1>7, EndsStep DEF Killed, IInv, TypeOK
<1>8. CASE CancelLeader(p)
  BY <1>8 DEF CancelLeader, IInv, TypeOK, MemoryTrue, Up
<1> QED
  BY <1>1, <1>2, <1>3, <1>4, <1>5, <1>6, <1>7, <1>8

LEMMA LeaseExpiresStep == IInv /\ LeaseExpires => IInv'
BY DEF LeaseExpires, memory, IInv, TypeOK, MemoryTrue, Up

LEMMA NextIInv == IInv /\ [Next]_vars => IInv'
<1> SUFFICES ASSUME IInv, [Next]_vars PROVE IInv'
  OBVIOUS
<1>1. CASE UNCHANGED vars
  BY <1>1 DEF vars, IInv, TypeOK, MemoryTrue, Up
<1>2. CASE LeaseExpires
  BY <1>2, LeaseExpiresStep
<1>3. ASSUME NEW p \in Pod,
             \/ Step(p) \/ Acquire(p) \/ MonitorFails(p) \/ RenewFails(p)
             \/ Signal(p) \/ Crash(p) \/ Killed(p)
      PROVE  IInv'
  BY <1>3, PipelineSteps, ElectionSteps DEF Step
<1> QED
  BY <1>1, <1>2, <1>3 DEF Next

\* Memory of every process, lease and pipeline agree at all times.
THEOREM Invariance == Spec => []IInv
BY InitIInv, NextIInv, PTL DEF Spec

\* A process that holds on to the lease has a pipeline at work, or its ctx is
\* cancelled: runPipeline never leaves a leader without detection.
THEOREM NoneIdle == Spec => []NoIdleLeader
<1>1. IInv => NoIdleLeader
  BY DEF IInv, TypeOK, MemoryTrue, NoIdleLeader
<1> QED
  BY <1>1, Invariance, PTL

\* At most one pipeline belongs to a leadership that is not over.
THEOREM OneAtATime == Spec => []OnePipeline
<1>1. IInv => OnePipeline
  BY DEF IInv, TypeOK, MemoryTrue, OnePipeline, Active, PipelineOn
<1> QED
  BY <1>1, Invariance, PTL

=============================================================================

SPECIFICATION Spec
CONSTANTS
  Scenario = {s1}
  Enabled <- OnlyKubernetes
  BufferSize = 1
  MaxChanges = 2
  MaxEvents = 3
  MaxFaults = 1
INVARIANTS LoadedIsCurrent CleanStop IInv
PROPERTIES StartedOnce ChangeApplied Flows StopsByItself
CHECK_DEADLOCK FALSE

SPECIFICATION Spec
CONSTANTS
  Scenario = {s1}
  Enabled <- AnyMonitors
  BufferSize = 1
  MaxChanges = 0
  MaxEvents = 1
  MaxFaults = 0
INVARIANT NoSendOnClosed
CHECK_DEADLOCK FALSE

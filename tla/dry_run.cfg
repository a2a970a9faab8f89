SPECIFICATION Spec
CONSTANTS
  Remediation = {j1}
  Plans <- Small
  maxRetries = 3
  MaxInt32 = 3
  DefaultLimit = 1
  Unit = 10
  NoMax = NoMax
  InitialLimit = 5
  Edits <- ByOthers
  MaxFaults = 0
  MaxEdits = 0
INVARIANT DryRunHarmless
CHECK_DEADLOCK FALSE

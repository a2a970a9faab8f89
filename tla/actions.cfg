SPECIFICATION Spec
CONSTANTS
  Remediation = {j1, j2}
  Plans <- Small
  maxRetries = 3
  MaxInt32 = 3
  DefaultLimit = 1
  Unit = 10
  NoMax = NoMax
  InitialLimit = 5
  Edits <- ByOthers
  MaxFaults = 1
  MaxEdits = 1
INVARIANTS EffectAtMostOnce OutcomeIsTrue RollbackGoesBack IInv
PROPERTIES ScaleAdds LimitNotLowered Terminates
CHECK_DEADLOCK FALSE

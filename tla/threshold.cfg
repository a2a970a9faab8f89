SPECIFICATION Spec
CONSTANTS
  Scenario = {s1}
  Resource = {r1}
  NoScenario = NoScenario
  Thresholds <- Changing
  StateExpiration = 1
  InputBuffer = 2
  ResultBuffer = 1
  MaxDelay = 1
  MaxTime = 4
  MaxInputs = 4
  MaxReloads = 1
INVARIANTS IInv
PROPERTIES EmissionsJustified EmittedOnce
CHECK_DEADLOCK FALSE

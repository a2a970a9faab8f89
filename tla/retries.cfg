SPECIFICATION Spec
CONSTANTS
  Key = {k1, k2, k3}
  k1 = k1
  k2 = k2
  k3 = k3
  NoKey = NoKey
  Policies <- OnePaused
  Cooldown = 1
  MaxRetries = 2
  IdlePeriod = 2
  BufferSize = 1
  MaxTime = 8
  MaxLeaders = 1
INVARIANTS RetriesBounded EscalationEarned IInv
PROPERTY CooldownKept

SPECIFICATION Spec
CONSTANTS
  Key = {k1, k2, k3}
  Value = {v1, v2}
  Nothing = Nothing
  Sizes = {1, 3}
  Configs <- Both
  Percents = {50}
  MaxTime = 2
SYMMETRY Symmetry
INVARIANTS Accounting EvictsByPolicy
PROPERTIES LimitsRestored ImplementsContract

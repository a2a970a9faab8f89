SPECIFICATION Spec
CONSTANTS
  Pod = {p1, p2}
  Task = {t1}
  Goroutine = {g1, g2}
  NoPod = NoPod
  NoTask = NoTask
  ActionCount = 2
  Second = 2
  ActiveDeadline = 1
  RetentionPeriod = 0
  TrailingRetention = 0
  MaxTime = 2
  MaxFaults = 1
  MaxEdits = 0
SYMMETRY Symmetry
INVARIANTS ActionsAtMostOnce OutcomeIsTrue IInv
PROPERTIES OutcomeStands OnlyTerminalDeleted NotExpiredEarly ImplementsLifecycle

SPECIFICATION FairSpec
CONSTANTS
  Pod = {p1}
  Task = {t1}
  Goroutine = {g1}
  NoPod = NoPod
  NoTask = NoTask
  ActionCount = 1
  Second = 1
  ActiveDeadline = 1
  RetentionPeriod = 1
  TrailingRetention = 0
  MaxTime = 1
  MaxFaults = 0
  MaxEdits = 0
PROPERTY PendingIsResolved

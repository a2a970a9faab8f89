SPECIFICATION FairSpec
CONSTANTS
  Pod = {p1}
  Task = {t1}
  Goroutine = {g1, g2}
  NoPod = NoPod
  NoTask = NoTask
  ActionCount = 1
  Second = 1
  ActiveDeadline = 1
  RetentionPeriod = 0
  TrailingRetention = 0
  MaxTime = 2
  MaxFaults = 1
  MaxEdits = 1
PROPERTIES DeliveredIsClaimed RunningIsResolved
INVARIANT ClaimExclusive
